------------------------------ MODULE CacheSim ------------------------------
(***************************************************************************)
(* One simulated cache of cg_sim.c (a cache_t2): its cachelines, its       *)
(* per-set LRU list and the per-source-line eviction histogram the D1 and  *)
(* LL caches keep (LineCC.num_evicts_D1 / num_evicts_LL).  The operators   *)
(* take a cache value and return the next one, so that a spec can hold     *)
(* one cache per variable and the hierarchy can run the I1, D1 and LL      *)
(* caches through the same code, exactly as cg_sim.c does.                 *)
(*                                                                         *)
(* Shifts by log2 of a power of two are divisions, masks by (n - 1) are    *)
(* remainders.  The 64-bit bitvector is a number: with at most MaxBins    *)
(* (16) words per line no bit above 15 is ever set, so the int-typed       *)
(* (1 << i) of bitop_set_range never reaches its sign bit, and the vector  *)
(* fits TLC's integers.                                                    *)
(***************************************************************************)
EXTENDS Naturals, FiniteSets, Sequences, Bitwise

LOCAL INSTANCE SequencesExt

CONSTANTS
    Size,         \* cache_t.size, bytes
    Assoc,        \* cache_t.assoc
    LineSize,     \* cache_t.line_size, bytes
    WordSize,     \* the word size given to cachesim_initcache
    MaxBins,      \* MAX_NUM_BINS
    Locs,         \* source lines (LineCC) that issue accesses
    NoLoc,        \* the NULL LineCC* passed for instruction fetches
    CountEvicts   \* TRUE for the caches the code tests as c==&D1 or c==&LL

IsPow2(n) == \E k \in 0..n : 2^k = n

ASSUME /\ IsPow2(Size) /\ IsPow2(Assoc) /\ IsPow2(LineSize) /\ IsPow2(WordSize)
       /\ WordSize <= LineSize
       /\ Size \div LineSize >= Assoc
       /\ LineSize \div WordSize <= MaxBins
       /\ NoLoc \notin Locs
       /\ CountEvicts \in BOOLEAN

\* cachesim_initcache: the derived shape of the cache.
Sets     == (Size \div LineSize) \div Assoc
NumWords == LineSize \div WordSize
SetIdx   == 0 .. Sets - 1
Ways     == 0 .. Assoc - 1
Words    == 0 .. NumWords - 1
Bins     == 0 .. MaxBins - 1
LocOpt   == Locs \cup {NoLoc}

\* A cacheline_t.  line_num is a debugging copy of src's line and is left out.
Line == [tag: Nat, bv: 0 .. 2^NumWords - 1, acc: Nat, src: LocOpt]

EmptyLine == [tag |-> 0, bv |-> 0, acc |-> 0, src |-> NoLoc]

\* bitop_set_range: "for (i = begin; i <= end; i++) *bv |= 1 << i".
RECURSIVE BitopSetRange(_, _, _)
BitopSetRange(bv, b, e) == IF b > e THEN bv ELSE BitopSetRange(bv | 2^b, b + 1, e)

\* bitop_count, Brian Kernighan's count: "while (bv) { bv &= (bv - 1);
\* count++; }".
RECURSIVE BitopCount(_)
BitopCount(bv) == IF bv = 0 THEN 0 ELSE 1 + BitopCount(bv & (bv - 1))

\* The words whose bits are set: the reference the two are checked against.
BitsOf(bv) == {i \in Words : (bv \div 2^i) % 2 = 1}

\* cachesim_initcache: every line zeroed (tag 0), and the LRU list of each
\* set holding assoc-1, ..., 1, 0 from the MRU end.
InitCache ==
    [lines  |-> [s \in SetIdx |-> [w \in Ways |-> EmptyLine]],
     lru    |-> [s \in SetIdx |-> [i \in 1..Assoc |-> Assoc - i]],
     evicts |-> [l \in Locs |-> [b \in Bins |-> 0]]]

\* Position (1 = MRU) of the first slot in the set's LRU order whose tag
\* matches, or 0: the unrolled check of id[0] and then the scan of id[i].
HitPos(c, s, tag) ==
    LET ps == {p \in 1..Assoc : c.lines[s][c.lru[s][p]].tag = tag}
    IN  IF ps = {} THEN 0 ELSE Min(ps)

SetRefIsMiss(c, s, tag) == HitPos(c, s, tag) = 0

\* Plausible faults of the two LRU shuffles (used by the mutation runs).
PromoteOnlyMRU(q, p) == q
RotateKeepVictim(q) == Cons(q[Assoc], q)

\* Hit on position p: "tmp = id[i]; for (j = i; j > 0; j--) id[j] = id[j-1];
\* id[0] = tmp".  A hit on the MRU slot (p = 1) leaves the order alone.
Promote(q, p) == Cons(q[p], RemoveAt(q, p))

\* Miss: the LRU slot id[assoc-1] is evicted, the rest shift down one and
\* the evicted slot becomes id[0].
Rotate(q) == Cons(q[Assoc], Front(q))

\* The eviction is entered in the evicted line's own source line's
\* histogram only when it touched some word, had a nonzero tag and an owner.
Counted(old) == CountEvicts /\ old.bv # 0 /\ old.tag # 0 /\ old.src # NoLoc

\* cachesim_setref_is_miss, without the variable attribution: a hit ORs the
\* touched words into the line, counts the access and promotes the slot to
\* MRU; a miss takes the LRU slot, enters the evicted line's word count in
\* its owner's histogram, and installs the tag with only the touched words.
SetRef(c, s, tag, wb, we, loc) ==
    LET p == HitPos(c, s, tag)
        q == c.lru[s]
    IN  IF p # 0
        THEN [c EXCEPT !.lru[s] = Promote(q, p),
                       !.lines[s][q[p]].bv  = BitopSetRange(@, wb, we),
                       !.lines[s][q[p]].acc = @ + 1]
        ELSE LET w   == q[Assoc]
                 old == c.lines[s][w]
             IN  [c EXCEPT !.lru[s] = Rotate(q),
                           !.lines[s][w] = [tag |-> tag, bv |-> BitopSetRange(0, wb, we),
                                            acc |-> 0, src |-> loc],
                           !.evicts = IF Counted(old)
                                      THEN [@ EXCEPT ![old.src][BitopCount(old.bv) - 1] = @ + 1]
                                      ELSE @]

\* Plausible fault: the second probe of a straddling reference starts at
\* the first probe's word instead of word 0.
ProbesSameBegin(a, size) ==
    LET b1  == a \div LineSize
        b2  == (a + size - 1) \div LineSize
        off == a % LineSize
        wb  == off \div WordSize
        we1 == (off + size - 1) \div WordSize
    IN  IF b1 = b2
        THEN << [set |-> b1 % Sets, tag |-> b1, wb |-> wb, we |-> we1] >>
        ELSE << [set |-> b1 % Sets, tag |-> b1, wb |-> wb, we |-> NumWords - 1],
                [set |-> b2 % Sets, tag |-> b2, wb |-> wb, we |-> we1 - NumWords] >>

\* The lines a reference probes, in order: one, or two when it straddles a
\* line boundary (the first probe then runs to the last word of its line,
\* the second starts at word 0).  The host never issues a reference that
\* spans more than two lines; cachesim_ref_is_miss panics on one.
Probes(a, size) ==
    LET b1  == a \div LineSize
        b2  == (a + size - 1) \div LineSize
        off == a % LineSize
        wb  == off \div WordSize
        we1 == (off + size - 1) \div WordSize
    IN  IF b1 = b2
        THEN << [set |-> b1 % Sets, tag |-> b1, wb |-> wb, we |-> we1] >>
        ELSE << [set |-> b1 % Sets, tag |-> b1, wb |-> wb, we |-> NumWords - 1],
                [set |-> b2 % Sets, tag |-> b2, wb |-> 0, we |-> we1 - NumWords] >>

ProbeRef(c, pr, loc) == SetRef(c, pr.set, pr.tag, pr.wb, pr.we, loc)
ProbeMiss(c, pr)     == SetRefIsMiss(c, pr.set, pr.tag)

\* cachesim_ref_is_miss: both probes of a straddling reference always run
\* (the state is updated as a side effect); misses holds the result of each
\* probe, and the reference misses when any probe does.
Ref(c, a, size, loc) ==
    LET P  == Probes(a, size)
        c1 == ProbeRef(c, P[1], loc)
    IN  IF Len(P) = 1
        THEN [cache |-> c1, misses |-> << ProbeMiss(c, P[1]) >>]
        ELSE [cache  |-> ProbeRef(c1, P[2], loc),
              misses |-> << ProbeMiss(c, P[1]), ProbeMiss(c1, P[2]) >>]

IsMiss(r) == \E i \in DOMAIN r.misses : r.misses[i]

\* The slots the drain visits: every position of every set's LRU list.
Resident(c) == {<<s, p>> \in SetIdx \X (1..Assoc) : c.lines[s][c.lru[s][p]].tag # 0}

\* Plausible fault: the drain loop stops one short of the LRU end.
UndrainedSkipLRU(c, l, b) ==
    {<<s, p>> \in Resident(c) :
        LET ln == c.lines[s][c.lru[s][p]]
        IN  p < Assoc /\ ln.src = l /\ BitopCount(ln.bv) = b + 1}

\* cachesim_collect_undrained_lines: the visited slots with a nonzero tag
\* and an owner whose bitvector has b + 1 one bits.
Undrained(c, l, b) ==
    {<<s, p>> \in Resident(c) :
        LET ln == c.lines[s][c.lru[s][p]]
        IN  ln.src = l /\ BitopCount(ln.bv) = b + 1}

CollectUndrained(c) ==
    IF CountEvicts
    THEN [c EXCEPT !.evicts = [l \in Locs |-> [b \in Bins |->
                                 c.evicts[l][b] + Cardinality(Undrained(c, l, b))]]]
    ELSE c
=============================================================================
