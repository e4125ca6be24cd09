------------------------------ MODULE LRUCache ------------------------------
(***************************************************************************)
(* What a set-associative LRU cache promises, with no slots and no tags:   *)
(* each set is the list of the blocks it holds, most recently used first,  *)
(* at most Assoc long.  A block hits exactly when its set holds it; a hit  *)
(* moves it to the front, a miss puts it in front and drops the least      *)
(* recently used block of a full set.  A reference touches one block, or   *)
(* two consecutive blocks one after the other, and misses when either of   *)
(* them does.  The cache starts empty: a block's first touch misses.       *)
(***************************************************************************)
EXTENDS Naturals, Sequences

LOCAL INSTANCE SequencesExt

CONSTANTS
    Sets,     \* number of sets
    Assoc,    \* blocks per set
    Blocks    \* the blocks references may touch

VARIABLES
    content,  \* content[s]: the blocks of set s, most recently used first
    miss,     \* whether the last reference missed
    last      \* the blocks the last reference touched, in order

vars == <<content, miss, last>>

SetOf(b) == b % Sets

Resident(b) == Contains(content[SetOf(b)], b)

Touch(q, b) ==
    IF Contains(q, b) THEN Cons(b, Remove(q, b))
    ELSE IF Len(q) < Assoc THEN Cons(b, q) ELSE Cons(b, Front(q))

Init ==
    /\ content = [s \in 0 .. Sets - 1 |-> << >>]
    /\ miss = FALSE
    /\ last = << >>

\* A reference to block b alone.
RefOne(b) ==
    /\ content' = [content EXCEPT ![SetOf(b)] = Touch(@, b)]
    /\ miss' = ~Resident(b)
    /\ last' = << b >>

\* A reference straddling blocks b and b + 1: b is touched first.
RefTwo(b) ==
    LET c1 == [content EXCEPT ![SetOf(b)] = Touch(@, b)]
    IN  /\ content' = [c1 EXCEPT ![SetOf(b + 1)] = Touch(@, b + 1)]
        /\ miss' = (~Resident(b) \/ ~Contains(c1[SetOf(b + 1)], b + 1))
        /\ last' = << b, b + 1 >>

Next ==
    \E b \in Blocks : RefOne(b) \/ RefTwo(b)

Spec == Init /\ [][Next]_vars
=============================================================================
