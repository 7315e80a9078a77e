-------------------------- MODULE PhysicalAllocator --------------------------
(***************************************************************************)
(* The allocator of guest physical pages                                   *)
(* (exbawks-memory/src/allocator.rs): a cursor with a pool of freed runs   *)
(* in front of it.  GuestMemory builds on these operators, and             *)
(* PageAllocator is the allocator alone.                                   *)
(*                                                                         *)
(* `held' is a history: the pages that are handed out.                     *)
(***************************************************************************)
EXTENDS Integers

CONSTANT PageCount      \* page_count: pages of physical memory

ASSUME PageCountAssumption == PageCount \in Nat

VARIABLE alloc          \* [next: next_page, runs: free_runs, held]

Span(start, n) == start .. start + n - 1
Lowest(S) == CHOOSE x \in S : \A y \in S : x <= y
Highest(S) == CHOOSE x \in S : \A y \in S : x >= y

NewAllocator == [next |-> 0, runs |-> << >>, held |-> {}]

(* The freed runs, without the one at s or with one of n pages there.      *)
Without(runs, s) == [t \in DOMAIN runs \ {s} |-> runs[t]]
With(runs, s, n) == [t \in DOMAIN runs \cup {s} |-> IF t = s THEN n ELSE runs[t]]

-----------------------------------------------------------------------------
(* First fit from the freed runs, else the cursor.                         *)
Fitting(a, n) == {s \in DOMAIN a.runs : a.runs[s] >= n}

CanAllocate(a, n) == Fitting(a, n) # {} \/ a.next + n <= PageCount

Placed(a, n) == IF Fitting(a, n) # {} THEN Lowest(Fitting(a, n)) ELSE a.next

Split(runs, s, n) ==
    IF runs[s] > n THEN With(Without(runs, s), s + n, runs[s] - n)
                   ELSE Without(runs, s)

Taken(a, n) ==
    LET s == Placed(a, n) IN
    [next |-> IF Fitting(a, n) # {} THEN a.next ELSE a.next + n,
     runs |-> IF Fitting(a, n) # {} THEN Split(a.runs, s, n) ELSE a.runs,
     held |-> a.held \cup Span(s, n)]

-----------------------------------------------------------------------------
(* The run that begins last at or before a page, and the page it ends at.  *)
Before(runs, page) == {s \in DOMAIN runs : s <= page}
EndOf(runs, s) == s + runs[s]

(* Inserting [begin, end): a run that begins at `end' is swallowed, and an *)
(* earlier run that ends at `begin' is extended.                           *)
Joined(runs, begin, end) ==
    LET swallows == end \in DOMAIN runs
        last     == IF swallows THEN EndOf(runs, end) ELSE end
        rest     == IF swallows THEN Without(runs, end) ELSE runs
        earlier  == {s \in DOMAIN runs : EndOf(runs, s) = begin}
        first    == IF earlier # {} THEN Highest(earlier) ELSE begin
    IN  With(rest, first, last - first)

(* Overlap with the run before is trimmed; what lies past the cursor, or   *)
(* inside a freed run, is ignored.                                         *)
Returned(a, start, n) ==
    LET end   == IF start + n > a.next THEN a.next ELSE start + n
        edge  == IF Before(a.runs, start) = {} THEN start
                 ELSE EndOf(a.runs, Highest(Before(a.runs, start)))
        begin == IF edge > start THEN edge ELSE start
    IN  IF n = 0 \/ start >= a.next \/ begin >= end THEN a
        ELSE [a EXCEPT !.runs = Joined(a.runs, begin, end),
                       !.held = @ \ Span(start, n)]

(* An allocation that never took effect: the cursor moves back over it, or *)
(* it goes back to the pool.                                               *)
RolledBack(a, start, n) ==
    IF a.next = start + n
    THEN [a EXCEPT !.next = start, !.held = @ \ Span(start, n)]
    ELSE Returned(a, start, n)

(* A mutation: only the cursor moves.                                      *)
ReservedKeepsRuns(a, target) ==
    IF a.next >= target THEN a
    ELSE [a EXCEPT !.next = target, !.held = 0 .. target - 1]

(* One page at a time until the cursor is past `target': the freed runs go *)
(* first.                                                                  *)
ReservedThrough(a, target) ==
    IF a.next >= target THEN a
    ELSE [next |-> target, runs |-> << >>, held |-> 0 .. target - 1]

-----------------------------------------------------------------------------
Pooled(a) == UNION {Span(s, a.runs[s]) : s \in DOMAIN a.runs}

(* Every page below the cursor is either handed out or in the pool, never  *)
(* both, and none above it is: no page is given to two owners and none is  *)
(* lost, whatever is split, joined and rolled back.                        *)
PoolPartition ==
    /\ alloc.held \cap Pooled(alloc) = {}
    /\ alloc.held \cup Pooled(alloc) = 0 .. alloc.next - 1

(* free_runs, "coalesced with their neighbours": runs neither overlap nor  *)
(* touch, so that freed neighbours can serve a larger request again.       *)
PoolCoalesced ==
    \A s, t \in DOMAIN alloc.runs : s < t => EndOf(alloc.runs, s) < t

=============================================================================
