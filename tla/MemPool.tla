------------------------------ MODULE MemPool ------------------------------
(***************************************************************************)
(* common/Mempool.hpp: the fixed pool of blocks behind the orders and the  *)
(* price levels of both order books.  A cursor, next_free_index_, points   *)
(* at the block the next allocate() will use; it is moved to the next free *)
(* block, going round the store, at the end of every allocate().  A failed *)
(* ASSERT exits the process.                                               *)
(***************************************************************************)
EXTENDS Naturals, FiniteSets

CONSTANT NumElems       \* store_.size()

ASSUME PoolAssumption == NumElems \in Nat \ {0}

Blocks == 0 .. NumElems - 1

VARIABLES
    isFree,     \* is_free of each block
    nextFree,   \* next_free_index_
    live,       \* blocks the callers were given and have not returned
    asked,      \* allocations minus deallocations the callers asked for
    status      \* "running", or the ASSERT that ended the process

poolVars == <<isFree, nextFree, live, asked, status>>

PoolInit ==
    /\ isFree = [b \in Blocks |-> TRUE]
    /\ nextFree = 0
    /\ live = {} /\ asked = 0
    /\ status = "running"

\* Blocks passed when walking from block a up to block b, round the store.
Steps(a, b) == IF b >= a THEN b - a ELSE b + NumElems - a

\* updateNextFreeIndex(): the first free block on the walk from the cursor.
NextFreeIndex(free, from, to) ==
    /\ free[to]
    /\ \A b \in Blocks : free[b] => Steps(from, to) <= Steps(from, b)

\* Fault: the block keeps its is_free flag.
Allocate_NotMarked ==
    /\ status = "running"
    /\ asked' = asked + 1
    /\ live' = live \cup {nextFree}
    /\ UNCHANGED <<isFree, nextFree, status>>

\* Fault: the cursor just goes to the next block.
Allocate_CursorUnchecked ==
    /\ status = "running"
    /\ asked' = asked + 1
    /\ IF ~isFree[nextFree]
       THEN status' = "block not free" /\ UNCHANGED <<isFree, nextFree, live>>
       ELSE /\ isFree' = [isFree EXCEPT ![nextFree] = FALSE]
            /\ live' = live \cup {nextFree}
            /\ nextFree' = (nextFree + 1) % NumElems
            /\ UNCHANGED status

\* allocate(): the block at the cursor is handed out, then the cursor moves
\* on; when the walk comes back to where it began, the process exits although
\* this allocation could have been served.
Allocate ==
    /\ status = "running"
    /\ asked' = asked + 1
    /\ IF ~isFree[nextFree]
       THEN status' = "block not free" /\ UNCHANGED <<isFree, nextFree, live>>
       ELSE /\ isFree' = [isFree EXCEPT ![nextFree] = FALSE]
            /\ live' = live \cup {nextFree}
            /\ IF \E b \in Blocks : isFree'[b]
               THEN /\ \E b \in Blocks :
                          NextFreeIndex(isFree', nextFree, b) /\ nextFree' = b
                    /\ UNCHANGED status
               ELSE /\ status' = "out of space"
                    /\ UNCHANGED nextFree

\* deallocate(elem): the callers return only what they hold; the range check
\* on elem cannot fail then.  The cursor stays.
Deallocate(b) ==
    /\ status = "running" /\ b \in live
    /\ asked' = asked - 1
    /\ live' = live \ {b}
    /\ IF isFree[b]
       THEN status' = "block not in use" /\ UNCHANGED isFree
       ELSE isFree' = [isFree EXCEPT ![b] = TRUE] /\ UNCHANGED status
    /\ UNCHANGED nextFree

PoolNext == Allocate \/ \E b \in Blocks : Deallocate(b)

PoolSpec == PoolInit /\ [][PoolNext]_poolVars

-----------------------------------------------------------------------------
(* Properties. *)

\* Neither ASSERT on is_free can fail, and the pool gives up only when every
\* block is in use: a block freed behind the cursor is always found again.
EndsOnlyWhenFull ==
    status # "running" => status = "out of space" /\ live = Blocks

\* The block allocate() returns was in nobody's hands, so two live orders (or
\* two price levels) never share memory.
NoBlockSharedStep == asked' > asked => nextFree \notin live
NoBlockShared == [][NoBlockSharedStep]_poolVars

=============================================================================
