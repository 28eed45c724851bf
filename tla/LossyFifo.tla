----------------------------- MODULE LossyFifo -----------------------------
(***************************************************************************)
(* What spsc_overwrite_queue promises its two users (the header comment of *)
(* src/src/pd/utils/spsc_overwrite_queue.h): a FIFO of at most Cap         *)
(* elements in which a push never waits, since the oldest element makes    *)
(* room for it; an element is delivered once, whole and in order; nothing  *)
(* pushed before a clear is delivered after it.  Elements are numbered in  *)
(* the order they are pushed.                                              *)
(***************************************************************************)
EXTENDS Naturals, Sequences

CONSTANTS Cap,   \* capacity
          None   \* no element

VARIABLES items,   \* waiting, the oldest first
          pushed,  \* how many were pushed so far
          held,    \* the element a pop() has taken but not returned yet
          got      \* what the latest pop() returned

fifoVars == <<items, pushed, held, got>>

Init == items = <<>> /\ pushed = 0 /\ held = None /\ got = None

Push ==
    /\ Len(items) < Cap
    /\ items' = Append(items, pushed + 1) /\ pushed' = pushed + 1
    /\ UNCHANGED <<held, got>>

Discard ==
    /\ Len(items) = Cap
    /\ items' = Tail(items)
    /\ UNCHANGED <<pushed, held, got>>

Clear ==
    /\ items' = <<>> /\ held' = None
    /\ UNCHANGED <<pushed, got>>

Take ==
    /\ held = None /\ items # <<>>
    /\ held' = Head(items) /\ items' = Tail(items)
    /\ UNCHANGED <<pushed, got>>

Deliver ==
    /\ held # None
    /\ got' = held /\ held' = None
    /\ UNCHANGED <<items, pushed>>

FindEmpty ==
    /\ held = None /\ items = <<>>
    /\ got' = None
    /\ UNCHANGED <<items, pushed, held>>

Next == Push \/ Discard \/ Clear \/ Take \/ Deliver \/ FindEmpty

Spec == Init /\ [][Next]_fifoVars
=============================================================================
