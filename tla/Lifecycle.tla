----------------------------- MODULE Lifecycle -----------------------------
(***************************************************************************)
(* What a state machine promises to the callbacks of its states.  A state  *)
(* has elements: its interceptors and, last, the state itself.  They are   *)
(* entered in order and left in the reverse order, each once, those of one *)
(* state at a time, and only a state entered as a whole is run.            *)
(***************************************************************************)
EXTENDS Integers

CONSTANTS
    States,      \* the states
    Height       \* of each state, the number of its elements, at least 1

VARIABLES
    entered,     \* of each element: how often it was entered, less how often it was left
    call         \* the callback called last

vars == <<entered, call>>

Elements == UNION {{s} \X (1..Height[s]) : s \in States}

\* The first n elements of a state are entered, and no other.
Stack(s, n) == [e \in Elements |-> IF e[1] = s /\ e[2] <= n THEN 1 ELSE 0]

Calls(kind, e) == call' = [kind |-> kind, element |-> e]

Init ==
    /\ entered = [e \in Elements |-> 0]
    /\ call = [kind |-> "none", element |-> <<>>]

Enter(e) ==
    /\ entered = Stack(e[1], e[2] - 1)
    /\ entered' = Stack(e[1], e[2])
    /\ Calls("enter", e)

Run(e) ==
    /\ entered = Stack(e[1], Height[e[1]])
    /\ UNCHANGED entered
    /\ Calls("run", e)

Exit(e) ==
    /\ entered = Stack(e[1], e[2])
    /\ entered' = Stack(e[1], e[2] - 1)
    /\ Calls("exit", e)

Next == \E e \in Elements : Enter(e) \/ Run(e) \/ Exit(e)

Spec == Init /\ [][Next]_vars
=============================================================================
