----------------------------- MODULE AfsmProofs ----------------------------
(***************************************************************************)
(* For any states, any numbers of interceptors and whatever the callbacks  *)
(* return: Afsm implements Lifecycle, rests in whole states only, and      *)
(* get_previous_state_id() tells the truth.                                *)
(*                                                                         *)
(* The inductive invariant says, for every place of the walk through a     *)
(* table of callbacks, how many elements of the current state are entered. *)
(***************************************************************************)
EXTENDS Afsm, TLAPS

\* How many elements of the current state are entered at this place of the walk.
Depth ==
    IF at = "enter" THEN element - 1
    ELSE IF at \in {"exit", "rollback"} THEN element
    ELSE IF current_state_id \in States THEN Own(current_state_id) ELSE 0

StackInv == entered = Protocol!Stack(current_state_id, Depth)

\* An exit has noted the state it leaves already; a rollback will.
PreviousInv ==
    /\ at \in {"idle", "run", "enter"} => previous_state_id = left
    /\ at = "exit" => previous_state_id = current_state_id

IInv == TypeOK /\ StackInv /\ PreviousInv

USE IdsAssumption, InterceptorsAssumption

LEMMA OwnIsHeight ==
    ASSUME NEW s \in States
    PROVE  Own(s) \in Nat \ {0} /\ Height[s] = Own(s)
  BY DEF Own, Height

\* The elements of Lifecycle are those of Afsm.
LEMMA ElementsOfState ==
    /\ Protocol!Elements = Elements
    /\ \A s \in States, i \in Int : <<s, i>> \in Elements <=> i \in 1..Own(s)
    /\ \A e \in Elements : e[1] \in States /\ e[2] \in 1..Own(e[1]) /\ e = <<e[1], e[2]>>
<1>1. Protocol!Elements = Elements
  BY DEF Protocol!Elements, Elements
<1>2. \A s \in States, i \in Int : <<s, i>> \in Elements <=> i \in 1..Own(s)
  BY OwnIsHeight DEF Elements
<1>3. \A e \in Elements : e[1] \in States /\ e[2] \in 1..Own(e[1]) /\ e = <<e[1], e[2]>>
  BY OwnIsHeight DEF Elements
<1> QED BY <1>1, <1>2, <1>3

\* To enter the next element, or leave the last, is to push on or pop from the stack.
LEMMA PushPop ==
    ASSUME NEW s \in States, NEW i \in 1..Own(s)
    PROVE  /\ [Protocol!Stack(s, i - 1) EXCEPT ![<<s, i>>] = @ + 1] = Protocol!Stack(s, i)
           /\ [Protocol!Stack(s, i) EXCEPT ![<<s, i>>] = @ - 1] = Protocol!Stack(s, i - 1)
<1>1. <<s, i>> \in Elements /\ i \in Int
  BY ElementsOfState, OwnIsHeight
<1>2. ASSUME NEW n \in Int
      PROVE  Protocol!Stack(s, n) = [e \in Elements |-> IF e[1] = s /\ e[2] <= n THEN 1 ELSE 0]
  BY ElementsOfState DEF Protocol!Stack
<1>3. ASSUME NEW e \in Elements, e # <<s, i>>
      PROVE  e[1] = s /\ e[2] <= i <=> e[1] = s /\ e[2] <= i - 1
  BY <1>1, <1>3, ElementsOfState, OwnIsHeight
<1> DEFINE low == Protocol!Stack(s, i - 1)
           high == Protocol!Stack(s, i)
<1>4. /\ low = [e \in Elements |-> IF e[1] = s /\ e[2] <= i - 1 THEN 1 ELSE 0]
      /\ high = [e \in Elements |-> IF e[1] = s /\ e[2] <= i THEN 1 ELSE 0]
  BY <1>1, <1>2
<1> HIDE DEF low, high
<1>5. low[<<s, i>>] = 0 /\ high[<<s, i>>] = 1
  BY <1>1, <1>4
<1>6. \A e \in Elements : e # <<s, i>> => low[e] = high[e]
  BY <1>3, <1>4
<1>7. [low EXCEPT ![<<s, i>>] = @ + 1] = high
  <2>1. \A e \in Elements : [low EXCEPT ![<<s, i>>] = @ + 1][e] = high[e]
    BY <1>1, <1>4, <1>5, <1>6
  <2> QED BY <2>1, <1>4
<1>8. [high EXCEPT ![<<s, i>>] = @ - 1] = low
  <2>1. \A e \in Elements : [high EXCEPT ![<<s, i>>] = @ - 1][e] = low[e]
    BY <1>1, <1>4, <1>5, <1>6
  <2> QED BY <2>1, <1>4
<1> QED
  BY <1>7, <1>8 DEF low, high

\* No element is entered: whose, does not matter.
LEMMA EmptyStack ==
    ASSUME NEW s, NEW t
    PROVE  Protocol!Stack(s, 0) = Protocol!Stack(t, 0)
  BY ElementsOfState, OwnIsHeight DEF Protocol!Stack

LEMMA InitIInv == Init => IInv
<1> SUFFICES ASSUME Init PROVE IInv
  OBVIOUS
<1>1. TypeOK
  BY DEF Init, TypeOK, is_busy
<1>2. StackInv
  BY ElementsOfState DEF Init, StackInv, Depth, Protocol!Stack
<1>3. PreviousInv
  BY DEF Init, PreviousInv
<1> QED BY <1>1, <1>2, <1>3 DEF IInv

-----------------------------------------------------------------------------
(* One lemma per action.  Calls from outside call nothing back, so they     *)
(* change neither the stack nor the history of Lifecycle.                   *)

\* What a call from outside leaves in place.
LEMMA QuietIInv ==
    ASSUME IInv, at = "idle", UNCHANGED <<entered, call>>,
           current_state_id' \in States, target' \in States \cup {Uninitialized},
           \/ /\ at' = "run" /\ element' = 1
              /\ UNCHANGED <<current_state_id, previous_state_id, left>>
           \/ StartIn(current_state_id', TRUE) \/ StartIn(current_state_id', FALSE)
           \/ LeaveFor(target') /\ current_state_id \in States
    PROVE  IInv'
<1> USE DEF IInv
<1>1. Own(current_state_id') \in Nat \ {0}
  BY OwnIsHeight
<1>2. TypeOK'
  BY <1>1 DEF TypeOK, is_busy, StartIn, LeaveFor, Walk
<1>3. Protocol!Stack(current_state_id, Depth) = Protocol!Stack(current_state_id', Depth')
  <2>1. CASE at' = "run" /\ UNCHANGED current_state_id
    BY <2>1 DEF Depth
  <2>2. CASE at' = "enter" /\ element' = 1 /\ current_state_id \notin States
    BY <2>2, EmptyStack DEF Depth
  <2>3. CASE LeaveFor(target') /\ current_state_id \in States
    BY <2>3 DEF Depth, LeaveFor, Walk
  <2> QED BY <2>1, <2>2, <2>3 DEF StartIn, Walk
<1>4. StackInv'
  BY <1>3 DEF StackInv, Protocol!Stack, Protocol!Elements
<1>5. PreviousInv'
  BY DEF PreviousInv, StartIn, LeaveFor, Walk
<1> QED BY <1>2, <1>4, <1>5

LEMMA ChangeStep == IInv /\ change_state => IInv'
<1> SUFFICES ASSUME IInv, change_state PROVE IInv'
  OBVIOUS
<1>1. PICK s \in States, reenter \in BOOLEAN : StartIn(s, reenter) \/ ChangeFrom(s, reenter)
  BY DEF change_state
<1>2. at = "idle" /\ UNCHANGED <<entered, call>>
  BY DEF change_state, is_busy
<1>3. CASE StartIn(s, reenter)
  BY <1>2, <1>3, QuietIInv DEF StartIn, IInv, TypeOK
<1>4. CASE ChangeFrom(s, reenter)
  BY <1>2, <1>4, QuietIInv DEF ChangeFrom, LeaveFor
<1> QED BY <1>1, <1>3, <1>4

LEMMA ResetStep == IInv /\ reset => IInv'
  BY QuietIInv DEF reset, LeaveFor, is_busy

LEMMA RunStep == IInv /\ run => IInv'
  BY QuietIInv DEF run, Walk, is_busy, IInv, TypeOK

\* on_run: the stack stays as it is, full.
LEMMA RunCallback == IInv /\ execute_run => IInv' /\ Protocol!Next
<1> SUFFICES ASSUME IInv, execute_run PROVE IInv' /\ Protocol!Next
  OBVIOUS
<1> USE DEF IInv
<1> DEFINE s == current_state_id
           e == <<s, element>>
<1>1. s \in States /\ element \in 1..Own(s) /\ e \in Elements /\ Own(s) \in Nat \ {0}
  BY OwnIsHeight, ElementsOfState DEF TypeOK, is_busy, execute_run
<1>2. UNCHANGED <<current_state_id, entered>> /\ call' = [kind |-> "run", element |-> e]
  BY DEF execute_run, Calls, Continue, Rest, LeaveFor
<1>3. Depth = Own(s) /\ Depth' = Own(s)
  BY <1>1 DEF execute_run, Depth, Continue, Rest, LeaveFor, Walk
<1>4. Protocol!Run(e)
  BY <1>1, <1>2, <1>3, OwnIsHeight DEF StackInv, Protocol!Run, Protocol!Calls
<1>5. Protocol!Next
  BY <1>1, <1>4, ElementsOfState DEF Protocol!Next
<1>6. TypeOK'
  BY <1>1, <1>2 DEF TypeOK, is_busy, execute_run, Continue, Rest, LeaveFor, Walk
<1>7. StackInv'
  BY <1>2, <1>3 DEF StackInv, Protocol!Stack, Protocol!Elements
<1>8. PreviousInv'
  BY DEF PreviousInv, execute_run, Continue, Rest, LeaveFor, Walk
<1> QED BY <1>5, <1>6, <1>7, <1>8

\* on_enter: one element more on the stack.
LEMMA EnterCallback == IInv /\ execute_enter => IInv' /\ Protocol!Next
<1> SUFFICES ASSUME IInv, execute_enter PROVE IInv' /\ Protocol!Next
  OBVIOUS
<1> USE DEF IInv, execute_enter, EnterElement, RestEntered, RollBackFrom, Walk
<1> DEFINE s == current_state_id
           e == <<s, element>>
<1>1. s \in States /\ element \in 1..Own(s) /\ e \in Elements /\ Own(s) \in Nat \ {0}
  BY OwnIsHeight, ElementsOfState DEF TypeOK, is_busy, execute_enter
<1>2. /\ UNCHANGED <<current_state_id, previous_state_id, left>>
      /\ call' = [kind |-> "enter", element |-> e]
      /\ entered' = [entered EXCEPT ![e] = @ + 1]
  BY DEF execute_enter, Calls, Continue, Rest
<1>3. entered = Protocol!Stack(s, element - 1)
  BY DEF StackInv, Depth, execute_enter
<1>4. entered' = Protocol!Stack(s, element)
  BY <1>1, <1>2, <1>3, PushPop
<1>5. Protocol!Next
  BY <1>1, <1>2, <1>3, <1>4, ElementsOfState
     DEF Protocol!Next, Protocol!Enter, Protocol!Calls
<1>6. Depth' = element
  BY <1>1, <1>2 DEF execute_enter, Depth, Continue, Rest
<1>7. entered' \in [Elements -> {0, 1}]
  BY <1>1, <1>4, ElementsOfState DEF Protocol!Stack
<1>8. TypeOK'
  BY <1>1, <1>2, <1>7 DEF TypeOK, is_busy, execute_enter, Continue, Rest
<1>9. StackInv'
  BY <1>2, <1>4, <1>6 DEF StackInv, Protocol!Stack, Protocol!Elements
<1>10. PreviousInv'
  BY <1>2 DEF PreviousInv, execute_enter, Continue, Rest
<1> QED BY <1>5, <1>8, <1>9, <1>10

\* on_exit: one element less; the last one off, the target is entered.
LEMMA ExitCallback == IInv /\ execute_exit => IInv' /\ Protocol!Next
<1> SUFFICES ASSUME IInv, execute_exit PROVE IInv' /\ Protocol!Next
  OBVIOUS
<1> USE DEF IInv
<1> DEFINE s == current_state_id
           e == <<s, element>>
<1>1. s \in States /\ element \in 1..Own(s) /\ e \in Elements /\ Own(s) \in Nat \ {0}
  BY OwnIsHeight, ElementsOfState DEF TypeOK, is_busy, execute_exit, LeaveElement
<1>2. /\ call' = [kind |-> "exit", element |-> e]
      /\ entered' = [entered EXCEPT ![e] = @ - 1]
  BY DEF execute_exit, Calls, LeaveElement
<1>3. entered = Protocol!Stack(s, element)
  BY DEF StackInv, Depth, execute_exit, LeaveElement
<1>4. entered' = Protocol!Stack(s, element - 1)
  BY <1>1, <1>2, <1>3, PushPop
<1>5. Protocol!Next
  BY <1>1, <1>2, <1>3, <1>4, ElementsOfState
     DEF Protocol!Next, Protocol!Exit, Protocol!Calls
<1>6. entered' \in [Elements -> {0, 1}]
  BY <1>1, <1>4, ElementsOfState DEF Protocol!Stack
<1>7. CASE NextElement
  <2>1. UNCHANGED <<current_state_id, previous_state_id, at, target, left>>
    BY <1>7 DEF NextElement
  <2>2. TypeOK'
    BY <1>1, <1>6, <1>7, <2>1 DEF TypeOK, is_busy, NextElement
  <2>3. Depth' = element - 1
    BY <1>7, <2>1 DEF Depth, execute_exit, LeaveElement, NextElement
  <2>4. StackInv'
    BY <1>4, <2>1, <2>3 DEF StackInv, Protocol!Stack, Protocol!Elements
  <2>5. PreviousInv'
    BY <2>1 DEF PreviousInv, execute_exit, LeaveElement
  <2> QED BY <1>5, <2>2, <2>4, <2>5
<1>8. CASE EnterTarget /\ previous_state_id' =
             IF at = "rollback" THEN current_state_id ELSE previous_state_id
  <2>1. /\ element = 1 /\ element' = 1
        /\ current_state_id' = target /\ target' = target /\ left' = current_state_id
        /\ at' = IF target \in States THEN "enter" ELSE "idle"
    BY <1>8 DEF EnterTarget, Walk
  <2>2. TypeOK'
    <3>1. target \in States => Own(target) \in Nat \ {0}
      BY OwnIsHeight
    <3> QED BY <1>1, <1>6, <1>8, <2>1, <3>1 DEF TypeOK, is_busy
  <2>3. Depth' = 0
    BY <2>1 DEF Depth
  <2>4. entered' = Protocol!Stack(target, 0)
    BY <1>4, <2>1, EmptyStack
  <2>5. StackInv'
    BY <2>1, <2>3, <2>4 DEF StackInv, Protocol!Stack, Protocol!Elements
  <2>6. PreviousInv'
    BY <1>8, <2>1 DEF PreviousInv, execute_exit, LeaveElement
  <2> QED BY <1>5, <2>2, <2>5, <2>6
<1> QED BY <1>7, <1>8 DEF execute_exit

LEMMA InductiveStep == IInv /\ [Next]_vars => IInv' /\ [Protocol!Next]_Protocol!vars
<1> SUFFICES ASSUME IInv, [Next]_vars PROVE IInv' /\ [Protocol!Next]_Protocol!vars
  OBVIOUS
<1>1. CASE change_state
  BY <1>1, ChangeStep DEF change_state, Protocol!vars
<1>2. CASE reset
  BY <1>2, ResetStep DEF reset, Protocol!vars
<1>3. CASE run
  BY <1>3, RunStep DEF run, Protocol!vars
<1>4. CASE execute_run
  BY <1>4, RunCallback
<1>5. CASE execute_enter
  BY <1>5, EnterCallback
<1>6. CASE execute_exit
  BY <1>6, ExitCallback
<1>7. CASE UNCHANGED vars
  BY <1>7 DEF vars, machine, IInv, TypeOK, is_busy, StackInv, PreviousInv, Depth,
              Protocol!vars, Protocol!Stack, Protocol!Elements
<1> QED
  BY <1>1, <1>2, <1>3, <1>4, <1>5, <1>6, <1>7 DEF Next

-----------------------------------------------------------------------------
LEMMA Invariance == Spec => []IInv
<1>1. IInv /\ [Next]_vars => IInv'
  BY InductiveStep
<1> QED
  BY <1>1, InitIInv, PTL DEF Spec

\* Ids, places in the tables and counts keep their types: no callback is called
\* that the state has not got.
THEOREM TypeCorrect == Spec => []TypeOK
<1>1. IInv => TypeOK
  BY DEF IInv
<1> QED BY <1>1, Invariance, PTL

\* run() and change_state() return with a state entered as a whole, or none.
THEOREM RestsInWholeStates == Spec => []RestsWhole
<1>1. ASSUME IInv PROVE RestsWhole
  <2> SUFFICES ASSUME at = "idle", NEW e \in Elements
               PROVE  entered[e] = IF e[1] = current_state_id THEN 1 ELSE 0
    BY DEF RestsWhole
  <2>1. e[1] \in States /\ e[2] \in 1..Own(e[1]) /\ Own(e[1]) \in Nat
    BY ElementsOfState, OwnIsHeight
  <2>2. entered[e] = IF e[1] = current_state_id /\ e[2] <= Depth THEN 1 ELSE 0
    BY <1>1, ElementsOfState DEF IInv, StackInv, Protocol!Stack
  <2>3. current_state_id \in States => Depth = Own(current_state_id)
    BY DEF Depth
  <2> QED BY <2>1, <2>2, <2>3
<1> QED BY <1>1, Invariance, PTL

\* The state that get_previous_state_id() names is the one left last.
THEOREM PreviousIsTheOneLeft == Spec => []PreviousIsLeft
<1>1. IInv => PreviousIsLeft
  BY DEF IInv, PreviousInv, PreviousIsLeft
<1> QED BY <1>1, Invariance, PTL

\* afsm implements Lifecycle: every callback is a step of it, and everything else a stutter.
THEOREM Implementation == Spec => ImplementsLifecycle
<1>1. Init => Protocol!Init
  BY ElementsOfState DEF Init, Protocol!Init
<1>2. IInv /\ [Next]_vars => [Protocol!Next]_Protocol!vars
  BY InductiveStep
<1> QED
  BY <1>1, <1>2, Invariance, PTL DEF Spec, Protocol!Spec, ImplementsLifecycle
=============================================================================
