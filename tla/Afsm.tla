------------------------------- MODULE Afsm --------------------------------
(***************************************************************************)
(* The framework of all state machines of the stack                        *)
(* (src/src/pd/utils/afsm.h): run() and change_state(), with interceptors, *)
(* transitions chained by on_enter and the rollback of a state entered in  *)
(* part.  Each action is a call from outside or one callback together with *)
(* what the framework does with its result.  Where the code walks a table  *)
(* of callbacks is the state of the model; is_busy tells that it does.     *)
(***************************************************************************)
EXTENDS Integers

CONSTANTS
    States,            \* the ids below state_count
    Interceptors,      \* of each state, the number of its interceptors
    No_State_Change, Self_Transition, Uninitialized,  \* ids with a meaning of their own
    InvalidId          \* an id that no state has

ASSUME IdsAssumption ==
    /\ {No_State_Change, Self_Transition, Uninitialized, InvalidId} \cap States = {}
    /\ Self_Transition \notin {No_State_Change, Uninitialized}
    /\ InvalidId \notin {No_State_Change, Uninitialized}
ASSUME InterceptorsAssumption == Interceptors \in [States -> Nat]

VARIABLES
    current_state_id, previous_state_id,
    at,       \* the table of callbacks being walked, "idle" outside of run() and change_state()
    element,  \* the callback of it to be called next
    target,   \* where to go after an exit or a rollback
    entered,  \* history: how often an element was entered, less how often it was left
    call,     \* history: the callback called last
    left      \* history: the state left last, since the last start that asked for reenter

machine == <<current_state_id, previous_state_id, at, element, target>>
vars == <<machine, entered, call, left>>

Ids == States \cup {No_State_Change, Self_Transition, Uninitialized, InvalidId}

\* The state's own callbacks come after those of its interceptors.
Height == [s \in States |-> Interceptors[s] + 1]
Own(s) == Interceptors[s] + 1
Elements == UNION {{s} \X (1..Height[s]) : s \in States}

is_busy == at # "idle"

TypeOK ==
    /\ current_state_id \in States \cup {Uninitialized}
    /\ previous_state_id \in States \cup {Uninitialized}
    /\ at \in {"idle", "run", "enter", "exit", "rollback"}
    /\ is_busy => current_state_id \in States /\ element \in 1..Own(current_state_id)
    /\ target \in States \cup {Uninitialized}
    /\ entered \in [Elements -> {0, 1}]
    /\ left \in States \cup {Uninitialized}

\* After set_states() without an initial state.
Init ==
    /\ current_state_id = Uninitialized
    /\ previous_state_id = Uninitialized
    /\ at = "idle"
    /\ element = 1
    /\ target = Uninitialized
    /\ entered = [e \in Elements |-> 0]
    /\ call = [kind |-> "none", element |-> <<>>]
    /\ left = Uninitialized

-----------------------------------------------------------------------------
(* Calls from outside.  run() and change_state() refuse a call from within *)
(* a callback.                                                             *)

Walk(table, first) == at' = table /\ element' = first

Rest ==
    /\ at' = "idle"
    /\ UNCHANGED <<current_state_id, previous_state_id, element, target>>

LeaveFor(id) ==
    /\ previous_state_id' = current_state_id
    /\ target' = id
    /\ Walk("exit", Own(current_state_id))
    /\ UNCHANGED <<current_state_id, left>>

\* Nothing is left: there is no current state.
StartIn(s, reenter) ==
    /\ current_state_id \notin States
    /\ current_state_id' = s
    /\ Walk("enter", 1)
    /\ previous_state_id' = IF reenter THEN Uninitialized ELSE previous_state_id
    /\ left' = IF reenter THEN Uninitialized ELSE left
    /\ UNCHANGED target

ChangeFrom(s, reenter) ==
    /\ current_state_id \in States
    /\ s # current_state_id \/ reenter
    /\ LeaveFor(s)

\* Wrong: change_state() is carried out within a callback, too.
ChangeWhileBusy ==
    /\ \E s \in States, reenter \in BOOLEAN : StartIn(s, reenter) \/ ChangeFrom(s, reenter)
    /\ UNCHANGED <<entered, call>>

change_state ==
    /\ ~is_busy
    /\ \E s \in States, reenter \in BOOLEAN : StartIn(s, reenter) \/ ChangeFrom(s, reenter)
    /\ UNCHANGED <<entered, call>>

\* change_state(Uninitialized)
reset ==
    /\ ~is_busy /\ current_state_id \in States
    /\ LeaveFor(Uninitialized)
    /\ UNCHANGED <<entered, call>>

run ==
    /\ ~is_busy /\ current_state_id \in States
    /\ Walk("run", 1)
    /\ UNCHANGED <<current_state_id, previous_state_id, target, entered, call, left>>

-----------------------------------------------------------------------------
(* Callbacks *)

Calls(kind) == call' = [kind |-> kind, element |-> <<current_state_id, element>>]

Continue ==
    /\ element < Own(current_state_id)
    /\ element' = element + 1
    /\ UNCHANGED <<current_state_id, previous_state_id, at, target>>

\* The first result other than No_State_Change ends the walk; an id that is invalid
\* or the state's own is ignored.
execute_run ==
    /\ at = "run"
    /\ Calls("run")
    /\ \E result \in Ids :
         \/ result = No_State_Change /\ Continue /\ UNCHANGED left
         \/ result = Self_Transition /\ LeaveFor(current_state_id)
         \/ result \in States \ {current_state_id} /\ LeaveFor(result)
         \/ /\ result = No_State_Change => element = Own(current_state_id)
            /\ result \notin (States \ {current_state_id}) \cup {Self_Transition}
            /\ Rest /\ UNCHANGED left
    /\ UNCHANGED entered

EnterElement ==
    /\ at = "enter"
    /\ Calls("enter")
    /\ entered' = [entered EXCEPT ![<<current_state_id, element>>] = @ + 1]
    /\ UNCHANGED left

\* The state's own on_enter returned No_State_Change, or an id that is ignored.
RestEntered == element = Own(current_state_id) /\ Rest

RollBackFrom(last) ==
    \E id \in (States \cup {Uninitialized}) \ {current_state_id, No_State_Change} :
        /\ Walk("rollback", last)
        /\ target' = id
        /\ UNCHANGED <<current_state_id, previous_state_id>>

\* Wrong: a state entered in part is left as a whole.
RollBackAll ==
    EnterElement /\ (Continue \/ RestEntered \/ RollBackFrom(Own(current_state_id)))

\* A result that goes elsewhere ends the walk, and what was entered is rolled back.
\* A state does not redirect to itself, and an interceptor returns no id that is
\* ignored: the machine would rest in a state that is left, or entered in part.
execute_enter ==
    EnterElement /\ (Continue \/ RestEntered \/ RollBackFrom(element))

\* The elements are left in the reverse order, and the target is entered.
LeaveElement ==
    /\ at \in {"exit", "rollback"}
    /\ Calls("exit")
    /\ entered' = [entered EXCEPT ![<<current_state_id, element>>] = @ - 1]

EnterTarget ==
    /\ element = 1
    /\ left' = current_state_id
    /\ current_state_id' = target
    /\ Walk(IF target \in States THEN "enter" ELSE "idle", 1)
    /\ UNCHANGED target

NextElement ==
    /\ element > 1
    /\ element' = element - 1
    /\ UNCHANGED <<current_state_id, previous_state_id, at, target, left>>

\* Wrong: a rollback is not noted as the previous state.
ForgetRollback ==
    /\ LeaveElement
    /\ NextElement \/ (EnterTarget /\ UNCHANGED previous_state_id)

\* previous_state_id is set before an exit, and after a rollback.
execute_exit ==
    /\ LeaveElement
    /\ \/ NextElement
       \/ EnterTarget /\ previous_state_id' =
            IF at = "rollback" THEN current_state_id ELSE previous_state_id

-----------------------------------------------------------------------------
Next == change_state \/ reset \/ run \/ execute_run \/ execute_enter \/ execute_exit

Spec == Init /\ [][Next]_vars

-----------------------------------------------------------------------------
(* Properties *)

Protocol == INSTANCE Lifecycle

\* Whatever a callback returns, and wherever a chain of transitions ends, the elements
\* of a state are entered and left as a stack: no on_exit without its on_enter, no
\* on_enter twice, no second state while one is entered, no on_run of a state that is
\* entered in part.
ImplementsLifecycle == Protocol!Spec

\* Between two calls the machine is in no state or in one that is entered as a whole;
\* a transition that was redirected or rolled back leaves nothing behind.
RestsWhole ==
    at = "idle" => \A e \in Elements : entered[e] = IF e[1] = current_state_id THEN 1 ELSE 0

\* get_previous_state_id() is the state left last, rollbacks included, whenever
\* on_enter, on_run or a caller asks (PE_SNK_Ready and PE_SNK_Transition_Sink decide by it).
PreviousIsLeft ==
    at \in {"idle", "run", "enter"} => previous_state_id = left
=============================================================================
