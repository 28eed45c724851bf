CONSTANTS
    States <- MCStates
    Interceptors <- MCInterceptors
    No_State_Change = "No_State_Change"
    Self_Transition = "Self_Transition"
    Uninitialized = "Uninitialized"
    InvalidId = "InvalidId"
SPECIFICATION Spec
INVARIANTS RestsWhole PreviousIsLeft
PROPERTIES ImplementsLifecycle
