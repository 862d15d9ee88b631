----------------------------- MODULE RunHistory -----------------------------
(***************************************************************************)
(* What the event log of a run promises: the states it records form one    *)
(* history that starts at CREATED and grows along the transitions only.    *)
(* state prune may forget it, and a history that has lost its beginning    *)
(* may start anywhere, but still grows along the transitions.              *)
(***************************************************************************)
EXTENDS RunStates, Sequences, Naturals

VARIABLES
    history, \* the recorded states, oldest first
    whole    \* its beginning has never been lost

Init == history = <<>> /\ whole = TRUE

Record(s) ==
    /\ IF history = <<>> THEN ~whole \/ s = "CREATED"
       ELSE s \in Successors(history[Len(history)])
    /\ history' = Append(history, s)
    /\ UNCHANGED whole

Forget == history' = <<>> /\ UNCHANGED whole

LoseBeginning == whole' = FALSE /\ history' \in {history, <<>>}

Next == Forget \/ LoseBeginning \/ \E s \in RunState : Record(s)

Spec == Init /\ [][Next]_<<history, whole>>
=============================================================================
