------------------------------ MODULE RemoteCall ------------------------------
(***************************************************************************)
(* What a unary call promises its caller, whatever happens to the          *)
(* connection below it: success means that the server ran the call, a      *)
(* refusal that it did not (unless an earlier copy had), and it is run at  *)
(* most twice - a second time only after an answer to the first was lost.  *)
(* A failed call may have been run, and may still be.                      *)
(***************************************************************************)
EXTENDS Naturals

CONSTANT Callers

VARIABLES
    outcome, \* per caller: "idle", "pending", "ok", "refused", "failed"
    runs,    \* per caller: how often the server ran the call
    lost     \* per caller: an attempt ended without an answer

Init ==
    /\ outcome = [c \in Callers |-> "idle"]
    /\ runs = [c \in Callers |-> 0]
    /\ lost = [c \in Callers |-> FALSE]

Submit(c) ==
    /\ outcome[c] = "idle"
    /\ outcome' = [outcome EXCEPT ![c] = "pending"]
    /\ UNCHANGED <<runs, lost>>

Run(c) ==
    /\ outcome[c] # "idle"
    /\ runs[c] < IF lost[c] THEN 2 ELSE 1
    /\ runs' = [runs EXCEPT ![c] = @ + 1]
    /\ UNCHANGED <<outcome, lost>>

\* The attempt under way breaks; the call goes on or gives up.
Lose(c) ==
    /\ outcome[c] = "pending"
    /\ lost' = [lost EXCEPT ![c] = TRUE]
    /\ \/ UNCHANGED outcome
       \/ lost[c] /\ outcome' = [outcome EXCEPT ![c] = "failed"]
    /\ UNCHANGED runs

Return(c) ==
    /\ outcome[c] = "pending"
    /\ \/ runs[c] > 0 /\ outcome' = [outcome EXCEPT ![c] = "ok"]
       \/ (runs[c] = 0 \/ lost[c]) /\ outcome' = [outcome EXCEPT ![c] = "refused"]
    /\ UNCHANGED <<runs, lost>>

Next == \E c \in Callers : Submit(c) \/ Run(c) \/ Lose(c) \/ Return(c)

vars == <<outcome, runs, lost>>
Spec == Init /\ [][Next]_vars
=============================================================================
