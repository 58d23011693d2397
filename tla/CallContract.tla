---------------------------- MODULE CallContract ----------------------------
(***************************************************************************)
(* What a caller may rely on when it makes an API call that the server     *)
(* executes with some effect (a workload created, a deployment started).   *)
(* Opening a call buys a budget of executions.  An execution spends one, a *)
(* budget may shrink when an attempt is known not to have arrived, and a   *)
(* call that returned a value was executed.  A call may fail at any time   *)
(* and be executed afterwards, as long as it has budget.                   *)
(***************************************************************************)
EXTENDS Naturals

CONSTANTS Calls, Limit

VARIABLES
    budget,  \* per call: executions that can still happen
    done,    \* per call: executions that happened
    fate     \* per call: "new", "open", "value", "failed"

ccvars == <<budget, done, fate>>

CCInit ==
    /\ budget = [c \in Calls |-> 0]
    /\ done = [c \in Calls |-> 0]
    /\ fate = [c \in Calls |-> "new"]

Open(c) ==
    /\ fate[c] = "new"
    /\ fate' = [fate EXCEPT ![c] = "open"]
    /\ budget' = [budget EXCEPT ![c] = Limit]
    /\ UNCHANGED done

\* The call fails before anything is sent.
Reject(c) ==
    /\ fate[c] = "new"
    /\ fate' = [fate EXCEPT ![c] = "failed"]
    /\ UNCHANGED <<budget, done>>

\* The server executes the call.
Execute(c) ==
    /\ budget[c] > 0
    /\ budget' = [budget EXCEPT ![c] = @ - 1]
    /\ done' = [done EXCEPT ![c] = @ + 1]
    /\ UNCHANGED fate

\* An attempt is over without an execution, or will not be made; the call
\* may end with it.
Shrink(c) ==
    /\ fate[c] # "new"
    /\ \E b \in 0..budget[c] : budget' = [budget EXCEPT ![c] = b]
    /\ \/ UNCHANGED fate
       \/ /\ fate[c] = "open"
          /\ \E f \in {"value", "failed"} :
                /\ f = "value" => done[c] > 0
                /\ fate' = [fate EXCEPT ![c] = f]
    /\ UNCHANGED done

CCNext == \E c \in Calls : Open(c) \/ Reject(c) \/ Execute(c) \/ Shrink(c)

CCSpec == CCInit /\ [][CCNext]_ccvars

=============================================================================
