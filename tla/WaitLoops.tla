----------------------------- MODULE WaitLoops -----------------------------
(***************************************************************************)
(* wait_for_build, wait_for_deployment and wait_for_workload_ready: loops  *)
(* that poll the platform, against builds and deployments that move on by  *)
(* themselves.  The three differ in what they poll and in the states they  *)
(* return on; `builds wait` and `deployments wait` exit as they return.    *)
(***************************************************************************)
EXTENDS Integers

CONSTANTS
    Targets,          \* what there is to poll, in the order it is listed: 1..n
    timeout_seconds, poll_interval_seconds,
    Latency,          \* bound: seconds a request, or its answer, takes
    Jitter            \* bound: seconds time.sleep oversleeps

ASSUME WaitAssumption ==
    /\ timeout_seconds \in Nat /\ Latency \in Nat /\ Jitter \in Nat
    /\ poll_interval_seconds \in Nat \ {0}
    /\ Targets \subseteq Nat

Kinds == {"build", "deployment", "workload"}

\* States at which the loops return.
ReturnStates(k) ==
    IF k = "build" THEN {"published", "failed", "cancelled"}
    ELSE {"ready", "failed", "terminated"}

States(k) ==
    {"absent"} \cup
    IF k = "build" THEN {"running"} \cup ReturnStates(k)
    ELSE {"starting", "suspended"} \cup ReturnStates(k)

VARIABLES
    kind,       \* which loop it is
    mine,       \* the targets it polls: one, or those of the workload
    state,      \* per target: its state at the platform
    now,        \* seconds since the loop started
    wait_pc,
    listing,    \* the platform's answer: the states at some moment of the call
    outcome,    \* "none", "timeout", "error", or the state returned
    returned,   \* the target returned, 0 for none
    settled     \* history, per target: since when the loop would return on it

wait_vars == <<kind, mine, state, now, wait_pc, listing, outcome, returned, settled>>

Never == -1

WaitInit ==
    /\ kind \in Kinds
    /\ mine \in SUBSET Targets
    /\ kind # "workload" => \E t \in Targets : mine = {t}
    /\ state \in [Targets -> States(kind)]
    /\ kind # "workload" => \A t \in mine : state[t] # "absent"
    /\ now = 0 /\ wait_pc = "ask"
    /\ listing = state
    /\ outcome = "none" /\ returned = 0
    /\ settled = [t \in Targets |-> IF state[t] \in ReturnStates(kind) THEN 0 ELSE Never]

-----------------------------------------------------------------------------
\* The platform (external).  Ended builds and deployments stay as they are.

Moves(k, s) ==
    CASE s = "absent" -> IF k = "build" THEN {"running"} ELSE {"starting"}
      [] s = "running" -> ReturnStates(k)
      [] s = "starting" -> {"ready", "failed", "terminated"}
      [] s = "ready" /\ k # "build" -> {"suspended", "failed", "terminated"}
      [] s = "suspended" -> {"starting", "terminated"}
      [] OTHER -> {}

PlatformMoves ==
    /\ outcome = "none"
    /\ \E t \in Targets : \E s \in Moves(kind, state[t]) :
          /\ state' = [state EXCEPT ![t] = s]
          /\ settled' = [settled EXCEPT ![t] = IF s \notin ReturnStates(kind) THEN Never
                                               ELSE IF @ = Never THEN now ELSE @]
    /\ UNCHANGED <<kind, mine, now, wait_pc, listing, outcome, returned>>

-----------------------------------------------------------------------------
\* The loop.

\* The request reaches the platform, which answers from its state.
Ask ==
    /\ wait_pc = "ask"
    /\ wait_pc' = "answer"
    /\ \E d \in 0..Latency : now' = now + d
    /\ listing' = state
    /\ UNCHANGED <<kind, mine, state, outcome, returned, settled>>

\* The call raises; the loops retry nothing.
CallFails ==
    /\ wait_pc \in {"ask", "answer"}
    /\ wait_pc' = "done" /\ outcome' = "error"
    /\ \E d \in 0..Latency : now' = now + d
    /\ UNCHANGED <<kind, mine, state, listing, returned, settled>>

Found == {t \in mine : listing[t] \in ReturnStates(kind)}

\* Fault: the clock is looked at before the answer.
ClockFirst(t) ==
    IF t > timeout_seconds THEN wait_pc' = "done" /\ outcome' = "timeout" /\ UNCHANGED returned
    ELSE IF Found # {}
    THEN \E f \in Found :
            /\ \A g \in Found : f <= g
            /\ wait_pc' = "done" /\ outcome' = listing[f] /\ returned' = f
    ELSE wait_pc' = "sleep" /\ UNCHANGED <<outcome, returned>>

\* Fault: there is no deadline.
NoDeadline(t) ==
    IF Found # {}
    THEN \E f \in Found :
            /\ \A g \in Found : f <= g
            /\ wait_pc' = "done" /\ outcome' = listing[f] /\ returned' = f
    ELSE wait_pc' = "sleep" /\ UNCHANGED <<outcome, returned>>

\* The answer is looked at t seconds after the start: return on the first
\* target in a state to return on, else give up when time is out, else sleep.
Decide(t) ==
    IF Found # {}
    THEN \E f \in Found :
            /\ \A g \in Found : f <= g
            /\ wait_pc' = "done" /\ outcome' = listing[f] /\ returned' = f
    ELSE IF t > timeout_seconds
    THEN wait_pc' = "done" /\ outcome' = "timeout" /\ UNCHANGED returned
    ELSE wait_pc' = "sleep" /\ UNCHANGED <<outcome, returned>>

Answer ==
    /\ wait_pc = "answer"
    /\ \E d \in 0..Latency : now' = now + d /\ Decide(now + d)
    /\ UNCHANGED <<kind, mine, state, listing, settled>>

\* Fault: the clock starts with every poll.
SleepRestartingClock ==
    /\ wait_pc = "sleep"
    /\ wait_pc' = "ask"
    /\ now' = 0
    /\ UNCHANGED <<kind, mine, state, listing, outcome, returned, settled>>

Sleep ==
    /\ wait_pc = "sleep"
    /\ wait_pc' = "ask"
    /\ \E d \in 0..Jitter : now' = now + poll_interval_seconds + d
    /\ UNCHANGED <<kind, mine, state, listing, outcome, returned, settled>>

Loop == Ask \/ CallFails \/ Answer \/ Sleep

WaitNext == Loop \/ PlatformMoves

\* Calls and sleeps end; the platform owes nothing.
Safety == WaitInit /\ [][WaitNext]_wait_vars

WaitSpec == Safety /\ WF_wait_vars(Loop)

-----------------------------------------------------------------------------
\* Properties.

\* Types; the loop is over exactly when it has an outcome, and it returns a
\* target it was asked about.
TypeOK ==
    /\ kind \in Kinds /\ mine \subseteq Targets
    /\ state \in [Targets -> States(kind)] /\ listing \in [Targets -> States(kind)]
    /\ now \in Nat
    /\ wait_pc \in {"ask", "answer", "sleep", "done"}
    /\ outcome \in {"none", "timeout", "error"} \cup ReturnStates(kind)
    /\ returned \in mine \cup {0}
    /\ settled \in [Targets -> Nat \cup {Never}]
    /\ wait_pc = "done" <=> outcome # "none"

\* A loop that gives up has not overlooked anything: what it waits for had not
\* happened, to stay, when the last request for it was on its way before the
\* deadline.  A state reached just before the deadline is seen even if the
\* answer comes after it.
NothingOverlooked ==
    outcome = "timeout" => \A t \in mine :
        settled[t] = Never \/ settled[t] > timeout_seconds - Latency

\* The loop is over one poll after the deadline at the latest.
EndsOnTime ==
    now <= timeout_seconds + poll_interval_seconds + Jitter + 2 * Latency

\* The loop ends.
WaitEnds == <>(outcome # "none")

=============================================================================
