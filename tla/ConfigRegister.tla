--------------------------- MODULE ConfigRegister ---------------------------
(***************************************************************************)
(* What a user may expect of the stored configuration: a register that     *)
(* updates read and change in one step.  An update that is killed has no   *)
(* effect, its full effect, or loses the whole configuration; one may be   *)
(* refused, and one may leave a register that nobody can read; a reader    *)
(* sees the register, or the defaults while an update is being stored, in  *)
(* the view of it that its own arguments and environment give.            *)
(***************************************************************************)
CONSTANTS
    Procs,
    Defaults,        \* the configuration when nothing is stored
    NoResult,        \* nothing was returned or read yet
    Raised,          \* what is returned, or read, in case of an exception
    Refuses(_, _),   \* Refuses(r, u): register r is no base for update u
    Contexts,        \* a reader's arguments and environment
    View(_, _),      \* View(x, r): what a reader in context x gets of register r
    Update(_, _)     \* Update(r, u): the register after update u

VARIABLES
    reg,        \* the stored configuration
    status,     \* per process: "idle", "begun", "applied"
    asked,      \* per process: its last update
    returned,   \* per process: the configuration its last update returned
    seen        \* the configuration the last reader saw

crvars == <<reg, status, asked, returned, seen>>

CRInit ==
    /\ status = [p \in Procs |-> "idle"]
    /\ returned = [p \in Procs |-> NoResult]
    /\ seen = NoResult

Refuse(p, u) ==
    /\ status[p] = "idle" /\ Refuses(reg, u)
    /\ asked' = [asked EXCEPT ![p] = u]
    /\ returned' = [returned EXCEPT ![p] = Raised]
    /\ UNCHANGED <<reg, status, seen>>

Begin(p, u) ==
    /\ status[p] = "idle" /\ ~Refuses(reg, u)
    /\ status' = [status EXCEPT ![p] = "begun"]
    /\ asked' = [asked EXCEPT ![p] = u]
    /\ returned' = [returned EXCEPT ![p] = NoResult]
    /\ UNCHANGED <<reg, seen>>

Apply(p) ==
    /\ status[p] = "begun"
    /\ status' = [status EXCEPT ![p] = "applied"]
    /\ reg' = Update(reg, asked[p])
    /\ UNCHANGED <<asked, returned, seen>>

Finish(p) ==
    /\ status[p] = "applied"
    /\ status' = [status EXCEPT ![p] = "idle"]
    /\ returned' = [returned EXCEPT ![p] = reg]
    /\ UNCHANGED <<reg, asked, seen>>

\* The process is killed.
Die(p) ==
    /\ status[p] # "idle"
    /\ status' = [status EXCEPT ![p] = "idle"]
    /\ reg' = reg \/ (status[p] = "applied" /\ reg' = Defaults)
    /\ UNCHANGED <<asked, returned, seen>>

Read ==
    /\ \E x \in Contexts :
          \/ seen' = View(x, reg)
          \/ seen' = View(x, Defaults) /\ \E p \in Procs : status[p] = "applied"
    /\ UNCHANGED <<reg, status, asked, returned>>

CRNext ==
    \/ \E p \in Procs :
          \/ Apply(p) \/ Finish(p) \/ Die(p)
          \/ Begin(p, asked'[p]) \/ Refuse(p, asked'[p])
    \/ Read

=============================================================================
