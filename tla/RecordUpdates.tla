--------------------------- MODULE RecordUpdates ---------------------------
(***************************************************************************)
(* `workloads update` and `deployments update` on the calls of ApiCall:    *)
(* an update names some settings of a stored workload and its deployment,  *)
(* travels as a PATCH that ApiCall may retry, lose or leave behind at the  *)
(* server, and is merged into what is stored when the server executes it.  *)
(* The settings that are not named are not in the payload; the request     *)
(* models fill them in with None, which stands for "leave it".  A          *)
(* lifecycle policy is one setting: named in part, its other half is       *)
(* filled with the policy's defaults and not with what is stored.          *)
(***************************************************************************)
EXTENDS ApiCall, Functions, TLC

CONSTANT Options   \* command lines, each a function on the options it gives

\* Half of the options of the two commands.  "clear_tags" and
\* "clear_workload_alias" win over a value given with them.
OptionNames == {"tags", "clear_tags", "workload_alias", "clear_workload_alias",
                "shutdown_after_seconds", "scaling_threshold", "requested_instances"}

OptionsAssumption == \A o \in Options : DOMAIN o \subseteq OptionNames

ASSUME OptionsAssumption

VARIABLES
    args,      \* per call: the command line
    stored,    \* the record at the platform
    loose      \* history: calls that left a request behind at the server

updvars == <<vars, args, stored, loose>>

Fields == {"tags", "workload_alias", "lifecycle", "requested_instances"}

\* WorkloadLifecyclePolicy; the threshold in hundredths.
DefaultPolicy == [scaling_threshold |-> 75, shutdown_after_seconds |-> 300]

InitialRecord ==
    [tags |-> "old", workload_alias |-> "old", requested_instances |-> 1,
     lifecycle |-> [scaling_threshold |-> 60, shutdown_after_seconds |-> 900]]

-----------------------------------------------------------------------------
\* From the command line to what is stored.  A payload, and a request, is a
\* function on what it names; the None of a request is left out.

\* Fault: an option counts as given if it is true.
LifecycleIfTrue(o) == Restrict(o, {n \in DOMAIN o \cap DOMAIN DefaultPolicy : o[n] # 0})

lifecycle(o) == Restrict(o, DOMAIN o \cap DOMAIN DefaultPolicy)

payload(o) ==
    LET plain == DOMAIN o \ (DOMAIN DefaultPolicy \cup {"clear_tags"})
        named == (IF "clear_workload_alias" \in plain THEN plain \ {"workload_alias"} ELSE plain)
                 \cup {n \in {"tags"} : "clear_tags" \in DOMAIN o}
                 \cup {n \in {"lifecycle"} : DOMAIN lifecycle(o) # {}}
    IN [n \in named |-> CASE n = "lifecycle" -> lifecycle(o)
                          [] n = "tags" /\ "clear_tags" \in DOMAIN o -> "none"
                          [] OTHER -> o[n]]

\* Fault: the default of a list is the empty list, as it is for a new workload.
EmptyTagsByDefault(p) ==
    ("lifecycle" :> DefaultPolicy) @@ p @@ ("tags" :> "none")

\* WorkloadUpdateRequest, DeploymentUpdateRequest: a policy is parsed on its own.
UpdateRequest(p) ==
    LET filled(policy) == [m \in DOMAIN DefaultPolicy |->
                             IF m \in DOMAIN policy THEN policy[m] ELSE DefaultPolicy[m]]
    IN [n \in DOMAIN p |-> IF n = "lifecycle" THEN filled(p[n]) ELSE p[n]]

\* The platform (external) sets what is not None.
Merge(record, r) ==
    [f \in Fields |-> CASE f \in DOMAIN r -> r[f]
                        [] f = "workload_alias" /\ "clear_workload_alias" \in DOMAIN r -> "none"
                        [] OTHER -> record[f]]

-----------------------------------------------------------------------------

UpdInit ==
    /\ Init
    /\ args = [c \in Calls |-> <<>>]
    /\ stored = InitialRecord
    /\ loose = {}

NoteLoose == loose' = loose \cup {c \in Calls : stray'[c] > 0}

\* The command builds its payload and calls update_workload or
\* update_deployment.
Update ==
    /\ StartCall /\ NoteLoose
    /\ \E o \in Options : args' = [args EXCEPT ![cur'] = o]
    /\ UNCHANGED stored

\* The call goes on: everything else the client does in ApiCall.
GoOn ==
    /\ Client /\ cur' = cur /\ NoteLoose
    /\ UNCHANGED <<args, stored>>

\* The server executes a pending or an abandoned request, or does not.
Execute ==
    /\ ServerHandles \/ ServerHandlesStray
    /\ NoteLoose
    /\ IF executed' = executed THEN UNCHANGED stored
       ELSE \E c \in Calls :
               /\ executed'[c] # executed[c]
               /\ stored' = Merge(stored, UpdateRequest(payload(args[c])))
    /\ UNCHANGED args

UpdNext == Update \/ GoOn \/ Execute

UpdSpec == UpdInit /\ [][UpdNext]_updvars /\ WF_updvars(Update \/ GoOn)

-----------------------------------------------------------------------------
\* Properties.

Policies == DOMAIN DefaultPolicy

\* What a command line says of each field, in the user's words: the flags that
\* clear win, and a policy named in part is the named part and the defaults.
Says(o, f) ==
    CASE f = "tags" /\ "clear_tags" \in DOMAIN o -> "none"
      [] f = "workload_alias" /\ "clear_workload_alias" \in DOMAIN o -> "none"
      [] f = "lifecycle" -> [n \in Policies |-> IF n \in DOMAIN o THEN o[n] ELSE DefaultPolicy[n]]
      [] OTHER -> o[f]

Names(o, f) ==
    \/ f \in DOMAIN o
    \/ f = "tags" /\ "clear_tags" \in DOMAIN o
    \/ f = "workload_alias" /\ "clear_workload_alias" \in DOMAIN o
    \/ f = "lifecycle" /\ DOMAIN o \cap Policies # {}

\* An acknowledged update stands, in every field it names, until a later one
\* names that field, however often it was sent and executed: unless an earlier
\* update of the field left a request behind, which the server may execute
\* late and so bring the older value back.
LastWordStands ==
    \A c \in Calls, f \in Fields :
        /\ outcome[c] = "value" /\ Names(args[c], f)
        /\ \A d \in Calls : d > c => ~Names(args[d], f)
        /\ \A d \in loose : d < c => ~Names(args[d], f)
        => stored[f] = Says(args[c], f)

\* A field no command has named keeps its value, whatever is retried or comes
\* late; a field that was named has its old value or what one command says, so
\* a policy is never put together from two updates or from one and the record.
OthersKept ==
    \A f \in Fields :
        \/ stored[f] = InitialRecord[f]
        \/ \E c \in Calls : Names(args[c], f) /\ stored[f] = Says(args[c], f)

=============================================================================
