----------------------------- MODULE DeployFlow -----------------------------
(***************************************************************************)
(* The CLI's commands that make builds, workloads and deployments, several *)
(* of them at once for one image, against a platform that builds images    *)
(* and runs deployments at its own pace.  Every call a command makes is    *)
(* one of ApiCall without retries: it returns, or raises and ends the      *)
(* command, and then the platform may have executed it, not have executed  *)
(* it, or do so later. The wait loops are those of WaitLoops, with time    *)
(* reduced to whether the deadline has passed.                             *)
(***************************************************************************)
EXTENDS Naturals

CONSTANT Procs   \* processes of the CLI, each with one command

Commands ==
    {"deploy module",   \* deploy <module_ref>, whose image is to be built
     "deploy image",    \* deploy <module_ref> or --name --image, image given
     "deploy id",       \* deploy --workload-id
     "build",           \* build <module_ref>
     "build context",   \* build --image --context-uri
     "create"}          \* workloads create, -vllm, -pod, -diffusion

VARIABLES
    command, wait,   \* per process: its command line
    pc,              \* per process: the call it makes next
    expired,         \* per process: the deadline of its wait loop has passed
    exit,            \* per process: how it ended, "none" while it runs
    builds,          \* per build: its status at the platform
    workloads,       \* per process: workloads it made the platform create
    deployments,     \* per process: state of its deployment at the platform
    late,            \* per process: calls it gave up on, not yet executed
    lost,            \* history, per process: calls it gave up on
    ready            \* history: processes whose deployment has been ready

vars == <<command, wait, pc, expired, exit, builds, workloads,
          deployments, late, lost, ready>>
platform == <<builds, workloads, deployments, ready>>
fixed == <<command, wait>>

\* The builds of the image: one there may be already, and one per process.
Old == "old"
Builds == Procs \cup {Old}

ASSUME ProcsAssumption == Old \notin Procs

Ended == {"published", "failed", "cancelled"}
BuildStates == {"absent", "running"} \cup Ended

\* enums.DeploymentState, with what comes before ready as one.
DeploymentStates ==
    {"absent", "starting", "ready", "draining", "suspended", "failed", "terminated"}

\* Why a command ends with exit code 1: a call that makes something raised, one
\* that reads did, the deadline of a wait loop passed, or what it waited for is
\* over without being what it should.  With exit code 0 it ends as "done".
Causes == {"call", "poll", "deadline", "over"}

FirstCall(c) == CASE c = "deploy module" -> "history"
                  [] c = "deploy image" -> "create"
                  [] c = "deploy id" -> "deploy"
                  [] c = "build" -> "upload"
                  [] c = "build context" -> "build"
                  [] c = "create" -> "create"

Init ==
    /\ command \in [Procs -> Commands] /\ wait \in [Procs -> BOOLEAN]
    /\ \A p \in Procs : command[p] = "create" => ~wait[p]   \* no such option
    /\ pc = [p \in Procs |-> FirstCall(command[p])]
    /\ expired = [p \in Procs |-> FALSE]
    /\ exit = [p \in Procs |-> "none"]
    /\ \E s \in BuildStates : builds = [b \in Builds |-> IF b = Old THEN s ELSE "absent"]
    /\ workloads = [p \in Procs |-> 0]
    /\ deployments = [p \in Procs |-> "absent"]
    /\ late = [p \in Procs |-> {}] /\ lost = [p \in Procs |-> {}]
    /\ ready = {}

-----------------------------------------------------------------------------
\* Calls.

\* The command goes on with call c; a wait loop gets its own deadline.
Goto(p, c) ==
    /\ pc' = [pc EXCEPT ![p] = c]
    /\ expired' = [expired EXCEPT ![p] = FALSE]
    /\ UNCHANGED exit

\* The command ends: normally, by typer.Exit or by an exception, which main
\* turns into exit code 1 or leaves to the interpreter, which does the same.
Exit(p, how) ==
    /\ pc' = [pc EXCEPT ![p] = "done"]
    /\ exit' = [exit EXCEPT ![p] = how]
    /\ UNCHANGED expired

\* What the platform does for a call.
Effect(p, c) ==
    CASE c = "build" ->
            /\ builds' = [builds EXCEPT ![p] = "running"]
            /\ UNCHANGED <<workloads, deployments, ready>>
      [] c = "create" ->
            /\ workloads' = [workloads EXCEPT ![p] = @ + 1]
            /\ UNCHANGED <<builds, deployments, ready>>
      [] c = "deploy" ->
            /\ deployments' = [deployments EXCEPT ![p] = "starting"]
            /\ UNCHANGED <<builds, workloads, ready>>

\* A call with an effect raises: refused or never arrived, executed with the
\* answer lost, or still on its way.
Fails(p, c) ==
    /\ Exit(p, "call")
    /\ \/ UNCHANGED <<platform, late, lost>>
       \/ Effect(p, c) /\ lost' = [lost EXCEPT ![p] = @ \cup {c}] /\ UNCHANGED late
       \/ /\ late' = [late EXCEPT ![p] = @ \cup {c}]
          /\ lost' = [lost EXCEPT ![p] = @ \cup {c}]
          /\ UNCHANGED platform

\* One that only reads raises.
ReadFails(p) ==
    /\ pc[p] \in {"history", "upload", "logs", "waitbuild", "waitdeploy"}
    /\ Exit(p, "poll")
    /\ UNCHANGED <<fixed, platform, late, lost>>

-----------------------------------------------------------------------------
\* _ensure_built and the build command.

\* A published build of the image, whatever it was built from, is good enough.
ListHistory(p) ==
    /\ pc[p] = "history"
    /\ Goto(p, IF \E b \in Builds : builds[b] = "published" THEN "create" ELSE "upload")
    /\ UNCHANGED <<fixed, platform, late, lost>>

UploadContext(p) ==
    /\ pc[p] = "upload"
    /\ Goto(p, "build")
    /\ UNCHANGED <<fixed, platform, late, lost>>

\* What follows on client.build.  `deploy` waits for its build in any case, a
\* build from a context that is there already never does; --wait adds the log.
Built(p) ==
    \/ command[p] = "build context" /\ Exit(p, "done")
    \/ command[p] = "build" /\ ~wait[p] /\ Exit(p, "done")
    \/ command[p] = "deploy module" /\ ~wait[p] /\ Goto(p, "waitbuild")
    \/ command[p] \in {"build", "deploy module"} /\ wait[p] /\ Goto(p, "logs")

StartBuild(p) ==
    /\ pc[p] = "build"
    /\ \/ Effect(p, "build") /\ Built(p) /\ UNCHANGED <<late, lost>>
       \/ Fails(p, "build")
    /\ UNCHANGED fixed

\* stream_build_logs(follow=True) ends with the build.
FollowLogs(p) ==
    /\ pc[p] = "logs" /\ builds[p] \in Ended
    /\ Goto(p, "waitbuild")
    /\ UNCHANGED <<fixed, platform, late, lost>>

\* The connection is closed before.
LogsCut(p) ==
    /\ pc[p] = "logs"
    /\ Goto(p, "waitbuild")
    /\ UNCHANGED <<fixed, platform, late, lost>>

\* Fault: the status of the ended build is not looked at.
AnyEndWillDo(p) ==
    /\ pc[p] = "waitbuild"
    /\ \/ /\ builds[p] \in Ended
          /\ IF command[p] = "build" THEN Exit(p, "done") ELSE Goto(p, "create")
       \/ /\ builds[p] \notin Ended /\ expired[p]
          /\ Exit(p, "deadline")
    /\ UNCHANGED <<fixed, platform, late, lost>>

\* A poll of wait_for_build; one that finds a running build before the
\* deadline changes nothing.
PollBuild(p) ==
    /\ pc[p] = "waitbuild"
    /\ \/ /\ builds[p] = "published"
          /\ IF command[p] = "build" THEN Exit(p, "done") ELSE Goto(p, "create")
       \/ /\ builds[p] \in Ended \ {"published"}
          /\ Exit(p, "over")
       \/ /\ builds[p] \notin Ended /\ expired[p]
          /\ Exit(p, "deadline")
    /\ UNCHANGED <<fixed, platform, late, lost>>

-----------------------------------------------------------------------------
\* The deploy command, and those that make a workload.

\* Fault: a call that raised is made again.
CreateAgain(p) ==
    /\ pc[p] = "create"
    /\ \/ Effect(p, "create") /\ Goto(p, "deploy") /\ UNCHANGED <<late, lost>>
       \/ Effect(p, "create") /\ Goto(p, "create") /\ UNCHANGED <<late, lost>>
    /\ UNCHANGED fixed

\* The commands that only make a workload leave it at that.
Created(p) == IF command[p] = "create" THEN Exit(p, "done") ELSE Goto(p, "deploy")

CreateWorkload(p) ==
    /\ pc[p] = "create"
    /\ \/ Effect(p, "create") /\ Created(p) /\ UNCHANGED <<late, lost>>
       \/ Fails(p, "create")
    /\ UNCHANGED fixed

\* Fault: the command waits in any case.
DeployAndWait(p) ==
    /\ pc[p] = "deploy"
    /\ \/ Effect(p, "deploy") /\ Goto(p, "waitdeploy") /\ UNCHANGED <<late, lost>>
       \/ Fails(p, "deploy")
    /\ UNCHANGED fixed

Deploy(p) ==
    /\ pc[p] = "deploy"
    /\ \/ /\ Effect(p, "deploy")
          /\ IF wait[p] THEN Goto(p, "waitdeploy") ELSE Exit(p, "done")
          /\ UNCHANGED <<late, lost>>
       \/ Fails(p, "deploy")
    /\ UNCHANGED fixed

\* Fault: a deployment that is over will do.
AnyStateWillDo(p) ==
    /\ pc[p] = "waitdeploy"
    /\ \/ deployments[p] \in {"ready", "failed", "terminated"} /\ Exit(p, "done")
       \/ /\ deployments[p] \notin {"ready", "failed", "terminated"} /\ expired[p]
          /\ Exit(p, "deadline")
    /\ UNCHANGED <<fixed, platform, late, lost>>

\* Fault: no deadline.
WaitForever(p) ==
    /\ pc[p] = "waitdeploy"
    /\ \/ deployments[p] = "ready" /\ Exit(p, "done")
       \/ deployments[p] \in {"failed", "terminated"} /\ Exit(p, "over")
    /\ UNCHANGED <<fixed, platform, late, lost>>

\* A poll of wait_for_deployment.  A suspended or draining deployment is
\* waited for like one that is starting.
PollDeployment(p) ==
    /\ pc[p] = "waitdeploy"
    /\ \/ deployments[p] = "ready" /\ Exit(p, "done")
       \/ deployments[p] \in {"failed", "terminated"} /\ Exit(p, "over")
       \/ /\ deployments[p] \notin {"ready", "failed", "terminated"} /\ expired[p]
          /\ Exit(p, "deadline")
    /\ UNCHANGED <<fixed, platform, late, lost>>

Step(p) ==
    \/ ListHistory(p) \/ UploadContext(p) \/ StartBuild(p) \/ FollowLogs(p) \/ PollBuild(p)
    \/ CreateWorkload(p) \/ Deploy(p) \/ PollDeployment(p)

\* The clock of a wait loop passes its deadline.
Expire(p) ==
    /\ pc[p] \in {"waitbuild", "waitdeploy"} /\ ~expired[p]
    /\ expired' = [expired EXCEPT ![p] = TRUE]
    /\ UNCHANGED <<fixed, pc, exit, platform, late, lost>>

-----------------------------------------------------------------------------
\* The platform (external), other users of it included.

RunBuild(b) ==
    /\ builds[b] = "running"
    /\ \E s \in Ended : builds' = [builds EXCEPT ![b] = s]
    /\ UNCHANGED <<fixed, pc, expired, exit, workloads, deployments, late, lost, ready>>

Moves(s) == CASE s = "starting" -> {"ready", "failed", "terminated"}
              [] s = "ready" -> {"draining", "suspended", "failed"}
              [] s = "draining" -> {"terminated"}
              [] s = "suspended" -> {"starting", "terminated"}
              [] OTHER -> {}

RunDeployment(p) ==
    /\ \E s \in Moves(deployments[p]) :
          /\ deployments' = [deployments EXCEPT ![p] = s]
          /\ ready' = IF s = "ready" THEN ready \cup {p} ELSE ready
    /\ UNCHANGED <<fixed, pc, expired, exit, builds, workloads, late, lost>>

\* A call its process gave up on is executed.
LateCall(p) ==
    /\ \E c \in late[p] :
          /\ Effect(p, c)
          /\ late' = [late EXCEPT ![p] = @ \ {c}]
    /\ UNCHANGED <<fixed, pc, expired, exit, lost>>

Next ==
    \/ \E p \in Procs :
          \/ Step(p) \/ ReadFails(p) \/ LogsCut(p) \/ Expire(p)
          \/ RunDeployment(p) \/ LateCall(p)
    \/ \E b \in Builds : RunBuild(b)

\* A process that can go on does, and clocks run.
Spec == Init /\ [][Next]_vars /\ \A p \in Procs : WF_vars(Step(p)) /\ WF_vars(Expire(p))

-----------------------------------------------------------------------------
\* Properties.

\* Types; a process has ended in some way exactly when it is done.
TypeOK ==
    /\ command \in [Procs -> Commands] /\ wait \in [Procs -> BOOLEAN]
    /\ pc \in [Procs -> {"history", "upload", "build", "logs", "waitbuild",
                         "create", "deploy", "waitdeploy", "done"}]
    /\ expired \in [Procs -> BOOLEAN]
    /\ exit \in [Procs -> {"none", "done"} \cup Causes]
    /\ builds \in [Builds -> BuildStates]
    /\ workloads \in [Procs -> {0, 1}]
    /\ deployments \in [Procs -> DeploymentStates]
    /\ late \in [Procs -> SUBSET {"build", "create", "deploy"}]
    /\ lost \in [Procs -> SUBSET {"build", "create", "deploy"}]
    /\ ready \subseteq Procs
    /\ \A p \in Procs : (pc[p] = "done") <=> (exit[p] # "none")

\* No workload is created and nothing deployed for an image that was not
\* published, whoever built it, whatever call was lost or came late.
PublishedFirst ==
    \A p \in Procs :
        command[p] = "deploy module"
        /\ (workloads[p] > 0 \/ deployments[p] # "absent" \/ late[p] \cap {"create", "deploy"} # {})
            => \E b \in Builds : builds[b] = "published"

\* Exit code 0 tells the truth about the platform: what the command is for is
\* there, once, and with --wait the deployment has been ready, the build of a
\* module is published (that of a context is not waited for, --wait or not).
SuccessIsTrue ==
    \A p \in Procs : exit[p] = "done" =>
        /\ command[p] \notin {"build", "build context", "create"} =>
              deployments[p] # "absent" /\ (wait[p] => p \in ready)
        /\ command[p] \in {"build", "build context"} => builds[p] # "absent"
        /\ command[p] = "build" /\ wait[p] => builds[p] = "published"
        /\ workloads[p] = IF command[p] \in {"deploy module", "deploy image", "create"}
                          THEN 1 ELSE 0
        /\ lost[p] = {}

\* A deployment that runs, at the user's cost, or will again.
Live == {"starting", "ready", "draining", "suspended"}

\* The commands that wait for their build.
AwaitsBuild(p) == command[p] = "deploy module" \/ (command[p] = "build" /\ wait[p])

\* What a failed command leaves behind has a cause the user can be told: a build
\* goes on, or a deployment lives, only if the answer to the call that started
\* it was lost, or if the command was to wait for it and a poll raised or the
\* deadline passed; a workload is without a deployment only if the answer to its
\* own creation was lost or the call that was to deploy it raised.
LeftoversExplained ==
    \A p \in Procs : exit[p] \in Causes =>
        /\ builds[p] = "running" =>
              "build" \in lost[p] \/ (AwaitsBuild(p) /\ exit[p] \in {"poll", "deadline"})
        /\ deployments[p] \in Live =>
              "deploy" \in lost[p] \/ (wait[p] /\ exit[p] \in {"poll", "deadline"})
        /\ workloads[p] > 0 /\ deployments[p] = "absent" =>
              "create" \in lost[p] \/ (command[p] # "create" /\ exit[p] = "call")

\* Every command ends, unless it follows the log of its build for ever, and the
\* build never ends: wait_for_build has a deadline, following the log has none.
CommandsEnd ==
    \A p \in Procs : <>(pc[p] = "done") \/ <>[](pc[p] = "logs" /\ builds[p] = "running")

=============================================================================
