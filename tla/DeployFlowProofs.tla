-------------------------- MODULE DeployFlowProofs --------------------------
(***************************************************************************)
(* Theorems about what `deploy` does: Packaging, for every tree, script    *)
(* and set of patterns, and DeployFlow, for any number of processes.       *)
(***************************************************************************)
EXTENDS DeployFlow, Packaging, FoldLemmas, FiniteSetTheorems

-----------------------------------------------------------------------------
\* The inductive invariant, one process at a time.

PCs == {"history", "upload", "build", "logs", "waitbuild", "create", "deploy", "waitdeploy",
        "done"}
Calls == {"build", "create", "deploy"}

Published == \E b \in Builds : builds[b] = "published"

\* Which call which command can have come to.
Route(p) ==
    /\ pc[p] = "history" => command[p] = "deploy module"
    /\ pc[p] = "upload" => command[p] \in {"deploy module", "build"}
    /\ pc[p] = "build" => command[p] \in {"deploy module", "build", "build context"}
    /\ pc[p] \in {"logs", "waitbuild"}
         => command[p] = "deploy module" \/ (command[p] = "build" /\ wait[p])
    /\ pc[p] = "create" => command[p] \in {"deploy module", "deploy image", "create"}
    /\ pc[p] = "deploy" => command[p] \in {"deploy module", "deploy image", "deploy id"}
    /\ pc[p] = "waitdeploy"
         => command[p] \in {"deploy module", "deploy image", "deploy id"} /\ wait[p]

\* What the platform has for a command that is still running.
Wanted(c) == IF c \in {"deploy module", "deploy image", "create"} THEN 1 ELSE 0

Progress(p) ==
    /\ pc[p] \in {"history", "upload", "build"} => builds[p] = "absent"
    /\ pc[p] \in {"logs", "waitbuild"} => builds[p] # "absent"
    /\ pc[p] \in {"create", "deploy", "waitdeploy"} => builds[p] # "running"
    /\ pc[p] \in {"history", "upload", "build", "logs", "waitbuild", "create"}
         => workloads[p] = 0
    /\ pc[p] \in {"deploy", "waitdeploy"} => workloads[p] = Wanted(command[p])
    /\ pc[p] \in {"history", "upload", "build", "logs", "waitbuild", "create", "deploy"}
         => deployments[p] = "absent"
    /\ pc[p] = "waitdeploy" => deployments[p] # "absent"
    /\ pc[p] \in {"create", "deploy", "waitdeploy"} /\ command[p] = "deploy module" => Published

\* Only a failed command has lost a call, and one that is late has had no
\* effect yet.
Losses(p) ==
    /\ late[p] \subseteq lost[p]
    /\ exit[p] # "call" => lost[p] = {}
    /\ "build" \in late[p] => builds[p] = "absent"
    /\ "create" \in late[p] => workloads[p] = 0

Noted(p) == deployments[p] = "ready" => p \in ready

\* PublishedFirst, SuccessIsTrue and LeftoversExplained, of one process.
First(p) ==
    command[p] = "deploy module"
    /\ (workloads[p] > 0 \/ deployments[p] # "absent" \/ late[p] \cap {"create", "deploy"} # {})
        => Published

Success(p) == exit[p] = "done" =>
    /\ command[p] \notin {"build", "build context", "create"} =>
          deployments[p] # "absent" /\ (wait[p] => p \in ready)
    /\ command[p] \in {"build", "build context"} => builds[p] # "absent"
    /\ command[p] = "build" /\ wait[p] => builds[p] = "published"
    /\ workloads[p] = Wanted(command[p])
    /\ lost[p] = {}

Leftovers(p) == exit[p] \in Causes =>
    /\ builds[p] = "running" =>
          "build" \in lost[p] \/ (AwaitsBuild(p) /\ exit[p] \in {"poll", "deadline"})
    /\ deployments[p] \in Live =>
          "deploy" \in lost[p] \/ (wait[p] /\ exit[p] \in {"poll", "deadline"})
    /\ workloads[p] > 0 /\ deployments[p] = "absent" =>
          "create" \in lost[p] \/ (command[p] # "create" /\ exit[p] = "call")

ProcInv(p) == /\ Route(p) /\ Progress(p) /\ Losses(p) /\ Noted(p)
              /\ First(p) /\ Success(p) /\ Leftovers(p)

FlowInv == TypeOK /\ \A p \in Procs : ProcInv(p)

-----------------------------------------------------------------------------
\* What the parts of an action do to the state.

\* Process q sees nothing of a step.
Same(q) ==
    /\ pc'[q] = pc[q] /\ exit'[q] = exit[q] /\ builds'[q] = builds[q]
    /\ workloads'[q] = workloads[q] /\ deployments'[q] = deployments[q]
    /\ late'[q] = late[q] /\ lost'[q] = lost[q]
    /\ q \in ready => q \in ready'

LEMMA SameKeeps ==
    ASSUME NEW q \in Procs, ProcInv(q), UNCHANGED fixed, Same(q), Published => Published'
    PROVE  ProcInv(q)'
<1>1. command' = command /\ wait' = wait
  BY DEF fixed
<1>2. Route(q)' /\ Progress(q)'
  BY <1>1 DEF ProcInv, Route, Progress, Same
<1>3. Losses(q)' /\ Noted(q)'
  BY DEF ProcInv, Losses, Noted, Same
<1>4. First(q)' /\ Success(q)' /\ Leftovers(q)'
  BY <1>1 DEF ProcInv, First, Success, Leftovers, AwaitsBuild, Same
<1> QED
  BY <1>2, <1>3, <1>4 DEF ProcInv

LEMMA GotoFacts ==
    ASSUME TypeOK, NEW p \in Procs, NEW c \in PCs, Goto(p, c)
    PROVE  /\ pc' \in [Procs -> PCs] /\ expired' \in [Procs -> BOOLEAN]
           /\ pc'[p] = c /\ \A q \in Procs : q # p => pc'[q] = pc[q]
           /\ exit' = exit
  BY DEF TypeOK, Goto, PCs

LEMMA ExitFacts ==
    ASSUME TypeOK, NEW p \in Procs, NEW code \in {"done"} \cup Causes, Exit(p, code)
    PROVE  /\ pc' \in [Procs -> PCs] /\ exit' \in [Procs -> {"none", "done"} \cup Causes]
           /\ pc'[p] = "done" /\ exit'[p] = code
           /\ \A q \in Procs : q # p => pc'[q] = pc[q] /\ exit'[q] = exit[q]
           /\ expired' = expired
  BY DEF TypeOK, Exit, PCs, Causes

LEMMA NoneIsNotPositive == \A n : n = 0 => ~(n > 0)
  OBVIOUS

LEMMA ProcIsBuild == \A p \in Procs : p \in Builds
  BY DEF Builds

\* A call touches what the platform has for its process, and no published
\* build if its own has not been started.
LEMMA EffectFacts ==
    ASSUME TypeOK, NEW p \in Procs, NEW c \in Calls, Effect(p, c),
           c = "build" => builds[p] = "absent",
           c = "create" => workloads[p] = 0
    PROVE  /\ builds' \in [Builds -> BuildStates] /\ workloads' \in [Procs -> {0, 1}]
           /\ deployments' \in [Procs -> DeploymentStates] /\ ready' = ready
           /\ builds'[p] = IF c = "build" THEN "running" ELSE builds[p]
           /\ workloads'[p] = IF c = "create" THEN 1 ELSE workloads[p]
           /\ deployments'[p] = IF c = "deploy" THEN "starting" ELSE deployments[p]
           /\ \A q \in Procs : q # p => /\ builds'[q] = builds[q]
                                        /\ workloads'[q] = workloads[q]
                                        /\ deployments'[q] = deployments[q]
           /\ Published => Published'
<1>1. p \in Builds
  BY ProcIsBuild
<1>2. CASE c = "build"
  <2>1. builds' = [builds EXCEPT ![p] = "running"]
        /\ UNCHANGED <<workloads, deployments, ready>>
    BY <1>2 DEF Effect
  <2>2. builds' \in [Builds -> BuildStates] /\ builds'[p] = "running"
        /\ \A b \in Builds : b # p => builds'[b] = builds[b]
    BY <1>1, <2>1 DEF TypeOK, BuildStates
  <2>3. Published => Published'
    BY <1>2, <2>2 DEF Published
  <2> QED
    BY <1>2, <2>1, <2>2, <2>3, ProcIsBuild DEF TypeOK
<1>3. CASE c = "create"
  <2>1. workloads' = [workloads EXCEPT ![p] = workloads[p] + 1]
        /\ UNCHANGED <<builds, deployments, ready>>
    BY <1>3 DEF Effect
  <2>2. workloads[p] + 1 = 1
    BY <1>3
  <2> QED
    BY <1>3, <2>1, <2>2 DEF TypeOK, Published
<1>4. CASE c = "deploy"
  <2>1. deployments' = [deployments EXCEPT ![p] = "starting"]
        /\ UNCHANGED <<builds, workloads, ready>>
    BY <1>4 DEF Effect
  <2> QED
    BY <1>4, <2>1 DEF TypeOK, DeploymentStates, Published
<1> QED
  BY <1>2, <1>3, <1>4 DEF Calls

\* A step of process p that nobody else sees needs to be looked at for p alone.
LEMMA OneProcess ==
    ASSUME FlowInv, NEW p \in Procs, UNCHANGED fixed, TypeOK', ProcInv(p)',
           \A q \in Procs : q # p => Same(q), Published => Published'
    PROVE  FlowInv'
<1>1. ASSUME NEW q \in Procs, q # p PROVE ProcInv(q)'
  BY <1>1, SameKeeps DEF FlowInv
<1>2. \A q \in Procs : ProcInv(q)'
  BY <1>1
<1> QED
  BY <1>2 DEF FlowInv, ProcInv, Route, Progress, Losses, Noted, First, Success, Leftovers

LEMMA ReadGoto ==
    ASSUME FlowInv, NEW p \in Procs, NEW c \in PCs \ {"done"}, pc[p] # "done", Goto(p, c),
           UNCHANGED <<fixed, platform, late, lost>>, Route(p)', Progress(p)'
    PROVE  FlowInv'
<1>1. TypeOK /\ ProcInv(p)
  BY DEF FlowInv
<1>2. /\ pc' \in [Procs -> PCs] /\ expired' \in [Procs -> BOOLEAN]
      /\ pc'[p] = c /\ \A q \in Procs : q # p => pc'[q] = pc[q]
      /\ exit' = exit
  BY <1>1, GotoFacts
<1>3. UNCHANGED <<command, wait, builds, workloads, deployments, ready, late, lost>>
  BY DEF fixed, platform
<1>4. TypeOK'
  BY <1>1, <1>2, <1>3 DEF TypeOK, PCs
<1>5. exit[p] = "none"
  BY <1>1 DEF TypeOK
<1>6. Losses(p)' /\ Noted(p)'
  BY <1>1, <1>2, <1>3 DEF ProcInv, Losses, Noted
<1>7. First(p)' /\ Success(p)' /\ Leftovers(p)'
  BY <1>1, <1>2, <1>3, <1>5 DEF ProcInv, First, Success, Leftovers, Causes, Published
<1>8. ProcInv(p)'
  BY <1>6, <1>7 DEF ProcInv
<1>9. (\A q \in Procs : q # p => Same(q)) /\ (Published => Published')
  BY <1>2, <1>3 DEF Same, Published
<1> QED
  BY <1>4, <1>8, <1>9, OneProcess

LEMMA ReadExit ==
    ASSUME FlowInv, NEW p \in Procs, NEW code \in {"done"} \cup Causes, pc[p] # "done", Exit(p, code),
           UNCHANGED <<fixed, platform, late, lost>>, Success(p)', Leftovers(p)'
    PROVE  FlowInv'
<1>1. TypeOK /\ ProcInv(p)
  BY DEF FlowInv
<1>2. /\ pc' \in [Procs -> PCs] /\ exit' \in [Procs -> {"none", "done"} \cup Causes]
      /\ pc'[p] = "done" /\ exit'[p] = code
      /\ \A q \in Procs : q # p => pc'[q] = pc[q] /\ exit'[q] = exit[q]
      /\ expired' = expired
  BY <1>1, ExitFacts
<1>3. UNCHANGED <<command, wait, builds, workloads, deployments, ready, late, lost>>
  BY DEF fixed, platform
<1>4. TypeOK'
  BY <1>1, <1>2, <1>3 DEF TypeOK, PCs, Causes
<1>5. exit[p] = "none"
  BY <1>1 DEF TypeOK
<1>6. Losses(p)' /\ Noted(p)'
  BY <1>1, <1>2, <1>3, <1>5 DEF ProcInv, Losses, Noted
<1>7. First(p)'
  BY <1>1, <1>3 DEF ProcInv, First, Published
<1>8. Route(p)' /\ Progress(p)'
  BY <1>2 DEF Route, Progress
<1>9. ProcInv(p)'
  BY <1>6, <1>7, <1>8 DEF ProcInv
<1>10. (\A q \in Procs : q # p => Same(q)) /\ (Published => Published')
  BY <1>2, <1>3 DEF Same, Published
<1> QED
  BY <1>4, <1>9, <1>10, OneProcess

\* What is known when a command makes a call with an effect.
LEMMA BeforeCall ==
    ASSUME FlowInv, NEW p \in Procs, NEW c \in Calls, pc[p] = c
    PROVE  /\ exit[p] = "none" /\ lost[p] = {} /\ late[p] = {}
           /\ deployments[p] = "absent"
           /\ c = "build" => builds[p] = "absent"
           /\ c \in {"build", "create"} => workloads[p] = 0
           /\ c = "deploy" => workloads[p] = Wanted(command[p])
           /\ c \in {"create", "deploy"} /\ command[p] = "deploy module" => Published
           /\ builds[p] # "running"
<1>1. TypeOK /\ ProcInv(p)
  BY DEF FlowInv
<1>2. exit[p] = "none"
  BY <1>1 DEF TypeOK, Calls
<1>3. lost[p] = {} /\ late[p] = {}
  BY <1>1, <1>2 DEF ProcInv, Losses
<1> QED
  BY <1>1, <1>2, <1>3 DEF ProcInv, Progress, Calls

LEMMA EffectGoto ==
    ASSUME FlowInv, NEW p \in Procs, NEW c \in Calls, NEW d \in PCs \ {"done"}, pc[p] = c,
           Effect(p, c), Goto(p, d), UNCHANGED <<fixed, late, lost>>, Route(p)', Progress(p)'
    PROVE  FlowInv'
<1>1. TypeOK /\ ProcInv(p)
  BY DEF FlowInv
<1>2. /\ pc' \in [Procs -> PCs] /\ expired' \in [Procs -> BOOLEAN]
      /\ pc'[p] = d /\ \A q \in Procs : q # p => pc'[q] = pc[q]
      /\ exit' = exit
  BY <1>1, GotoFacts
<1>3. /\ exit[p] = "none" /\ lost[p] = {} /\ late[p] = {} /\ deployments[p] = "absent"
      /\ c = "build" => builds[p] = "absent"
      /\ c \in {"build", "create"} => workloads[p] = 0
      /\ c \in {"create", "deploy"} /\ command[p] = "deploy module" => Published
  BY BeforeCall
<1>4. /\ builds' \in [Builds -> BuildStates] /\ workloads' \in [Procs -> {0, 1}]
      /\ deployments' \in [Procs -> DeploymentStates] /\ ready' = ready
      /\ workloads'[p] = IF c = "create" THEN 1 ELSE workloads[p]
      /\ deployments'[p] = IF c = "deploy" THEN "starting" ELSE deployments[p]
      /\ \A q \in Procs : q # p => /\ builds'[q] = builds[q]
                                   /\ workloads'[q] = workloads[q]
                                   /\ deployments'[q] = deployments[q]
      /\ Published => Published'
  BY <1>1, <1>3, EffectFacts
<1>5. UNCHANGED <<command, wait, late, lost>>
  BY DEF fixed
<1>6. TypeOK'
  BY <1>1, <1>2, <1>3, <1>4, <1>5 DEF TypeOK, PCs
<1>7. Losses(p)' /\ Noted(p)'
  BY <1>2, <1>3, <1>4, <1>5 DEF Losses, Noted
<1>8. Success(p)' /\ Leftovers(p)'
  BY <1>2, <1>3 DEF Success, Leftovers, Causes
<1>9. First(p)'
  <2>1. CASE c = "build"
    <3>1. workloads'[p] = 0 /\ deployments'[p] = "absent" /\ late'[p] = {}
      BY <1>3, <1>4, <1>5, <2>1
    <3>2. ~(workloads'[p] > 0)
      BY <3>1, NoneIsNotPositive
    <3> QED
      BY <3>1, <3>2 DEF First
  <2>2. CASE c \in {"create", "deploy"}
    BY <1>3, <1>4, <1>5, <2>2 DEF First
  <2> QED
    BY <2>1, <2>2 DEF Calls
<1>10. \A q \in Procs : q # p => Same(q)
  BY <1>2, <1>4, <1>5 DEF Same
<1> QED
  BY <1>4, <1>6, <1>7, <1>8, <1>9, <1>10, OneProcess DEF ProcInv

LEMMA EffectExit ==
    ASSUME FlowInv, NEW p \in Procs, NEW c \in Calls, pc[p] = c,
           Effect(p, c), Exit(p, "done"), UNCHANGED <<fixed, late, lost>>, Success(p)'
    PROVE  FlowInv'
<1>1. TypeOK /\ ProcInv(p)
  BY DEF FlowInv
<1>2. /\ pc' \in [Procs -> PCs] /\ exit' \in [Procs -> {"none", "done"} \cup Causes]
      /\ pc'[p] = "done" /\ exit'[p] = "done"
      /\ \A q \in Procs : q # p => pc'[q] = pc[q] /\ exit'[q] = exit[q]
      /\ expired' = expired
  BY <1>1, ExitFacts
<1>3. /\ exit[p] = "none" /\ lost[p] = {} /\ late[p] = {} /\ deployments[p] = "absent"
      /\ c = "build" => builds[p] = "absent"
      /\ c \in {"build", "create"} => workloads[p] = 0
      /\ c \in {"create", "deploy"} /\ command[p] = "deploy module" => Published
  BY BeforeCall
<1>4. /\ builds' \in [Builds -> BuildStates] /\ workloads' \in [Procs -> {0, 1}]
      /\ deployments' \in [Procs -> DeploymentStates] /\ ready' = ready
      /\ workloads'[p] = IF c = "create" THEN 1 ELSE workloads[p]
      /\ deployments'[p] = IF c = "deploy" THEN "starting" ELSE deployments[p]
      /\ \A q \in Procs : q # p => /\ builds'[q] = builds[q]
                                   /\ workloads'[q] = workloads[q]
                                   /\ deployments'[q] = deployments[q]
      /\ Published => Published'
  BY <1>1, <1>3, EffectFacts
<1>5. UNCHANGED <<command, wait, late, lost>>
  BY DEF fixed
<1>6. TypeOK'
  BY <1>1, <1>2, <1>4, <1>5 DEF TypeOK, PCs
<1>7. Losses(p)' /\ Noted(p)'
  BY <1>2, <1>3, <1>4, <1>5 DEF Losses, Noted
<1>8. Leftovers(p)' /\ Route(p)' /\ Progress(p)'
  BY <1>2 DEF Leftovers, Causes, Route, Progress
<1>9. First(p)'
  <2>1. CASE c = "build"
    <3>1. workloads'[p] = 0 /\ deployments'[p] = "absent" /\ late'[p] = {}
      BY <1>3, <1>4, <1>5, <2>1
    <3>2. ~(workloads'[p] > 0)
      BY <3>1, NoneIsNotPositive
    <3> QED
      BY <3>1, <3>2 DEF First
  <2>2. CASE c \in {"create", "deploy"}
    BY <1>3, <1>4, <1>5, <2>2 DEF First
  <2> QED
    BY <2>1, <2>2 DEF Calls
<1>10. \A q \in Procs : q # p => Same(q)
  BY <1>2, <1>4, <1>5 DEF Same
<1> QED
  BY <1>4, <1>6, <1>7, <1>8, <1>9, <1>10, OneProcess DEF ProcInv

\* A call that raises: not executed, executed with the answer lost, or late.
LEMMA FailsStep ==
    ASSUME FlowInv, NEW p \in Procs, NEW c \in Calls, pc[p] = c,
           Fails(p, c), UNCHANGED fixed
    PROVE  FlowInv'
<1>1. TypeOK /\ ProcInv(p)
  BY DEF FlowInv
<1>2. /\ exit[p] = "none" /\ lost[p] = {} /\ late[p] = {} /\ deployments[p] = "absent"
      /\ c = "build" => builds[p] = "absent"
      /\ c \in {"build", "create"} => workloads[p] = 0
      /\ c = "deploy" => workloads[p] = Wanted(command[p])
      /\ c \in {"create", "deploy"} /\ command[p] = "deploy module" => Published
      /\ builds[p] # "running"
  BY BeforeCall
<1>3. Exit(p, "call") /\ command' = command /\ wait' = wait
  BY DEF Fails, fixed
<1>4. /\ pc' \in [Procs -> PCs] /\ exit' \in [Procs -> {"none", "done"} \cup Causes]
      /\ pc'[p] = "done" /\ exit'[p] = "call"
      /\ \A q \in Procs : q # p => pc'[q] = pc[q] /\ exit'[q] = exit[q]
      /\ expired' = expired
  BY <1>1, <1>3, ExitFacts DEF Causes
<1>5. Route(p)' /\ Progress(p)' /\ Success(p)'
  BY <1>4 DEF Route, Progress, Success
<1>6. c = "deploy" => command[p] # "create"
  BY <1>1 DEF ProcInv, Route
<1>7. "absent" \notin Live
  BY DEF Live
<1>8. c = "build" \/ c = "create" => ~(workloads[p] > 0)
  BY <1>2, NoneIsNotPositive
<1>10. CASE UNCHANGED <<platform, late, lost>>
  <2>1. UNCHANGED <<builds, workloads, deployments, ready, late, lost>>
    BY <1>10 DEF platform
  <2>2. Leftovers(p)'
    BY <1>2, <1>3, <1>4, <1>6, <1>7, <1>8, <2>1 DEF Leftovers, Calls
  <2>3. Success(p)'
    BY <1>5
  <2> QED
    BY <1>2, <1>3, <1>10, <2>2, <2>3, ReadExit DEF Calls, TypeOK, Causes
<1>11. CASE /\ Effect(p, c) /\ lost' = [lost EXCEPT ![p] = lost[p] \cup {c}]
            /\ late' = late
  <2>1. /\ builds' \in [Builds -> BuildStates] /\ workloads' \in [Procs -> {0, 1}]
        /\ deployments' \in [Procs -> DeploymentStates] /\ ready' = ready
        /\ builds'[p] = IF c = "build" THEN "running" ELSE builds[p]
        /\ workloads'[p] = IF c = "create" THEN 1 ELSE workloads[p]
        /\ deployments'[p] = IF c = "deploy" THEN "starting" ELSE deployments[p]
        /\ \A q \in Procs : q # p => /\ builds'[q] = builds[q]
                                     /\ workloads'[q] = workloads[q]
                                     /\ deployments'[q] = deployments[q]
        /\ Published => Published'
    BY <1>1, <1>2, <1>11, EffectFacts
  <2>2. /\ lost' \in [Procs -> SUBSET Calls] /\ lost'[p] = {c}
        /\ \A q \in Procs : q # p => lost'[q] = lost[q]
    BY <1>1, <1>2, <1>11 DEF TypeOK, Calls
  <2>3. TypeOK'
    BY <1>1, <1>3, <1>4, <1>11, <2>1, <2>2 DEF TypeOK, PCs, Calls
  <2>4. Losses(p)' /\ Noted(p)'
    BY <1>2, <1>4, <1>11, <2>1, <2>2 DEF Losses, Noted
  <2>5. First(p)'
    <3>1. CASE c = "build"
      <4>1. workloads'[p] = workloads[p] /\ deployments'[p] = "absent" /\ late'[p] = {}
        BY <1>2, <1>11, <2>1, <3>1
      <4> QED
        BY <1>8, <3>1, <4>1 DEF First
    <3>2. CASE c \in {"create", "deploy"}
      BY <1>2, <1>3, <2>1, <3>2 DEF First
    <3> QED
      BY <3>1, <3>2 DEF Calls
  <2>6. Leftovers(p)'
    <3>1. CASE c = "build"
      BY <1>2, <1>7, <1>8, <2>1, <2>2, <3>1 DEF Leftovers
    <3>2. CASE c = "deploy"
      BY <1>2, <2>1, <2>2, <3>2 DEF Leftovers
    <3>3. CASE c = "create"
      BY <1>2, <1>7, <2>1, <2>2, <3>3 DEF Leftovers
    <3> QED
      BY <3>1, <3>2, <3>3 DEF Calls
  <2>7. \A q \in Procs : q # p => Same(q)
    BY <1>4, <1>11, <2>1, <2>2 DEF Same
  <2> QED
    BY <1>5, <2>1, <2>3, <2>4, <2>5, <2>6, <2>7, OneProcess DEF ProcInv
<1>12. CASE /\ late' = [late EXCEPT ![p] = late[p] \cup {c}]
            /\ lost' = [lost EXCEPT ![p] = lost[p] \cup {c}]
            /\ UNCHANGED platform
  <2>1. UNCHANGED <<builds, workloads, deployments, ready>>
    BY <1>12 DEF platform
  <2>2. /\ lost' \in [Procs -> SUBSET Calls] /\ late' \in [Procs -> SUBSET Calls]
        /\ lost'[p] = {c} /\ late'[p] = {c}
        /\ \A q \in Procs : q # p => lost'[q] = lost[q] /\ late'[q] = late[q]
    BY <1>1, <1>2, <1>12 DEF TypeOK, Calls
  <2>3. TypeOK'
    BY <1>1, <1>3, <1>4, <2>1, <2>2 DEF TypeOK, PCs, Calls
  <2>4. Losses(p)' /\ Noted(p)'
    BY <1>1, <1>2, <1>4, <2>1, <2>2 DEF Losses, Noted, ProcInv
  <2>5. Published' = Published
    BY <2>1 DEF Published
  <2>6. First(p)'
    <3>1. CASE c = "build"
      <4>1. /\ workloads'[p] = workloads[p] /\ deployments'[p] = "absent"
            /\ late'[p] \cap {"create", "deploy"} = {}
        BY <1>2, <2>1, <2>2, <3>1
      <4> QED
        BY <1>8, <3>1, <4>1 DEF First
    <3>2. CASE c \in {"create", "deploy"}
      BY <1>2, <1>3, <2>5, <3>2 DEF First
    <3> QED
      BY <3>1, <3>2 DEF Calls
  <2>7. Leftovers(p)'
    <3>1. CASE c = "build" \/ c = "create"
      BY <1>2, <1>7, <1>8, <2>1, <3>1 DEF Leftovers
    <3>2. CASE c = "deploy"
      BY <1>2, <1>3, <1>4, <1>6, <1>7, <2>1, <3>2 DEF Leftovers
    <3> QED
      BY <3>1, <3>2 DEF Calls
  <2>8. \A q \in Procs : q # p => Same(q)
    BY <1>4, <2>1, <2>2 DEF Same
  <2> QED
    BY <1>5, <2>3, <2>4, <2>5, <2>6, <2>7, <2>8, OneProcess DEF ProcInv
<1> QED
  BY <1>10, <1>11, <1>12 DEF Fails

-----------------------------------------------------------------------------
\* The actions.

\* The command waits for something and stays where the invariant wants it.
LEMMA HistoryStep ==
    ASSUME FlowInv, NEW p \in Procs, ListHistory(p) \/ UploadContext(p)
    PROVE  FlowInv'
<1>1. TypeOK /\ ProcInv(p)
  BY DEF FlowInv
<1>2. UNCHANGED <<fixed, platform, late, lost>>
      /\ UNCHANGED <<command, builds, workloads, deployments>>
  BY DEF ListHistory, UploadContext, platform, fixed
<1>3. CASE UploadContext(p)
  <2>1. pc[p] = "upload" /\ Goto(p, "build")
    BY <1>3 DEF UploadContext
  <2>2. pc'[p] = "build"
    BY <1>1, <2>1, GotoFacts DEF PCs
  <2>3. Route(p)' /\ Progress(p)'
    BY <1>1, <1>2, <2>1, <2>2 DEF ProcInv, Route, Progress
  <2> QED
    BY <1>2, <2>1, <2>3, ReadGoto DEF PCs
<1>4. CASE ListHistory(p)
  <2>1. pc[p] = "history" /\ Goto(p, IF Published THEN "create" ELSE "upload")
    BY <1>4 DEF ListHistory, Published
  <2>2. Published' = Published
    BY <1>2 DEF Published
  <2>3. CASE Published
    <3>1. Goto(p, "create")
      BY <2>1, <2>3
    <3>2. pc'[p] = "create"
      BY <1>1, <3>1, GotoFacts DEF PCs
    <3>3. Route(p)' /\ Progress(p)'
      BY <1>1, <1>2, <2>1, <2>2, <2>3, <3>2 DEF ProcInv, Route, Progress
    <3> QED
      BY <1>2, <2>1, <3>1, <3>3, ReadGoto DEF PCs
  <2>4. CASE ~Published
    <3>1. Goto(p, "upload")
      BY <2>1, <2>4
    <3>2. pc'[p] = "upload"
      BY <1>1, <3>1, GotoFacts DEF PCs
    <3>3. Route(p)' /\ Progress(p)'
      BY <1>1, <1>2, <2>1, <3>2 DEF ProcInv, Route, Progress
    <3> QED
      BY <1>2, <2>1, <3>1, <3>3, ReadGoto DEF PCs
  <2> QED
    BY <2>3, <2>4
<1> QED
  BY <1>3, <1>4

LEMMA StartBuildStep ==
    ASSUME FlowInv, NEW p \in Procs, StartBuild(p)
    PROVE  FlowInv'
<1>1. TypeOK /\ ProcInv(p)
  BY DEF FlowInv
<1>2. pc[p] = "build" /\ UNCHANGED fixed /\ command' = command /\ wait' = wait
  BY DEF StartBuild, fixed
<1>3. CASE Fails(p, "build")
  BY <1>2, <1>3, FailsStep DEF Calls
<1>4. CASE Effect(p, "build") /\ Built(p) /\ UNCHANGED <<late, lost>>
  <2>1. /\ exit[p] = "none" /\ lost[p] = {} /\ workloads[p] = 0 /\ deployments[p] = "absent"
        /\ builds[p] = "absent"
    BY <1>2, BeforeCall DEF Calls
  <2>2. builds'[p] = "running" /\ workloads'[p] = workloads[p]
        /\ deployments'[p] = deployments[p]
    BY <1>1, <1>4, <2>1, EffectFacts DEF Calls
  <2>3. ASSUME Exit(p, "done"), command[p] \in {"build", "build context"},
               command[p] = "build" => ~wait[p]
        PROVE  FlowInv'
    <3>1. Success(p)'
      BY <1>2, <1>4, <2>1, <2>2, <2>3 DEF Success, Wanted
    <3> QED
      BY <1>2, <1>4, <2>3, <3>1, EffectExit DEF Calls
  <2>4. ASSUME NEW d \in {"logs", "waitbuild"}, Goto(p, d),
               command[p] = "deploy module" \/ (command[p] = "build" /\ wait[p])
        PROVE  FlowInv'
    <3>1. pc'[p] = d
      BY <1>1, <2>4, GotoFacts DEF PCs
    <3>2. Route(p)' /\ Progress(p)'
      BY <1>2, <2>1, <2>2, <2>4, <3>1 DEF Route, Progress
    <3> QED
      BY <1>2, <1>4, <2>4, <3>2, EffectGoto DEF Calls, PCs
  <2> QED
    BY <1>4, <2>3, <2>4 DEF Built
<1> QED
  BY <1>3, <1>4 DEF StartBuild

LEMMA LogsStep ==
    ASSUME FlowInv, NEW p \in Procs, FollowLogs(p) \/ LogsCut(p)
    PROVE  FlowInv'
<1>1. TypeOK /\ ProcInv(p)
  BY DEF FlowInv
<1>2. pc[p] = "logs" /\ Goto(p, "waitbuild") /\ UNCHANGED <<fixed, platform, late, lost>>
      /\ UNCHANGED <<command, wait, builds, workloads, deployments>>
  BY DEF FollowLogs, LogsCut, platform, fixed
<1>3. pc'[p] = "waitbuild"
  BY <1>1, <1>2, GotoFacts DEF PCs
<1>4. Route(p)' /\ Progress(p)'
  BY <1>1, <1>2, <1>3 DEF ProcInv, Route, Progress
<1> QED
  BY <1>2, <1>4, ReadGoto DEF PCs

LEMMA PollBuildStep ==
    ASSUME FlowInv, NEW p \in Procs, PollBuild(p)
    PROVE  FlowInv'
<1>1. TypeOK /\ ProcInv(p)
  BY DEF FlowInv
<1>2. pc[p] = "waitbuild" /\ UNCHANGED <<fixed, platform, late, lost>>
      /\ UNCHANGED <<command, wait, builds, workloads, deployments, late, lost>>
  BY DEF PollBuild, platform, fixed
<1>3. /\ exit[p] = "none" /\ lost[p] = {} /\ deployments[p] = "absent" /\ workloads[p] = 0
      /\ command[p] = "deploy module" \/ (command[p] = "build" /\ wait[p])
  <2>1. exit[p] = "none"
    BY <1>1, <1>2 DEF TypeOK
  <2> QED
    BY <1>1, <1>2, <2>1 DEF ProcInv, Progress, Losses, Route
<1>4. CASE builds[p] = "published"
  <2>1. IF command[p] = "build" THEN Exit(p, "done") ELSE Goto(p, "create")
    BY <1>4 DEF PollBuild, Ended
  <2>2. CASE command[p] = "build"
    <3>1. Exit(p, "done") /\ Success(p)'
      BY <1>2, <1>3, <1>4, <2>1, <2>2 DEF Success, Wanted
    <3>2. exit'[p] = "done"
      BY <1>1, <3>1, ExitFacts
    <3>3. Leftovers(p)'
      BY <3>2 DEF Leftovers, Causes
    <3> QED
      BY <1>2, <3>1, <3>3, ReadExit
  <2>3. CASE command[p] # "build"
    <3>1. Goto(p, "create")
      BY <2>1, <2>3
    <3>2. pc'[p] = "create"
      BY <1>1, <3>1, GotoFacts DEF PCs
    <3>3. Published'
      BY <1>2, <1>4, ProcIsBuild DEF Published
    <3>4. Route(p)' /\ Progress(p)'
      BY <1>2, <1>3, <1>4, <2>3, <3>2, <3>3 DEF Route, Progress
    <3> QED
      BY <1>2, <3>1, <3>4, ReadGoto DEF PCs
  <2> QED
    BY <2>2, <2>3
<1>5. CASE builds[p] # "published"
  <2>1. PICK why \in {"over", "deadline"} :
           /\ Exit(p, why)
           /\ builds[p] = "running" => why = "deadline"
    BY <1>5 DEF PollBuild, Ended
  <2>2. exit'[p] = why
    BY <1>1, <2>1, ExitFacts DEF Causes
  <2>3. deployments'[p] = "absent" /\ "absent" \notin Live /\ ~(workloads'[p] > 0)
    BY <1>2, <1>3, NoneIsNotPositive DEF Live
  <2>4. Success(p)' /\ Leftovers(p)'
    BY <1>2, <1>3, <2>1, <2>2, <2>3 DEF Success, Leftovers, AwaitsBuild
  <2> QED
    BY <1>2, <2>1, <2>4, ReadExit DEF Causes
<1> QED
  BY <1>4, <1>5

LEMMA CreateStep ==
    ASSUME FlowInv, NEW p \in Procs, CreateWorkload(p)
    PROVE  FlowInv'
<1>1. TypeOK /\ ProcInv(p)
  BY DEF FlowInv
<1>2. pc[p] = "create" /\ UNCHANGED fixed /\ command' = command /\ wait' = wait
  BY DEF CreateWorkload, fixed
<1>3. CASE Fails(p, "create")
  BY <1>2, <1>3, FailsStep DEF Calls
<1>4. CASE Effect(p, "create") /\ Created(p) /\ UNCHANGED <<late, lost>>
  <2>1. /\ lost[p] = {} /\ workloads[p] = 0 /\ deployments[p] = "absent"
        /\ command[p] = "deploy module" => Published
        /\ command[p] \in {"deploy module", "deploy image", "create"}
        /\ builds[p] # "running"
    BY <1>1, <1>2, BeforeCall DEF Calls, ProcInv, Route
  <2>2. /\ workloads'[p] = 1 /\ deployments'[p] = deployments[p] /\ builds'[p] = builds[p]
        /\ Published => Published'
    BY <1>1, <1>4, <2>1, EffectFacts DEF Calls
  <2>3. CASE command[p] = "create"
    <3>1. Exit(p, "done") /\ Success(p)'
      BY <1>2, <1>4, <2>1, <2>2, <2>3 DEF Created, Success, Wanted
    <3> QED
      BY <1>2, <1>4, <3>1, EffectExit DEF Calls
  <2>4. CASE command[p] # "create"
    <3>1. Goto(p, "deploy")
      BY <1>4, <2>4 DEF Created
    <3>2. pc'[p] = "deploy"
      BY <1>1, <3>1, GotoFacts DEF PCs
    <3>3. Route(p)' /\ Progress(p)'
      BY <1>2, <2>1, <2>2, <2>4, <3>2 DEF Route, Progress, Wanted
    <3> QED
      BY <1>2, <1>4, <3>1, <3>3, EffectGoto DEF Calls, PCs
  <2> QED
    BY <2>3, <2>4
<1> QED
  BY <1>3, <1>4 DEF CreateWorkload

LEMMA DeployStep ==
    ASSUME FlowInv, NEW p \in Procs, Deploy(p)
    PROVE  FlowInv'
<1>1. TypeOK /\ ProcInv(p)
  BY DEF FlowInv
<1>2. pc[p] = "deploy" /\ UNCHANGED fixed /\ command' = command /\ wait' = wait
  BY DEF Deploy, fixed
<1>3. CASE Fails(p, "deploy")
  BY <1>2, <1>3, FailsStep DEF Calls
<1>4. CASE /\ Effect(p, "deploy") /\ UNCHANGED <<late, lost>>
           /\ IF wait[p] THEN Goto(p, "waitdeploy") ELSE Exit(p, "done")
  <2>1. /\ lost[p] = {} /\ workloads[p] = Wanted(command[p])
        /\ command[p] = "deploy module" => Published
        /\ command[p] \in {"deploy module", "deploy image", "deploy id"}
        /\ builds[p] # "running"
    BY <1>1, <1>2, BeforeCall DEF Calls, ProcInv, Route
  <2>2. /\ workloads'[p] = workloads[p] /\ deployments'[p] = "starting"
        /\ builds'[p] = builds[p]
        /\ Published => Published'
    BY <1>1, <1>4, EffectFacts DEF Calls
  <2>3. CASE ~wait[p]
    <3>1. Exit(p, "done") /\ Success(p)'
      BY <1>2, <1>4, <2>1, <2>2, <2>3 DEF Success
    <3> QED
      BY <1>2, <1>4, <3>1, EffectExit DEF Calls
  <2>4. CASE wait[p]
    <3>1. Goto(p, "waitdeploy")
      BY <1>4, <2>4
    <3>2. pc'[p] = "waitdeploy"
      BY <1>1, <3>1, GotoFacts DEF PCs
    <3>3. Route(p)' /\ Progress(p)'
      BY <1>2, <2>1, <2>2, <2>4, <3>2 DEF Route, Progress
    <3> QED
      BY <1>2, <1>4, <3>1, <3>3, EffectGoto DEF Calls, PCs
  <2> QED
    BY <2>3, <2>4
<1> QED
  BY <1>3, <1>4 DEF Deploy

LEMMA PollDeploymentStep ==
    ASSUME FlowInv, NEW p \in Procs, PollDeployment(p)
    PROVE  FlowInv'
<1>1. TypeOK /\ ProcInv(p)
  BY DEF FlowInv
<1>2. pc[p] = "waitdeploy" /\ UNCHANGED <<fixed, platform, late, lost>>
      /\ UNCHANGED <<command, wait, builds, workloads, deployments, ready, late, lost>>
  BY DEF PollDeployment, platform, fixed
<1>3. /\ lost[p] = {} /\ workloads[p] = Wanted(command[p]) /\ wait[p]
      /\ builds[p] # "running" /\ deployments[p] # "absent"
      /\ command[p] \in {"deploy module", "deploy image", "deploy id"}
  <2>1. exit[p] = "none"
    BY <1>1, <1>2 DEF TypeOK
  <2> QED
    BY <1>1, <1>2, <2>1 DEF ProcInv, Progress, Losses, Route
<1>4. CASE deployments[p] = "ready" /\ Exit(p, "done")
  <2>1. p \in ready
    BY <1>1, <1>4 DEF ProcInv, Noted
  <2>2. exit'[p] = "done"
    BY <1>1, <1>4, ExitFacts
  <2>3. Success(p)' /\ Leftovers(p)'
    BY <1>2, <1>3, <1>4, <2>1, <2>2 DEF Success, Leftovers, Causes
  <2> QED
    BY <1>2, <1>4, <2>3, ReadExit
<1>5. ASSUME NEW why \in {"over", "deadline"}, Exit(p, why),
             deployments[p] \in Live => why = "deadline"
      PROVE  FlowInv'
  <2>1. exit'[p] = why
    BY <1>1, <1>5, ExitFacts DEF Causes
  <2>2. Success(p)' /\ Leftovers(p)'
    BY <1>2, <1>3, <1>5, <2>1 DEF Success, Leftovers
  <2> QED
    BY <1>2, <1>5, <2>2, ReadExit DEF Causes
<1> QED
  BY <1>4, <1>5 DEF PollDeployment, Live

LEMMA ReadFailsStep ==
    ASSUME FlowInv, NEW p \in Procs, ReadFails(p)
    PROVE  FlowInv'
<1>1. TypeOK /\ ProcInv(p)
  BY DEF FlowInv
<1>2. /\ pc[p] \in {"history", "upload", "logs", "waitbuild", "waitdeploy"}
      /\ Exit(p, "poll") /\ UNCHANGED <<fixed, platform, late, lost>>
      /\ UNCHANGED <<command, wait, builds, workloads, deployments, lost>>
  BY DEF ReadFails, platform, fixed
<1>3. exit'[p] = "poll"
  BY <1>1, <1>2, ExitFacts DEF Causes
<1>4. /\ builds[p] = "running" => AwaitsBuild(p)
      /\ deployments[p] # "absent" => wait[p]
      /\ deployments[p] = "absent" => ~(workloads[p] > 0)
  <2>1. CASE pc[p] \in {"history", "upload"}
    BY <1>1, <2>1, NoneIsNotPositive DEF ProcInv, Progress
  <2>2. CASE pc[p] \in {"logs", "waitbuild"}
    BY <1>1, <2>2, NoneIsNotPositive DEF ProcInv, Route, Progress, AwaitsBuild
  <2>3. CASE pc[p] = "waitdeploy"
    BY <1>1, <2>3 DEF ProcInv, Route, Progress
  <2> QED
    BY <1>2, <2>1, <2>2, <2>3
<1>5. Success(p)' /\ Leftovers(p)'
  <2>1. "absent" \notin Live
    BY DEF Live
  <2> QED
    BY <1>2, <1>3, <1>4, <2>1 DEF Success, Leftovers, AwaitsBuild
<1> QED
  BY <1>2, <1>5, ReadExit DEF Causes

LEMMA ExpireStep ==
    ASSUME FlowInv, NEW p \in Procs, Expire(p)
    PROVE  FlowInv'
<1>1. TypeOK /\ ProcInv(p)
  BY DEF FlowInv
<1>2. /\ UNCHANGED <<fixed, command, wait, pc, exit, builds, workloads, deployments, ready,
                     late, lost>>
      /\ expired' = [expired EXCEPT ![p] = TRUE]
  BY DEF Expire, platform, fixed
<1>3. TypeOK'
  BY <1>1, <1>2 DEF TypeOK
<1>4. (\A q \in Procs : Same(q)) /\ (Published => Published')
  BY <1>2 DEF Same, Published
<1>5. ProcInv(p)'
  BY <1>1, <1>2, <1>4, SameKeeps
<1> QED
  BY <1>2, <1>3, <1>4, <1>5, OneProcess

\* A build ends.  A published one stays what it is.
LEMMA RunBuildStep ==
    ASSUME FlowInv, NEW b \in Builds, RunBuild(b)
    PROVE  FlowInv'
<1>1. TypeOK
  BY DEF FlowInv
<1>2. PICK s \in Ended : builds' = [builds EXCEPT ![b] = s]
  BY DEF RunBuild
<1>3. /\ builds[b] = "running"
      /\ UNCHANGED <<fixed, command, wait, pc, expired, exit, workloads, deployments, late, lost,
                     ready>>
  BY DEF RunBuild, fixed
<1>4. /\ builds' \in [Builds -> BuildStates] /\ builds'[b] = s
      /\ \A x \in Builds : x # b => builds'[x] = builds[x]
  BY <1>1, <1>2 DEF TypeOK, BuildStates
<1>5. \A x \in Builds : /\ builds[x] = "published" => builds'[x] = "published"
                        /\ builds'[x] = "absent" <=> builds[x] = "absent"
                        /\ builds'[x] = "running" => builds[x] = "running"
  BY <1>3, <1>4 DEF Ended
<1>6. TypeOK'
  BY <1>1, <1>3, <1>4 DEF TypeOK
<1>7. Published => Published'
  BY <1>5 DEF Published
<1>8. ASSUME NEW q \in Procs PROVE ProcInv(q)'
  <2>1. ProcInv(q)
    BY DEF FlowInv
  <2>2. /\ builds[q] = "published" => builds'[q] = "published"
        /\ builds'[q] = "absent" <=> builds[q] = "absent"
        /\ builds'[q] = "running" => builds[q] = "running"
    BY <1>5, ProcIsBuild
  <2>3. Route(q)' /\ Progress(q)'
    BY <1>3, <1>7, <2>1, <2>2 DEF ProcInv, Route, Progress
  <2>4. Losses(q)' /\ Noted(q)'
    BY <1>3, <2>1, <2>2 DEF ProcInv, Losses, Noted
  <2>5. First(q)' /\ Success(q)' /\ Leftovers(q)'
    BY <1>3, <1>7, <2>1, <2>2 DEF ProcInv, First, Success, Leftovers, AwaitsBuild
  <2> QED
    BY <2>3, <2>4, <2>5 DEF ProcInv
<1>9. \A q \in Procs : ProcInv(q)'
  BY <1>8
<1> QED
  BY <1>6, <1>9 DEF FlowInv, ProcInv, Route, Progress, Losses, Noted, First, Success, Leftovers

LEMMA RunDeploymentStep ==
    ASSUME FlowInv, NEW p \in Procs, RunDeployment(p)
    PROVE  FlowInv'
<1>1. TypeOK /\ ProcInv(p)
  BY DEF FlowInv
<1>2. PICK s \in Moves(deployments[p]) :
        /\ deployments' = [deployments EXCEPT ![p] = s]
        /\ ready' = IF s = "ready" THEN ready \cup {p} ELSE ready
  BY DEF RunDeployment
<1>3. UNCHANGED <<fixed, command, wait, pc, expired, exit, builds, workloads, late, lost>>
  BY DEF RunDeployment, fixed
<1>4. deployments[p] \in Live /\ s \in DeploymentStates \ {"absent"}
  <2>1. deployments[p] \in DeploymentStates
    BY <1>1 DEF TypeOK
  <2>2. CASE deployments[p] = "starting"
    BY <1>2, <2>2 DEF Moves, DeploymentStates, Live
  <2>3. CASE deployments[p] = "ready"
    BY <1>2, <2>3 DEF Moves, DeploymentStates, Live
  <2>4. CASE deployments[p] = "draining"
    BY <1>2, <2>4 DEF Moves, DeploymentStates, Live
  <2>5. CASE deployments[p] = "suspended"
    BY <1>2, <2>5 DEF Moves, DeploymentStates, Live
  <2>6. CASE deployments[p] \in {"absent", "failed", "terminated"}
    BY <1>2, <2>6 DEF Moves
  <2> QED
    BY <2>1, <2>2, <2>3, <2>4, <2>5, <2>6 DEF DeploymentStates
<1>5. /\ deployments' \in [Procs -> DeploymentStates] /\ deployments'[p] = s
      /\ \A q \in Procs : q # p => deployments'[q] = deployments[q]
  BY <1>1, <1>2, <1>4 DEF TypeOK
<1>6. ready \subseteq ready' /\ (s = "ready" => p \in ready')
  BY <1>2
<1>7. TypeOK'
  BY <1>1, <1>2, <1>3, <1>5 DEF TypeOK
<1>8. Published' = Published
  BY <1>3 DEF Published
<1>9. Route(p)' /\ Progress(p)'
  BY <1>1, <1>3, <1>4, <1>5, <1>8 DEF ProcInv, Route, Progress, Live
<1>10. Losses(p)' /\ Noted(p)'
  BY <1>1, <1>3, <1>5, <1>6 DEF ProcInv, Losses, Noted
<1>11. First(p)' /\ Success(p)' /\ Leftovers(p)'
  <2>1. "absent" \notin Live
    BY DEF Live
  <2>2. First(p)' /\ Success(p)'
    BY <1>1, <1>3, <1>4, <1>5, <1>6, <1>8, <2>1 DEF ProcInv, First, Success
  <2>3. Leftovers(p)'
    BY <1>1, <1>3, <1>4, <1>5 DEF ProcInv, Leftovers, AwaitsBuild
  <2> QED
    BY <2>2, <2>3
<1>12. \A q \in Procs : q # p => Same(q)
  BY <1>3, <1>5, <1>6 DEF Same
<1> QED
  BY <1>3, <1>7, <1>8, <1>9, <1>10, <1>11, <1>12, OneProcess DEF ProcInv

\* A call that comes late is of a failed command, and accounted for as lost.
LEMMA LateCallStep ==
    ASSUME FlowInv, NEW p \in Procs, LateCall(p)
    PROVE  FlowInv'
<1>1. TypeOK /\ ProcInv(p)
  BY DEF FlowInv
<1>2. PICK c \in late[p] : Effect(p, c) /\ late' = [late EXCEPT ![p] = late[p] \ {c}]
  BY DEF LateCall
<1>3. UNCHANGED <<fixed, command, wait, pc, expired, exit, lost>>
  BY DEF LateCall, fixed
<1>4. /\ c \in Calls /\ c \in lost[p] /\ exit[p] = "call" /\ pc[p] = "done"
      /\ late[p] \subseteq lost[p]
      /\ c = "build" => builds[p] = "absent"
      /\ c = "create" => workloads[p] = 0
  <2>1. late[p] \subseteq Calls
    BY <1>1 DEF TypeOK, Calls
  <2>2. exit[p] = "call"
    BY <1>1, <1>2 DEF ProcInv, Losses
  <2>3. pc[p] = "done"
    BY <1>1, <2>2 DEF TypeOK
  <2> QED
    BY <1>1, <1>2, <2>1, <2>2, <2>3 DEF ProcInv, Losses
<1>5. /\ builds' \in [Builds -> BuildStates] /\ workloads' \in [Procs -> {0, 1}]
      /\ deployments' \in [Procs -> DeploymentStates] /\ ready' = ready
      /\ builds'[p] = IF c = "build" THEN "running" ELSE builds[p]
      /\ workloads'[p] = IF c = "create" THEN 1 ELSE workloads[p]
      /\ deployments'[p] = IF c = "deploy" THEN "starting" ELSE deployments[p]
      /\ \A q \in Procs : q # p => /\ builds'[q] = builds[q]
                                   /\ workloads'[q] = workloads[q]
                                   /\ deployments'[q] = deployments[q]
      /\ Published => Published'
  BY <1>1, <1>2, <1>4, EffectFacts
<1>6. /\ late' \in [Procs -> SUBSET Calls] /\ late'[p] = late[p] \ {c}
      /\ \A q \in Procs : q # p => late'[q] = late[q]
  BY <1>1, <1>2 DEF TypeOK, Calls
<1>7. TypeOK'
  BY <1>1, <1>3, <1>5, <1>6 DEF TypeOK, Calls
<1>8. Route(p)' /\ Progress(p)' /\ Success(p)'
  BY <1>3, <1>4 DEF Route, Progress, Success
<1>9. Losses(p)' /\ Noted(p)'
  BY <1>1, <1>3, <1>4, <1>5, <1>6 DEF ProcInv, Losses, Noted
<1>10. First(p)'
  <2>1. CASE c = "build"
    BY <1>1, <1>3, <1>5, <1>6, <2>1 DEF ProcInv, First
  <2>2. CASE c \in {"create", "deploy"}
    BY <1>1, <1>2, <1>3, <1>5, <2>2 DEF ProcInv, First
  <2> QED
    BY <1>4, <2>1, <2>2 DEF Calls
<1>11. Leftovers(p)'
  BY <1>1, <1>3, <1>4, <1>5 DEF ProcInv, Leftovers, AwaitsBuild, Calls
<1>12. \A q \in Procs : q # p => Same(q)
  BY <1>3, <1>5, <1>6 DEF Same
<1> QED
  BY <1>3, <1>5, <1>7, <1>8, <1>9, <1>10, <1>11, <1>12, OneProcess DEF ProcInv

LEMMA FlowStep ==
    ASSUME FlowInv, [Next]_vars
    PROVE  FlowInv'
<1>1. ASSUME NEW p \in Procs, Step(p)
      PROVE  FlowInv'
  BY <1>1, HistoryStep, StartBuildStep, LogsStep, PollBuildStep, CreateStep, DeployStep,
     PollDeploymentStep DEF Step
<1>2. ASSUME NEW p \in Procs,
             ReadFails(p) \/ LogsCut(p) \/ Expire(p) \/ RunDeployment(p) \/ LateCall(p)
      PROVE  FlowInv'
  BY <1>2, ReadFailsStep, LogsStep, ExpireStep, RunDeploymentStep, LateCallStep
<1>3. ASSUME NEW b \in Builds, RunBuild(b)
      PROVE  FlowInv'
  BY <1>3, RunBuildStep
<1>4. CASE UNCHANGED vars
  <2>1. UNCHANGED <<fixed, command, wait, pc, expired, exit, builds, workloads, deployments,
                    late, lost, ready>>
    BY <1>4 DEF vars, fixed
  <2>2. (\A q \in Procs : Same(q)) /\ (Published => Published')
    BY <2>1 DEF Same, Published
  <2>3. TypeOK'
    BY <2>1 DEF FlowInv, TypeOK
  <2>4. \A q \in Procs : ProcInv(q)'
    BY <2>1, <2>2, SameKeeps DEF FlowInv
  <2> QED
    BY <2>3, <2>4 DEF FlowInv, ProcInv, Route, Progress, Losses, Noted, First, Success, Leftovers
<1> QED
  BY <1>1, <1>2, <1>3, <1>4 DEF Next

LEMMA FlowInit == Init => FlowInv
<1> SUFFICES ASSUME Init PROVE FlowInv
  OBVIOUS
<1>1. /\ command \in [Procs -> Commands] /\ wait \in [Procs -> BOOLEAN]
      /\ \A p \in Procs : command[p] = "create" => ~wait[p]
      /\ pc = [p \in Procs |-> FirstCall(command[p])]
      /\ expired = [p \in Procs |-> FALSE] /\ exit = [p \in Procs |-> "none"]
      /\ workloads = [p \in Procs |-> 0] /\ deployments = [p \in Procs |-> "absent"]
      /\ late = [p \in Procs |-> {}] /\ lost = [p \in Procs |-> {}] /\ ready = {}
  BY DEF Init
<1>2. PICK s \in BuildStates : builds = [b \in Builds |-> IF b = Old THEN s ELSE "absent"]
  BY DEF Init
<1>3. \A p \in Procs : builds[p] = "absent"
  BY <1>2, ProcsAssumption, ProcIsBuild
<1>4. ASSUME NEW p \in Procs
      PROVE  /\ pc[p] \in PCs \ {"done"} /\ Route(p)
             /\ pc[p] \in {"history", "upload", "build", "create", "deploy"}
             /\ pc[p] = "create" => command[p] # "deploy module"
             /\ pc[p] = "deploy" => command[p] = "deploy id"
  <2>1. pc[p] = FirstCall(command[p]) /\ command[p] \in Commands
    BY <1>1
  <2>2. CASE command[p] = "deploy module"
    BY <2>1, <2>2 DEF FirstCall, Route, PCs
  <2>3. CASE command[p] = "deploy image"
    BY <2>1, <2>3 DEF FirstCall, Route, PCs
  <2>4. CASE command[p] = "deploy id"
    BY <2>1, <2>4 DEF FirstCall, Route, PCs
  <2>5. CASE command[p] = "build"
    BY <2>1, <2>5 DEF FirstCall, Route, PCs
  <2>6. CASE command[p] = "build context"
    BY <2>1, <2>6 DEF FirstCall, Route, PCs
  <2>7. CASE command[p] = "create"
    BY <2>1, <2>7 DEF FirstCall, Route, PCs
  <2> QED
    BY <2>1, <2>2, <2>3, <2>4, <2>5, <2>6, <2>7 DEF Commands
<1>5. TypeOK
  <2>1. pc \in [Procs -> PCs] /\ \A p \in Procs : pc[p] # "done"
    BY <1>1, <1>4
  <2>2. builds \in [Builds -> BuildStates]
    BY <1>2 DEF BuildStates
  <2> QED
    BY <1>1, <2>1, <2>2 DEF TypeOK, PCs, DeploymentStates
<1>6. ASSUME NEW p \in Procs
      PROVE  ProcInv(p)
  <2>1. /\ workloads[p] = 0 /\ deployments[p] = "absent" /\ late[p] = {} /\ lost[p] = {}
        /\ exit[p] = "none" /\ builds[p] = "absent"
    BY <1>1, <1>3
  <2>2. ~(workloads[p] > 0)
    BY <2>1, NoneIsNotPositive
  <2>3. Progress(p)
    BY <1>4, <2>1 DEF Progress, Wanted
  <2>4. Losses(p) /\ Noted(p) /\ First(p) /\ Success(p) /\ Leftovers(p)
    BY <2>1, <2>2 DEF Losses, Noted, First, Success, Leftovers, Causes
  <2> QED
    BY <1>4, <2>3, <2>4 DEF ProcInv
<1> QED
  BY <1>5, <1>6 DEF FlowInv

\* FlowInv holds in every reachable state.
THEOREM FlowInvariant == Spec => []FlowInv
<1>1. Spec => Init /\ [][Next]_vars
  BY PTL DEF Spec
<1> QED
  BY <1>1, FlowInit, FlowStep, PTL

\* Types, whatever the commands and however their calls fail.
THEOREM FlowTypeCorrect == Spec => []TypeOK
<1>1. FlowInv => TypeOK
  BY DEF FlowInv
<1> QED
  BY <1>1, FlowInvariant, PTL

\* No workload and no deployment for an image that was not published, however
\* many processes build and deploy it.
THEOREM NothingUnpublished == Spec => []PublishedFirst
<1>1. FlowInv => PublishedFirst
  BY DEF FlowInv, ProcInv, First, PublishedFirst, Published
<1> QED
  BY <1>1, FlowInvariant, PTL

\* Exit code 0 tells the truth about the platform.
THEOREM SuccessCanBeTrusted == Spec => []SuccessIsTrue
<1>1. FlowInv => SuccessIsTrue
  BY DEF FlowInv, ProcInv, Success, SuccessIsTrue, Wanted
<1> QED
  BY <1>1, FlowInvariant, PTL

\* Every build that runs on, deployment that lives on and workload without a
\* deployment that a failed command leaves behind has its cause: a lost answer, a
\* wait cut short by a poll or the deadline, a deploy call that raised.
THEOREM LeftoversAreExplained == Spec => []LeftoversExplained
<1>1. FlowInv => LeftoversExplained
  BY DEF FlowInv, ProcInv, Leftovers, LeftoversExplained
<1> QED
  BY <1>1, FlowInvariant, PTL

-----------------------------------------------------------------------------
\* The lists of a script.

\* What is in a list stands at one of its places.
LEMMA ItemsOf ==
    ASSUME NEW T, NEW s \in Seq(T)
    PROVE  s \in Seq(ToSet(s)) /\ ToSet(s) \subseteq T /\ ToSet(s) = {s[i] : i \in 1..Len(s)}
  BY DEF ToSet

\* Lists put together have the items of both.
LEMMA ItemsOfConcat ==
    ASSUME NEW T, NEW s \in Seq(T), NEW t \in Seq(T)
    PROVE  s \o t \in Seq(T) /\ ToSet(s \o t) = ToSet(s) \cup ToSet(t)
  <1>1. /\ s \o t \in Seq(T) /\ Len(s) \in Nat /\ Len(t) \in Nat /\ Len(s \o t) = Len(s) + Len(t)
        /\ \A i \in 1..Len(s) : (s \o t)[i] = s[i]
        /\ \A i \in 1..Len(t) : (s \o t)[Len(s) + i] = t[i]
    OBVIOUS
  <1> DEFINE u == s \o t
             m == Len(s)
             n == Len(t)
  <1>2. ToSet(s) = {s[i] : i \in 1..m} /\ ToSet(t) = {t[i] : i \in 1..n}
        /\ ToSet(u) = {u[i] : i \in 1..Len(u)}
    BY <1>1, ItemsOf
  <1> HIDE DEF u, m, n
  <1>3. \A i \in 1..(m + n) : i \in 1..m \/ (i - m \in 1..n /\ m + (i - m) = i)
    BY <1>1 DEF m, n
  <1>4. \A i \in 1..m : i \in 1..(m + n)
    BY <1>1 DEF m, n
  <1>5. \A i \in 1..n : m + i \in 1..(m + n)
    BY <1>1 DEF m, n
  <1>6. /\ Len(u) = m + n /\ \A i \in 1..m : u[i] = s[i]
        /\ \A i \in 1..n : u[m + i] = t[i]
    BY <1>1 DEF u, m, n
  <1>7. ASSUME NEW x \in ToSet(u) PROVE x \in ToSet(s) \cup ToSet(t)
    <2>1. PICK i \in 1..(m + n) : x = u[i]
      BY <1>2, <1>6
    <2>2. CASE i \in 1..m
      BY <1>2, <1>6, <2>1, <2>2
    <2>3. CASE i - m \in 1..n /\ m + (i - m) = i
      <3>1. u[i] = t[i - m]
        BY <1>6, <2>3
      <3> QED
        BY <1>2, <2>1, <2>3, <3>1
    <2> QED
      BY <1>3, <2>2, <2>3
  <1>8. ASSUME NEW x \in ToSet(s) \cup ToSet(t) PROVE x \in ToSet(u)
    <2>1. CASE x \in ToSet(s)
      BY <1>2, <1>4, <1>6, <2>1
    <2>2. CASE x \in ToSet(t)
      <3>1. PICK i \in 1..n : x = t[i]
        BY <1>2, <2>2
      <3>2. u[m + i] = x /\ m + i \in 1..Len(u)
        BY <1>5, <1>6, <3>1
      <3> QED
        BY <1>2, <3>2
    <2> QED
      BY <2>1, <2>2
  <1> QED
    BY <1>1, <1>7, <1>8 DEF u

\* The first item and the others.
LEMMA TailItems ==
    ASSUME NEW T, NEW t \in Seq(T), t # <<>>
    PROVE  /\ Head(t) \in T /\ Tail(t) \in Seq(T)
           /\ ToSet(t) = {Head(t)} \cup ToSet(Tail(t))
  <1>1. /\ Head(t) = t[1] /\ Head(t) \in T /\ Tail(t) \in Seq(T)
        /\ Len(t) \in Nat /\ Len(t) >= 1 /\ Len(Tail(t)) = Len(t) - 1
        /\ \A i \in 1..(Len(t) - 1) : Tail(t)[i] = t[i + 1]
    OBVIOUS
  <1>2. ToSet(t) = {t[i] : i \in 1..Len(t)} /\ ToSet(Tail(t)) = {Tail(t)[i] : i \in 1..Len(Tail(t))}
    BY <1>1, ItemsOf
  <1>3. ASSUME NEW i \in 1..Len(t) PROVE t[i] = Head(t) \/ t[i] \in ToSet(Tail(t))
    <2>1. CASE i = 1
      BY <1>1, <2>1
    <2>2. CASE i # 1
      <3>1. i - 1 \in 1..(Len(t) - 1) /\ (i - 1) + 1 = i
        BY <1>1, <2>2
      <3>2. Tail(t)[i - 1] = t[i]
        BY <1>1, <3>1
      <3> QED
        BY <1>1, <1>2, <3>1, <3>2
    <2> QED
      BY <2>1, <2>2
  <1>4. \A i \in 1..(Len(t) - 1) : i + 1 \in 1..Len(t)
    BY <1>1
  <1>5. \A x \in ToSet(t) : x = Head(t) \/ x \in ToSet(Tail(t))
    BY <1>2, <1>3
  <1>6. Head(t) \in ToSet(t)
    BY <1>1, <1>2
  <1>7. \A x \in ToSet(Tail(t)) : x \in ToSet(t)
    BY <1>1, <1>2, <1>4
  <1> QED
    BY <1>1, <1>5, <1>6, <1>7

\* S is what f has at the positions of K.
AllAt(S, n, K, f) == \A x : x \in S <=> \E i \in 1..n : i \in K /\ x = f[i]

\* A list that picks the positions of K has what is at them.
LEMMA PickedItems ==
    ASSUME NEW T, NEW s \in Seq(T), NEW at, NEW n \in Nat, NEW K, NEW f, Picks(s, at, n, K, f)
    PROVE  AllAt(ToSet(s), n, K, f)
  <1>1. ToSet(s) = {s[i] : i \in 1..Len(s)}
    BY ItemsOf
  <1>2. ASSUME NEW i \in 1..Len(s) PROVE \E k \in 1..n : k \in K /\ s[i] = f[k]
    BY DEF Picks
  <1>3. ASSUME NEW k \in 1..n, k \in K PROVE \E i \in 1..Len(s) : f[k] = s[i]
    <2>1. PICK j \in 1..Len(s) : at[j] = k
      BY <1>3 DEF Picks
    <2> QED
      BY <2>1 DEF Picks
  <1>4. ASSUME NEW x
        PROVE  x \in ToSet(s) <=> \E i \in 1..n : i \in K /\ x = f[i]
    <2>1. ASSUME x \in ToSet(s) PROVE \E i \in 1..n : i \in K /\ x = f[i]
      <3>1. PICK j \in 1..Len(s) : x = s[j]
        BY <1>1, <2>1
      <3>2. PICK k \in 1..n : k \in K /\ s[j] = f[k]
        BY <1>2
      <3> QED
        BY <3>1, <3>2
    <2>2. ASSUME NEW i \in 1..n, i \in K, x = f[i] PROVE x \in ToSet(s)
      BY <1>1, <1>3, <2>2, Zenon
    <2> QED
      BY <2>1, <2>2, Zenon
  <1> QED
    BY <1>4, Zenon DEF AllAt

\* The paths of the steps of these kinds.
PathSet(steps, kinds) == {st.path : st \in {t \in steps : t.do \in kinds}}

\* PathsOf lists exactly them.
LEMMA PathsAre ==
    ASSUME NEW s \in Seq(Steps), NEW kinds
    PROVE  /\ PathsOf(s, kinds) \in Seq(ToSet(PathsOf(s, kinds)))
           /\ ToSet(PathsOf(s, kinds)) = PathSet(ToSet(s), kinds)
  <1> DEFINE n == Len(s)
             K == {i \in 1..n : s[i].do \in kinds}
             f == [i \in 1..n |-> s[i].path]
             T == {s[i].path : i \in 1..n}
             P(h) == h = [S \in SUBSET DOMAIN s |->
                            IF S = {} THEN <<>>
                            ELSE IF s[Max(S)].do \in kinds
                                 THEN Append(h[S \ {Max(S)}], s[Max(S)].path)
                                 ELSE h[S \ {Max(S)}]]
             H == CHOOSE h : P(h)
  <1>1. n \in Nat /\ DOMAIN s = 1..n /\ f \in [1..n -> T]
    OBVIOUS
  <1>2. PathsOf(s, kinds) = H[1..n]
    <2>1. PathsOf(s, kinds) = H[DOMAIN s]
      BY Zenon DEF PathsOf, FoldLeft, MapThenFoldSet
    <2> QED
      BY <1>1, <2>1
  <1>9. ToSet(s) = {s[i] : i \in 1..n}
    BY ItemsOf
  <1> HIDE DEF n, H
  <1>3. \A S \in SUBSET (1..n) : S # {} =>
            /\ s[Max(S)].do \in kinds <=> Max(S) \in K
            /\ s[Max(S)].path = f[Max(S)]
    BY <1>1, MaxIsLast
  <1>10. \A i \in 1..n : f[i] = s[i].path /\ (i \in K <=> s[i].do \in kinds)
    OBVIOUS
  <1> HIDE DEF T, K, f
  <1>4. PICK h : Filters(h, n, K, f)
    BY <1>1, FilterExists
  <1>5. P(h)
    BY <1>1, <1>3, <1>4 DEF Filters
  <1>6. P(H)
    BY <1>5 DEF H
  <1>7. Filters(H, n, K, f)
    BY <1>1, <1>3, <1>6 DEF Filters
  <1>8. H[1..n] \in Seq(T) /\ \E at : Picks(H[1..n], at, n, K, f)
    <2>1. n \in Nat /\ f \in [1..n -> T]
      BY <1>1
    <2> QED
      BY <2>1, <1>7, FilterPicks, Zenon
  <1> DEFINE p == PathsOf(s, kinds)
  <1>11. p \in Seq(T) /\ \E at : Picks(p, at, n, K, f)
    BY <1>2, <1>8, Zenon
  <1> HIDE DEF p
  <1>12. p \in Seq(ToSet(p))
    BY <1>11, ItemsOf
  <1>13. AllAt(ToSet(p), n, K, f)
    <2>1. n \in Nat /\ p \in Seq(T)
      BY <1>1, <1>11
    <2>2. PICK at : Picks(p, at, n, K, f)
      BY <1>11
    <2> QED
      BY <2>1, <2>2, PickedItems
  <1>14. ToSet(p) = PathSet(ToSet(s), kinds)
    BY <1>9, <1>10, <1>13 DEF PathSet, AllAt
  <1> QED
    BY <1>12, <1>14 DEF p

\* The image's paths are those of its copies, each once.
LEMMA BuildPathsAre ==
    ASSUME NEW s \in Seq(Steps)
    PROVE  /\ build_context_paths(s) \in Seq(PathSet(ToSet(s), {"copy"}))
           /\ ToSet(build_context_paths(s)) = PathSet(ToSet(s), {"copy"})
  <1> DEFINE c == PathsOf(s, {"copy"})
             E == PathSet(ToSet(s), {"copy"})
             n == Len(c)
             T == Seq(E)
             Add(out, p) == IF Contains(out, p) THEN out ELSE Append(out, p)
             turn == [x \in T \X (1..n) |-> Add(x[1], c[x[2]])]
             P(h) == h = [S \in SUBSET DOMAIN c |->
                            IF S = {} THEN <<>>
                            ELSE Add(h[S \ {Max(S)}], c[Max(S)])]
             H == CHOOSE h : P(h)
  <1>1. c \in Seq(E) /\ ToSet(c) = E
    BY PathsAre
  <1>2. build_context_paths(s) = H[DOMAIN c]
    BY Zenon DEF build_context_paths, FoldLeft, MapThenFoldSet
  <1> HIDE DEF c, E
  <1>3. n \in Nat /\ DOMAIN c = 1..n /\ <<>> \in T /\ (\A i \in 1..n : c[i] \in E)
        /\ E = {c[i] : i \in 1..n}
    BY <1>1, ItemsOf
  <1> HIDE DEF H, n
  <1>4. ASSUME NEW out \in T, NEW p \in E
        PROVE  Add(out, p) \in T /\ ToSet(Add(out, p)) = ToSet(out) \cup {p}
    <2>1. CASE Contains(out, p)
      <3>1. p \in ToSet(out)
        BY <2>1 DEF Contains, ToSet
      <3> QED
        BY <2>1, <3>1
    <2>2. CASE ~Contains(out, p)
      <3>1. <<p>> \in Seq(E) /\ ToSet(<<p>>) = {p} /\ Append(out, p) = out \o <<p>>
        <4>1. DOMAIN <<p>> = {1} /\ <<p>>[1] = p
          OBVIOUS
        <4> QED
          BY <4>1 DEF ToSet
      <3>2. out \in Seq(E)
        OBVIOUS
      <3>3. out \o <<p>> \in Seq(E) /\ ToSet(out \o <<p>>) = ToSet(out) \cup ToSet(<<p>>)
        BY <3>1, <3>2, ItemsOfConcat
      <3>4. Add(out, p) = out \o <<p>>
        BY <2>2, <3>1
      <3> QED
        BY <3>1, <3>3, <3>4
    <2> QED
      BY <2>1, <2>2
  <1>5. turn \in [T \X (1..n) -> T]
    <2> SUFFICES ASSUME NEW x \in T \X (1..n) PROVE Add(x[1], c[x[2]]) \in T
      OBVIOUS
    <2> QED
      BY <1>3, <1>4
  <1>6. \A out \in T, i \in 1..n : turn[<<out, i>>] = Add(out, c[i])
    OBVIOUS
  <1> HIDE DEF T, turn, Add
  <1>7. PICK h \in [SUBSET (1..n) -> T] : Recurses(h, n, <<>>, turn)
    <2>1. n \in Nat /\ <<>> \in T
      BY <1>3
    <2> QED
      BY <2>1, <1>5, FoldExists, Zenon
  <1>8. ASSUME NEW S \in SUBSET (1..n), S # {}
        PROVE  h[S] = Add(h[S \ {Max(S)}], c[Max(S)])
    <2>1. Max(S) \in 1..n /\ S \ {Max(S)} \in SUBSET (1..n)
      BY <1>3, <1>8, MaxIsLast
    <2> QED
      BY <1>6, <1>7, <1>8, <2>1 DEF Recurses
  <1>9. h = [S \in SUBSET (1..n) |->
               IF S = {} THEN <<>> ELSE Add(h[S \ {Max(S)}], c[Max(S)])]
    BY <1>7, <1>8 DEF Recurses
  <1>10. P(h)
    BY <1>3, <1>9
  <1>11. P(H)
    BY <1>10 DEF H
  <1>12. ASSUME NEW i \in 1..n PROVE H[1..i] = Add(H[1..(i - 1)], c[i])
    <2>1. 1..i \in SUBSET (1..n) /\ 1..i # {}
      <3>1. i \in 1..i /\ 1..i \subseteq 1..n
        BY <1>3
      <3> QED
        BY <3>1
    <2>2. Max(1..i) = i /\ (1..i) \ {i} = 1..(i - 1)
      <3>1. i \in Nat \ {0}
        BY <1>3
      <3> QED
        BY <3>1, MaxOfTurns
    <2>3. H[1..i] = Add(H[(1..i) \ {Max(1..i)}], c[Max(1..i)])
      BY <1>3, <1>11, <2>1
    <2> QED
      BY <2>2, <2>3
  <1>13. H[1..0] = <<>>
    <2>1. 1..0 = {} /\ {} \in SUBSET DOMAIN c
      OBVIOUS
    <2> QED
      BY <1>11, <2>1
  <1> DEFINE G == {i \in 0..n : H[1..i] \in T /\ ToSet(H[1..i]) = {c[j] : j \in 1..i}}
  <1>14. 0 \in G
    <2>1. ToSet(<<>>) = {} /\ 1..0 = {} /\ 0 \in 0..n
      BY <1>3 DEF ToSet
    <2> QED
      BY <1>3, <1>13, <2>1
  <1>15. ASSUME NEW i \in 1..n, i - 1 \in G PROVE i \in G
    <2>1. H[1..(i - 1)] \in T /\ ToSet(H[1..(i - 1)]) = {c[j] : j \in 1..(i - 1)}
      BY <1>15
    <2>2. 1..i = 1..(i - 1) \cup {i} /\ i \in 0..n
      BY <1>3
    <2>3. H[1..i] \in T /\ ToSet(H[1..i]) = {c[j] : j \in 1..(i - 1)} \cup {c[i]}
      <3> DEFINE out == H[1..(i - 1)]
      <3>1. c[i] \in E /\ H[1..i] = Add(out, c[i])
        BY <1>3, <1>12
      <3>2. out \in T /\ ToSet(out) = {c[j] : j \in 1..(i - 1)}
        BY <2>1
      <3> HIDE DEF out
      <3>3. Add(out, c[i]) \in T /\ ToSet(Add(out, c[i])) = ToSet(out) \cup {c[i]}
        BY <1>4, <3>1, <3>2
      <3> QED
        BY <3>1, <3>2, <3>3
    <2> QED
      BY <2>2, <2>3
  <1> HIDE DEF G
  <1>16. \A i \in 0..n : i \in G
    <2>1. n \in Nat
      BY <1>3
    <2> QED
      BY <2>1, <1>14, <1>15, AllTurns
  <1>17. n \in G
    BY <1>3, <1>16
  <1> QED
    BY <1>2, <1>3, <1>17 DEF G, T, E

\* All paths a script lists, as a set; those that Candidates has.
ListedSet(steps) == {Module} \cup PathSet(steps, {"context", "include", "copy"})

\* Candidates has each of them, and no other.
LEMMA CandidatesAre ==
    ASSUME NEW s \in Seq(Steps)
    PROVE  /\ Candidates(s) \in Seq(ToSet(Candidates(s)))
           /\ ToSet(Candidates(s)) = ListedSet(ToSet(s))
           /\ ToSet(Candidates(s)) \subseteq Paths
           /\ ToSet(PathsOf(s, {"copy"})) \subseteq ToSet(Candidates(s))
  <1> DEFINE S == ToSet(s)
             a == PathsOf(s, {"context"})
             b == PathsOf(s, {"include"})
             c == build_context_paths(s)
             U == ListedSet(S)
  <1>1. /\ a \in Seq(ToSet(a)) /\ ToSet(a) = PathSet(S, {"context"})
        /\ b \in Seq(ToSet(b)) /\ ToSet(b) = PathSet(S, {"include"})
        /\ c \in Seq(PathSet(S, {"copy"})) /\ ToSet(c) = PathSet(S, {"copy"})
        /\ ToSet(PathsOf(s, {"copy"})) = PathSet(S, {"copy"})
    BY PathsAre, BuildPathsAre
  <1>2. U = {Module} \cup (PathSet(S, {"context"}) \cup PathSet(S, {"include"}))
                    \cup PathSet(S, {"copy"})
    BY DEF ListedSet, PathSet
  <1>3. Candidates(s) = (<<Module>> \o (a \o b)) \o c
    BY DEF Candidates, context_paths
  <1> HIDE DEF a, b, c, U
  <1>4. a \in Seq(U) /\ b \in Seq(U) /\ c \in Seq(U)
    BY <1>1, <1>2
  <1> DEFINE m == <<Module>>
             ab == a \o b
             mab == m \o ab
  <1>5. m \in Seq(U) /\ ToSet(m) = {Module}
    <2>1. DOMAIN <<Module>> = {1} /\ <<Module>>[1] = Module
      OBVIOUS
    <2> QED
      BY <1>2, <2>1 DEF ToSet
  <1>6. ab \in Seq(U) /\ ToSet(ab) = ToSet(a) \cup ToSet(b)
    BY <1>4, ItemsOfConcat
  <1> HIDE DEF m, ab
  <1>7. mab \in Seq(U) /\ ToSet(mab) = {Module} \cup (ToSet(a) \cup ToSet(b))
    <2>1. mab \in Seq(U) /\ ToSet(mab) = ToSet(m) \cup ToSet(ab)
      BY <1>5, <1>6, ItemsOfConcat
    <2> QED
      BY <1>5, <1>6, <2>1
  <1>8. Candidates(s) \in Seq(U)
        /\ ToSet(Candidates(s)) = {Module} \cup (ToSet(a) \cup ToSet(b)) \cup ToSet(c)
    <2>1. Candidates(s) = mab \o c
      BY <1>3 DEF m, ab
    <2> HIDE DEF mab
    <2>2. mab \o c \in Seq(U) /\ ToSet(mab \o c) = ToSet(mab) \cup ToSet(c)
      BY <1>4, <1>7, ItemsOfConcat
    <2> QED
      BY <1>7, <2>1, <2>2
  <1>9. ToSet(Candidates(s)) = U
    BY <1>1, <1>2, <1>8
  <1>10. U \subseteq Paths
    <2>1. S \subseteq Steps
      BY ItemsOf
    <2>2. \A st \in S : st.do \in {"context", "include", "copy"} => st.path \in Paths
      BY <2>1, StepsAssumption DEF StepsAssumption
    <2>3. Module \in Paths
      BY TreeAssumption DEF TreeAssumption, Paths
    <2> QED
      BY <2>2, <2>3 DEF U, ListedSet, PathSet
  <1> QED
    BY <1>1, <1>2, <1>8, <1>9, <1>10 DEF U

\* The files of I as they are sorted.
InOrder(I) ==
    LET Add(sorted, f) == IF f \in I THEN Append(sorted, f) ELSE sorted
    IN FoldLeft(Add, <<>>, ByName)

\* Sorted is the files that were kept, in the order of their names.
LEMMA SortedInOrder ==
    ASSUME NEW r
    PROVE  Sorted(r) = InOrder(included[r])
  BY Zenon DEF Sorted, InOrder, FoldLeft, MapThenFoldSet

\* It has each of them once, and never one that was not kept.
LEMMA InOrderIs ==
    ASSUME NEW I, I \subseteq Files
    PROVE  InOrder(I) \in Seq(I) /\ ToSet(InOrder(I)) = I
  <1> DEFINE s == ByName
             n == Len(s)
             K == {i \in 1..n : s[i] \in I}
             f == [i \in 1..n |-> s[i]]
             P(h) == h = [S \in SUBSET DOMAIN s |->
                            IF S = {} THEN <<>>
                            ELSE IF s[Max(S)] \in I
                                 THEN Append(h[S \ {Max(S)}], s[Max(S)])
                                 ELSE h[S \ {Max(S)}]]
             H == CHOOSE h : P(h)
  <1>0. s \in Seq(Files) /\ ToSet(s) = Files
    BY TreeAssumption DEF TreeAssumption
  <1>1. n \in Nat /\ DOMAIN s = 1..n /\ f \in [1..n -> Files]
    BY <1>0
  <1>2. InOrder(I) = H[1..n]
    <2>1. InOrder(I) = H[DOMAIN s]
      BY Zenon DEF InOrder, FoldLeft, MapThenFoldSet
    <2> QED
      BY <1>1, <2>1
  <1>9. Files = {s[i] : i \in 1..n}
    BY <1>0, ItemsOf
  <1> HIDE DEF n, H, s
  <1>3. \A S \in SUBSET (1..n) : S # {} =>
            /\ s[Max(S)] \in I <=> Max(S) \in K
            /\ s[Max(S)] = f[Max(S)]
    BY <1>1, MaxIsLast
  <1>10. \A i \in 1..n : f[i] = s[i] /\ (i \in K <=> s[i] \in I)
    OBVIOUS
  <1> HIDE DEF K, f
  <1>4. PICK h : Filters(h, n, K, f)
    <2>1. n \in Nat /\ f \in [1..n -> Files]
      BY <1>1
    <2> QED
      BY <2>1, FilterExists, Zenon
  <1>5. P(h)
    BY <1>1, <1>3, <1>4 DEF Filters
  <1>6. P(H)
    BY <1>5 DEF H
  <1>7. Filters(H, n, K, f)
    BY <1>1, <1>3, <1>6 DEF Filters
  <1>8. H[1..n] \in Seq(Files) /\ \E at : Picks(H[1..n], at, n, K, f)
    <2>1. n \in Nat /\ f \in [1..n -> Files]
      BY <1>1
    <2> QED
      BY <2>1, <1>7, FilterPicks, Zenon
  <1> DEFINE p == InOrder(I)
  <1>11. p \in Seq(Files) /\ \E at : Picks(p, at, n, K, f)
    BY <1>2, <1>8, Zenon
  <1> HIDE DEF p
  <1>12. p \in Seq(ToSet(p))
    BY <1>11, ItemsOf
  <1>13. AllAt(ToSet(p), n, K, f)
    <2>1. n \in Nat /\ p \in Seq(Files)
      BY <1>1, <1>11
    <2>2. PICK at : Picks(p, at, n, K, f)
      BY <1>11
    <2> QED
      BY <2>1, <2>2, PickedItems
  <1>14. ToSet(p) = I
    BY <1>9, <1>10, <1>13 DEF AllAt
  <1> QED
    BY <1>12, <1>14 DEF p

\* Two orders of one set of steps are of the same steps.
LEMMA SameSteps ==
    ASSUME NEW S, S \subseteq Steps, NEW s \in SetToSeqs(S)
    PROVE  s \in Seq(Steps) /\ ToSet(s) = S
  <1> DEFINE n == Cardinality(S)
             D == 1..n
  <1>1. IsFiniteSet(S) /\ n \in Nat
    BY StepsAssumption, FS_Subset, FS_CardinalityType DEF StepsAssumption
  <1>2. s \in [D -> S] /\ \A i, j \in D : i # j => s[i] # s[j]
    BY DEF SetToSeqs
  <1> HIDE DEF n
  <1>3. s \in Injection(D, S)
    BY <1>2 DEF Injection, IsInjective
  <1>4. Cardinality(D) = n
    BY <1>1, FS_Interval
  <1>5. s \in Surjection(D, S)
    BY <1>1, <1>3, <1>4, FS_Injection DEF n
  <1>6. \A x \in S : \E i \in D : s[i] = x
    BY <1>5 DEF Surjection
  <1>7. s \in Seq(Steps) /\ DOMAIN s = D
    BY <1>1, <1>2
  <1> QED
    BY <1>2, <1>6, <1>7 DEF ToSet

-----------------------------------------------------------------------------
\* The packaging of a workload.

Outcomes == {"none", "archive", "too large", "FileNotFoundError", "ValueError"}
Errors == {"FileNotFoundError", "ValueError"}
Entries == ({Dockerfile} \X {Directives(script[r]) : r \in Runs}) \cup {<<f, <<f>>>> : f \in Files}

\* What decides, of the paths listed, how a packaging ends if no file vanishes:
\* that a path leads nowhere or outside, and what the files kept and the
\* directives come to.
Refused(L) == \E c \in L : c \in Missing \/ \E f \in AllOf(c) : Target[f] \in Outside
Below(L) == UNION {AllOf(c) : c \in L}
Kept(L) == {Target[f] : f \in Below(L)} \ Ignored
Whole(first, files) ==
    [i \in 1..(Len(files) + 1) |-> IF i = 1 THEN <<Dockerfile, first>>
                                    ELSE <<files[i - 1], <<files[i - 1]>>>>]
Oversized(s) == TooLarge(Whole(Directives(s), InOrder(Kept(ToSet(Candidates(s))))))

\* A candidate behind: what is still there of it is inside and was found.
Collected(c, found, there) ==
    /\ c \notin Missing /\ AllOf(c) \subseteq Files
    /\ \A f \in AllOf(c) : Target[f] \in there => Target[f] \notin Outside /\ Target[f] \in found

\* The archive is the Dockerfile and the first files; the others are to do.
Written(first, files, t, arc) ==
    /\ Len(arc) >= 1 /\ Len(arc) - 1 + Len(t) = Len(files)
    /\ arc[1] = <<Dockerfile, first>>
    /\ \A i \in 2..Len(arc) : arc[i] = <<files[i - 1], <<files[i - 1]>>>>
    /\ \A i \in 1..Len(t) : t[i] = files[Len(arc) - 1 + i]

\* Where a packaging stands: while it collects, at its Dockerfile, while it
\* writes, and how it ended.
RunOk(s, t, inc, exc, arc, out, there) ==
    LET L == ToSet(Candidates(s))
        Done(c) == Collected(c, inc \cup exc, there)
    IN  /\ inc \cup exc \subseteq {Target[f] : f \in Below(L) \cap Files}
        /\ inc \cap Ignored = {} /\ exc \subseteq Ignored
        /\ out = "none" /\ arc = <<>> => ToSet(t) \subseteq L /\ \A c \in L : c \in ToSet(t) \/ Done(c)
        /\ (out = "none" /\ arc # <<>>) \/ out = "archive" =>
              Written(Directives(s), InOrder(inc), t, arc) /\ \A c \in L : Done(c)
        /\ out = "archive" => t = <<>> /\ ~TooLarge(arc)
        /\ out \in Errors => ~(Removable \subseteq there) \/ Refused(L)
        /\ out = "too large" => \/ ~(Removable \subseteq there)
                                \/ ~Refused(L) /\ Oversized(s) /\ inc = Kept(L)

RunInv(r) ==
    RunOk(script[r], todo[r], included[r], excluded[r], archive[r], outcome[r], present)

\* What the packagings range over; only what may be deleted is gone.
PackTyped ==
    /\ script \in [Runs -> Seq(Steps)] /\ ToSet(script[1]) = ToSet(script[2])
    /\ todo \in [Runs -> Seq(Paths)]
    /\ included \in [Runs -> SUBSET Files] /\ excluded \in [Runs -> SUBSET Files]
    /\ archive \in [Runs -> Seq(Entries)] /\ outcome \in [Runs -> Outcomes]
    /\ {Target[f] : f \in Files} \ present \subseteq Removable

PackInv == PackTyped /\ \A r \in Runs : RunInv(r)

\* When nothing has vanished, what was kept is decided by the paths.
LEMMA KeptAre ==
    ASSUME NEW L, NEW inc, NEW exc,
           inc \cup exc \subseteq {Target[f] : f \in Below(L) \cap Files},
           inc \cap Ignored = {}, exc \subseteq Ignored,
           {Target[f] : f \in Files} \subseteq present,
           \A c \in L : Collected(c, inc \cup exc, present)
    PROVE  inc = Kept(L)
  <1>1. \A f \in Below(L) : f \in Files /\ Target[f] \in inc \cup exc
    BY DEF Below, Collected
  <1> QED
    BY <1>1 DEF Kept

\* An archive with nothing left to do is the whole one.
LEMMA WrittenIsWhole ==
    ASSUME NEW E, NEW F, NEW first, NEW files \in Seq(F), NEW arc \in Seq(E),
           Written(first, files, <<>>, arc)
    PROVE  arc = Whole(first, files)
  <1> DEFINE m == Len(arc)
             n == Len(files)
  <1>1. m \in Nat /\ n \in Nat /\ DOMAIN arc = 1..m /\ arc = [i \in 1..m |-> arc[i]]
    OBVIOUS
  <1>2. m - 1 + 0 = n
    BY DEF Written
  <1>3. /\ arc[1] = <<Dockerfile, first>>
        /\ \A i \in 2..m : arc[i] = <<files[i - 1], <<files[i - 1]>>>>
    BY DEF Written
  <1> HIDE DEF m, n
  <1>4. m = n + 1
    BY <1>1, <1>2
  <1>5. ASSUME NEW i \in 1..m
        PROVE  arc[i] = IF i = 1 THEN <<Dockerfile, first>> ELSE <<files[i - 1], <<files[i - 1]>>>>
    <2>1. i = 1 \/ i \in 2..m
      BY <1>1
    <2> QED
      BY <1>3, <2>1
  <1>6. arc = [i \in 1..m |-> IF i = 1 THEN <<Dockerfile, first>>
                              ELSE <<files[i - 1], <<files[i - 1]>>>>]
    BY <1>1, <1>5
  <1> QED
    BY <1>4, <1>6 DEF Whole, n

\* Paths that were all collected are accepted, if nothing has vanished.
LEMMA NotRefused ==
    ASSUME NEW L, NEW found, {Target[f] : f \in Files} \subseteq present,
           \A c \in L : Collected(c, found, present)
    PROVE  ~Refused(L)
  BY DEF Refused, Collected

\* Nothing has been collected at first.
LEMMA PackStart == PackInit => PackInv
  <1> SUFFICES ASSUME PackInit PROVE PackInv
    OBVIOUS
  <1>0. PICK S \in SUBSET Steps : \E s, t \in SetToSeqs(S) :
          script = [r \in Runs |-> IF r = 1 THEN s ELSE t]
    BY DEF PackInit
  <1>1. PICK s \in SetToSeqs(S), t \in SetToSeqs(S) :
          script = [r \in Runs |-> IF r = 1 THEN s ELSE t]
    BY <1>0
  <1>2. s \in Seq(Steps) /\ t \in Seq(Steps) /\ ToSet(s) = S /\ ToSet(t) = S
    BY SameSteps
  <1>3. script \in [Runs -> Seq(Steps)] /\ ToSet(script[1]) = ToSet(script[2])
    BY <1>1, <1>2 DEF Runs
  <1>4. \A r \in Runs :
          /\ todo[r] = Candidates(script[r]) /\ included[r] = {} /\ excluded[r] = {}
          /\ archive[r] = <<>> /\ outcome[r] = "none"
    BY DEF PackInit
  <1>5. \A r \in Runs : Candidates(script[r]) \in Seq(Paths)
    <2> SUFFICES ASSUME NEW r \in Runs PROVE Candidates(script[r]) \in Seq(Paths)
      OBVIOUS
    <2>1. script[r] \in Seq(Steps)
      BY <1>3
    <2>2. Candidates(script[r]) \in Seq(ToSet(Candidates(script[r])))
          /\ ToSet(Candidates(script[r])) \subseteq Paths
      BY <2>1, CandidatesAre
    <2> HIDE DEF PackInv
    <2> QED
      BY <2>2
  <1>6. PackTyped
    <2>1. todo \in [Runs -> Seq(Paths)]
      BY <1>5 DEF PackInit
    <2>2. included \in [Runs -> SUBSET Files] /\ excluded \in [Runs -> SUBSET Files]
          /\ archive \in [Runs -> Seq(Entries)] /\ outcome \in [Runs -> Outcomes]
      BY DEF PackInit, Outcomes
    <2>3. {Target[f] : f \in Files} \ present \subseteq Removable
      BY DEF PackInit
    <2> QED
      BY <1>3, <2>1, <2>2, <2>3 DEF PackTyped
  <1>7. ASSUME NEW r \in Runs PROVE RunInv(r)
    BY <1>4 DEF RunInv, RunOk, Errors
  <1> QED
    BY <1>6, <1>7 DEF PackInv

\* What is there of a candidate.
LEMMA FilesAre ==
    ASSUME NEW c \in Paths, c \notin Missing
    PROVE  /\ AllOf(c) \subseteq Files /\ FilesOf(c) \subseteq AllOf(c)
           /\ ~Nothing(c) => \A f \in AllOf(c) : Target[f] \in present => f \in FilesOf(c)
  BY TreeAssumption DEF TreeAssumption, Paths, AllOf, FilesOf, Nothing

\* What an archive may have in it depends on the scripts only.
LEMMA SameEntries == script' = script => Entries' = Entries
  BY DEF Entries

\* A turn leaves the other packaging as it is.
LEMMA OtherRun ==
    ASSUME NEW r \in Runs, RunInv(r), script' = script, present' = present,
           todo'[r] = todo[r], included'[r] = included[r], excluded'[r] = excluded[r],
           archive'[r] = archive[r], outcome'[r] = outcome[r]
    PROVE  RunInv(r)'
  BY DEF RunInv

\* A turn of the collection adds what is below the candidate, or ends in an error.
LEMMA CollectStep ==
    ASSUME PackInv, NEW r \in Runs, Collect(r)
    PROVE  PackInv'
  <1> DEFINE s == script[r]
             L == ToSet(Candidates(s))
             c == Head(todo[r])
             kept == {Target[f] : f \in {g \in FilesOf(c) : ~_should_ignore(g)}}
             left == {Target[f] : f \in {g \in FilesOf(c) : _should_ignore(g)}}
  <1>1. PackTyped /\ RunInv(r) /\ \A q \in Runs : RunInv(q)
    BY DEF PackInv
  <1>2. /\ outcome[r] = "none" /\ todo[r] # <<>> /\ archive[r] = <<>>
        /\ todo' = [todo EXCEPT ![r] = Tail(@)]
        /\ script' = script /\ archive' = archive /\ present' = present
    BY DEF Collect, Working
  <1>3. todo[r] \in Seq(Paths) /\ s \in Seq(Steps)
    BY <1>1 DEF PackTyped
  <1>4. c \in Paths /\ Tail(todo[r]) \in Seq(Paths)
        /\ ToSet(todo[r]) = {c} \cup ToSet(Tail(todo[r]))
    BY <1>2, <1>3, TailItems
  <1>5. ToSet(todo[r]) \subseteq L /\ c \in L
        /\ \A d \in L : d \in ToSet(todo[r]) \/ Collected(d, included[r] \cup excluded[r], present)
    BY <1>1, <1>2, <1>4 DEF RunInv, RunOk
  <1>6. \A q \in Runs : q # r => todo'[q] = todo[q]
    BY <1>1, <1>2 DEF PackTyped
  <1>7. todo' \in [Runs -> Seq(Paths)] /\ todo'[r] = Tail(todo[r])
    BY <1>1, <1>2, <1>4 DEF PackTyped
  <1>8. ASSUME outcome' = [outcome EXCEPT ![r] = "FileNotFoundError"] \/ outcome' = [outcome EXCEPT ![r] = "ValueError"],
               ~(Removable \subseteq present) \/ Refused(L),
               UNCHANGED <<included, excluded>>
        PROVE  PackInv'
    <2>1. outcome' \in [Runs -> Outcomes] /\ outcome'[r] \in Errors
          /\ \A q \in Runs : q # r => outcome'[q] = outcome[q]
      BY <1>1, <1>8 DEF PackTyped, Outcomes, Errors
    <2>2. PackTyped'
      BY <1>1, <1>2, <1>7, <1>8, <2>1, SameEntries DEF PackTyped
    <2>3. RunInv(r)'
      <3>1. RunOk(s, Tail(todo[r]), included[r], excluded[r], archive[r], outcome'[r], present)
        <4>1. outcome'[r] \notin {"none", "archive", "too large"}
          BY <2>1 DEF Errors
        <4> QED
          BY <1>1, <1>8, <4>1 DEF RunInv, RunOk
      <3> QED
        BY <1>2, <1>7, <1>8, <3>1 DEF RunInv
    <2>4. ASSUME NEW q \in Runs, q # r PROVE RunInv(q)'
      BY <1>1, <1>2, <1>6, <1>8, <2>1, <2>4, OtherRun
    <2> QED
      BY <2>2, <2>3, <2>4 DEF PackInv
  <1>9. CASE Nothing(c) /\ outcome' = [outcome EXCEPT ![r] = "FileNotFoundError"] /\ UNCHANGED <<included, excluded>>
    <2>1. ~(Removable \subseteq present) \/ Refused(L)
      <3>1. CASE c \in Missing
        BY <1>5, <3>1 DEF Refused
      <3>2. CASE c \in Files /\ Target[c] \notin present
        BY <1>1, <3>2 DEF PackTyped
      <3> QED
        BY <1>9, <3>1, <3>2 DEF Nothing
    <2> QED
      BY <1>8, <1>9, <2>1
  <1>10. CASE /\ ~Nothing(c) /\ LeavesCwd(c)
              /\ outcome' = [outcome EXCEPT ![r] = "ValueError"] /\ UNCHANGED <<included, excluded>>
    <2>1. c \notin Missing
      BY <1>10 DEF Nothing
    <2>2. Refused(L)
      BY <1>4, <1>5, <1>10, <2>1, FilesAre DEF Refused, LeavesCwd
    <2> QED
      BY <1>8, <1>10, <2>2
  <1>11. CASE /\ ~Nothing(c) /\ ~LeavesCwd(c)
              /\ included' = [included EXCEPT ![r] = @ \cup kept]
              /\ excluded' = [excluded EXCEPT ![r] = @ \cup left]
              /\ outcome' = outcome
    <2>1. /\ c \notin Missing /\ AllOf(c) \subseteq Files /\ FilesOf(c) \subseteq AllOf(c)
          /\ \A f \in AllOf(c) : Target[f] \in present => f \in FilesOf(c)
      BY <1>4, <1>11, FilesAre DEF Nothing
    <2>2. /\ included'[r] = included[r] \cup kept /\ excluded'[r] = excluded[r] \cup left
          /\ \A q \in Runs : q # r => included'[q] = included[q] /\ excluded'[q] = excluded[q]
      BY <1>1, <1>11 DEF PackTyped
    <2>3. kept \subseteq Files /\ left \subseteq Files
      BY <2>1, TreeAssumption DEF TreeAssumption
    <2>4. PackTyped'
      <3>1. included' \in [Runs -> SUBSET Files] /\ excluded' \in [Runs -> SUBSET Files]
        BY <1>1, <1>11, <2>3 DEF PackTyped
      <3> HIDE DEF kept, left
      <3> QED
        BY <1>1, <1>2, <1>7, <1>11, <3>1, SameEntries DEF PackTyped
    <2>5. \A t \in kept : t \notin Ignored /\ \E f \in Below(L) \cap Files : t = Target[f]
      BY <1>5, <2>1 DEF _should_ignore, Below
    <2>6. \A t \in left : t \in Ignored /\ \E f \in Below(L) \cap Files : t = Target[f]
      BY <1>5, <2>1 DEF _should_ignore, Below
    <2>7. \A f \in FilesOf(c) : Target[f] \notin Outside /\ Target[f] \in kept \cup left
      BY <1>11 DEF LeavesCwd
    <2> DEFINE inc == included'[r]
               exc == excluded'[r]
    <2> HIDE DEF kept, left
    <2>8. Collected(c, inc \cup exc, present)
      BY <2>1, <2>2, <2>7 DEF Collected
    <2>9. ASSUME NEW d \in L PROVE d \in ToSet(Tail(todo[r])) \/ Collected(d, inc \cup exc, present)
      <3>1. CASE d = c
        BY <2>8, <3>1
      <3>2. CASE Collected(d, included[r] \cup excluded[r], present)
        BY <2>2, <3>2 DEF Collected
      <3> QED
        BY <1>4, <1>5, <3>1, <3>2
    <2>10. /\ inc \cup exc \subseteq {Target[f] : f \in Below(L) \cap Files}
           /\ inc \cap Ignored = {} /\ exc \subseteq Ignored
      <3>1. /\ included[r] \cup excluded[r] \subseteq {Target[f] : f \in Below(L) \cap Files}
            /\ included[r] \cap Ignored = {} /\ excluded[r] \subseteq Ignored
        BY <1>1 DEF RunInv, RunOk
      <3> HIDE DEF L
      <3> QED
        BY <2>2, <2>5, <2>6, <3>1
    <2> HIDE DEF inc, exc
    <2>11. ToSet(Tail(todo[r])) \subseteq L
      BY <1>4, <1>5
    <2>12. RunOk(s, Tail(todo[r]), inc, exc, archive[r], outcome[r], present)
      BY <1>2, <2>9, <2>10, <2>11 DEF RunOk, Errors
    <2>13. RunInv(r)'
      BY <1>2, <1>7, <1>11, <2>12 DEF RunInv, inc, exc
    <2>14. ASSUME NEW q \in Runs, q # r PROVE RunInv(q)'
      BY <1>1, <1>2, <1>6, <1>11, <2>2, <2>14, OtherRun
    <2> QED
      BY <2>4, <2>13, <2>14 DEF PackInv
  <1> QED
    BY <1>9, <1>10, <1>11 DEF Collect

\* The Dockerfile comes first, if not too many files were kept.
LEMMA DockerfileStep ==
    ASSUME PackInv, NEW r \in Runs, WriteDockerfile(r)
    PROVE  PackInv'
  <1> DEFINE s == script[r]
             L == ToSet(Candidates(s))
             files == InOrder(included[r])
             first == <<Dockerfile, Directives(s)>>
  <1>1. PackTyped /\ RunInv(r) /\ \A q \in Runs : RunInv(q)
    BY DEF PackInv
  <1>2. /\ outcome[r] = "none" /\ todo[r] = <<>> /\ archive[r] = <<>>
        /\ archive' = [archive EXCEPT ![r] = <<first>>]
        /\ todo' = [todo EXCEPT ![r] = files]
        /\ UNCHANGED <<script, included, excluded, outcome, present>>
    BY SortedInOrder DEF WriteDockerfile, Working
  <1>3. included[r] \subseteq Files /\ Files \subseteq Paths
    BY <1>1 DEF PackTyped, Paths
  <1>4. files \in Seq(Paths)
    <2>1. files \in Seq(included[r])
      BY <1>3, InOrderIs
    <2> HIDE DEF files
    <2> QED
      BY <1>3, <2>1
  <1>5. first \in Entries
    BY DEF Entries
  <1> HIDE DEF files, first
  <1>6. /\ <<first>> \in Seq(Entries) /\ <<first>> # <<>> /\ Len(<<first>>) = 1
        /\ <<first>>[1] = first /\ Len(files) \in Nat
    BY <1>4, <1>5
  <1>7. /\ archive'[r] = <<first>> /\ todo'[r] = files
        /\ \A q \in Runs : q # r => archive'[q] = archive[q] /\ todo'[q] = todo[q]
        /\ todo' \in [Runs -> Seq(Paths)] /\ archive' \in [Runs -> Seq(Entries)]
    BY <1>1, <1>2, <1>4, <1>6 DEF PackTyped
  <1>8. PackTyped'
    BY <1>1, <1>2, <1>7, SameEntries DEF PackTyped
  <1>9. Written(Directives(s), files, files, <<first>>)
    <2>1. \A i \in 1..Len(files) : 1 - 1 + i = i
      OBVIOUS
    <2>2. 2..1 = {} /\ 1 - 1 + Len(files) = Len(files)
      BY <1>6
    <2> QED
      BY <1>6, <2>1, <2>2 DEF Written, first
  <1>10. ToSet(todo[r]) = {}
    BY <1>2 DEF ToSet
  <1>11. RunOk(s, files, included[r], excluded[r], <<first>>, outcome[r], present)
    BY <1>1, <1>2, <1>6, <1>9, <1>10 DEF RunInv, RunOk, Errors, files
  <1>12. RunInv(r)'
    BY <1>2, <1>7, <1>11 DEF RunInv
  <1>13. ASSUME NEW q \in Runs, q # r PROVE RunInv(q)'
    BY <1>1, <1>2, <1>7, <1>13, OtherRun
  <1> QED
    BY <1>8, <1>12, <1>13 DEF PackInv

\* The next file goes into the archive.
LEMMA WrittenStep ==
    ASSUME NEW E, NEW F, NEW first, NEW files \in Seq(F), NEW t \in Seq(F), NEW arc \in Seq(E), t # <<>>,
           Written(first, files, t, arc), <<Head(t), <<Head(t)>>>> \in E
    PROVE  LET more == Append(arc, <<Head(t), <<Head(t)>>>>)
           IN  Written(first, files, Tail(t), more) /\ more \in Seq(E) /\ more # <<>>
  <1> DEFINE e == <<Head(t), <<Head(t)>>>>
             more == Append(arc, e)
             m == Len(arc)
             n == Len(t)
             u == Tail(t)
  <1>1. /\ m \in Nat /\ n \in Nat /\ n >= 1 /\ m >= 1 /\ Len(files) \in Nat /\ m - 1 + n = Len(files)
        /\ arc[1] = <<Dockerfile, first>>
        /\ \A i \in 2..m : arc[i] = <<files[i - 1], <<files[i - 1]>>>>
        /\ \A i \in 1..n : t[i] = files[m - 1 + i]
    BY DEF Written
  <1>2. /\ u \in Seq(F) /\ Len(u) = n - 1 /\ \A i \in 1..(n - 1) : u[i] = t[i + 1]
        /\ Head(t) = t[1]
    OBVIOUS
  <1>3. /\ more \in Seq(E) /\ Len(more) = m + 1 /\ more[m + 1] = e
        /\ \A i \in 1..m : more[i] = arc[i]
    OBVIOUS
  <1>4. Head(t) = files[m]
    <2>1. 1 \in 1..n /\ m - 1 + 1 = m
      BY <1>1
    <2> QED
      BY <1>1, <1>2, <2>1
  <1>5. e = <<files[m], <<files[m]>>>>
    BY <1>4
  <1> HIDE DEF e, more, m, n, u
  <1>6. more[1] = <<Dockerfile, first>>
    BY <1>1, <1>3
  <1>7. ASSUME NEW i \in 2..(m + 1) PROVE more[i] = <<files[i - 1], <<files[i - 1]>>>>
    <2>1. CASE i = m + 1
      <3>1. i - 1 = m
        BY <1>1, <2>1
      <3> QED
        BY <1>3, <1>5, <2>1, <3>1
    <2>2. CASE i \in 2..m
      <3>1. i \in 1..m
        BY <1>1, <2>2
      <3> QED
        BY <1>1, <1>3, <2>2, <3>1
    <2> QED
      BY <1>1, <2>1, <2>2
  <1>8. ASSUME NEW i \in 1..(n - 1) PROVE u[i] = files[m + i]
    <2>1. i + 1 \in 1..n /\ m - 1 + (i + 1) = m + i
      BY <1>1
    <2> QED
      BY <1>1, <1>2, <2>1
  <1>9. Written(first, files, u, more)
    <2>1. /\ Len(more) >= 1 /\ Len(more) - 1 + Len(u) = Len(files)
          /\ Len(more) - 1 = m
      BY <1>1, <1>2, <1>3
    <2> QED
      BY <1>2, <1>3, <1>6, <1>7, <1>8, <2>1 DEF Written
  <1>10. more # <<>>
    <2>1. Len(more) # 0
      BY <1>1, <1>3
    <2> QED
      BY <2>1
  <1> QED
    BY <1>3, <1>9, <1>10 DEF more, e, u

\* A file is there and is written, or has vanished and ends the packaging.
LEMMA FileStep ==
    ASSUME PackInv, NEW r \in Runs, WriteFile(r)
    PROVE  PackInv'
  <1> DEFINE s == script[r]
             L == ToSet(Candidates(s))
             files == InOrder(included[r])
             t == todo[r]
             f == Head(t)
             arc == archive[r]
             more == Append(arc, <<f, <<f>>>>)
  <1>1. PackTyped /\ RunInv(r) /\ \A q \in Runs : RunInv(q)
    BY DEF PackInv
  <1>2. /\ outcome[r] = "none" /\ t # <<>> /\ arc # <<>>
        /\ todo' = [todo EXCEPT ![r] = Tail(@)]
        /\ UNCHANGED <<script, included, excluded, present>>
    BY DEF WriteFile, Working
  <1>3. \/ f \in present /\ archive' = [archive EXCEPT ![r] = more] /\ outcome' = outcome
        \/ f \notin present /\ archive' = [archive EXCEPT ![r] = <<>>]
           /\ outcome' = [outcome EXCEPT ![r] = "FileNotFoundError"]
    BY <1>1 DEF WriteFile, PackTyped
  <1>4. included[r] \subseteq Files /\ Files \subseteq Paths /\ t \in Seq(Paths) /\ arc \in Seq(Entries)
    BY <1>1 DEF PackTyped, Paths
  <1>5. files \in Seq(included[r]) /\ ToSet(files) = included[r]
    BY <1>4, InOrderIs
  <1>6. Written(Directives(s), files, t, arc)
    BY <1>1, <1>2 DEF RunInv, RunOk
  <1> HIDE DEF files
  <1>7. f \in included[r]
    <2>1. /\ 1 \in 1..Len(t) /\ f = t[1] /\ Len(arc) \in Nat /\ Len(arc) >= 1
          /\ Len(arc) - 1 + Len(t) = Len(files) /\ t[1] = files[Len(arc) - 1 + 1]
      <3>1. Len(t) \in Nat /\ Len(t) >= 1 /\ f = t[1] /\ Len(arc) \in Nat
        BY <1>2, <1>4
      <3> HIDE DEF f, t, arc
      <3>2. 1 \in 1..Len(t)
        BY <3>1
      <3> QED
        BY <1>6, <3>1, <3>2 DEF Written
    <2>2. Len(arc) \in 1..Len(files) /\ Len(arc) - 1 + 1 = Len(arc)
      <3>1. \A a, b, c \in Nat : a >= 1 /\ b >= 1 /\ a - 1 + b = c => a \in 1..c /\ a - 1 + 1 = a
        OBVIOUS
      <3>2. Len(t) \in Nat /\ Len(t) >= 1 /\ Len(files) \in Nat
        BY <1>2, <1>4, <1>5
      <3> QED
        BY <2>1, <3>1, <3>2
    <2> QED
      BY <1>5, <2>1, <2>2
  <1>8. <<f, <<f>>>> \in Entries
    BY <1>4, <1>7 DEF Entries
  <1>9. files \in Seq(Paths)
    BY <1>4, <1>5
  <1>10. Tail(t) \in Seq(Paths)
    BY <1>2, <1>4
  <1> HIDE DEF f
  <1>11. /\ todo' \in [Runs -> Seq(Paths)] /\ todo'[r] = Tail(t)
         /\ \A q \in Runs : q # r => todo'[q] = todo[q]
    BY <1>1, <1>2, <1>10 DEF PackTyped
  <1>12. CASE f \in present /\ archive' = [archive EXCEPT ![r] = more] /\ outcome' = outcome
    <2>1. Written(Directives(s), files, Tail(t), more) /\ more \in Seq(Entries) /\ more # <<>>
      <3> DEFINE first == Directives(s)
                 E == Entries
                 F == Paths
      <3>1. /\ files \in Seq(F) /\ t \in Seq(F) /\ arc \in Seq(E) /\ t # <<>>
            /\ Written(first, files, t, arc) /\ <<Head(t), <<Head(t)>>>> \in E
        BY <1>2, <1>4, <1>6, <1>8, <1>9 DEF f
      <3> HIDE DEF first, E, F, t, arc
      <3>2. LET next == Append(arc, <<Head(t), <<Head(t)>>>>)
            IN  Written(first, files, Tail(t), next) /\ next \in Seq(E) /\ next # <<>>
        BY <3>1, WrittenStep
      <3> QED
        BY <3>2 DEF f, first, E
    <2> HIDE DEF more
    <2>2. /\ archive' \in [Runs -> Seq(Entries)] /\ archive'[r] = more
          /\ \A q \in Runs : q # r => archive'[q] = archive[q]
      BY <1>1, <1>12, <2>1 DEF PackTyped
    <2>3. PackTyped'
      BY <1>1, <1>2, <1>11, <1>12, <2>2, SameEntries DEF PackTyped
    <2>4. RunOk(s, Tail(t), included[r], excluded[r], more, outcome[r], present)
      BY <1>1, <1>2, <2>1 DEF RunInv, RunOk, Errors, files
    <2>5. RunInv(r)'
      BY <1>2, <1>11, <1>12, <2>2, <2>4 DEF RunInv
    <2>6. ASSUME NEW q \in Runs, q # r PROVE RunInv(q)'
      BY <1>1, <1>2, <1>11, <1>12, <2>2, <2>6, OtherRun
    <2> QED
      BY <2>3, <2>5, <2>6 DEF PackInv
  <1>13. CASE f \notin present /\ archive' = [archive EXCEPT ![r] = <<>>]
              /\ outcome' = [outcome EXCEPT ![r] = "FileNotFoundError"]
    <2>1. ~(Removable \subseteq present)
      <3>1. f \in {Target[g] : g \in Files}
        BY <1>1, <1>7 DEF RunInv, RunOk
      <3> QED
        BY <1>1, <1>13, <3>1 DEF PackTyped
    <2>2. /\ archive' \in [Runs -> Seq(Entries)] /\ archive'[r] = <<>>
          /\ outcome' \in [Runs -> Outcomes] /\ outcome'[r] = "FileNotFoundError"
          /\ \A q \in Runs : q # r => archive'[q] = archive[q] /\ outcome'[q] = outcome[q]
      <3>1. archive \in [Runs -> Seq(Entries)] /\ outcome \in [Runs -> Outcomes]
        BY <1>1 DEF PackTyped
      <3>2. <<>> \in Seq(Entries) /\ "FileNotFoundError" \in Outcomes
        BY DEF Outcomes
      <3> QED
        BY <1>13, <3>1, <3>2
    <2>3. PackTyped'
      BY <1>1, <1>2, <1>11, <2>2, SameEntries DEF PackTyped
    <2>4. RunOk(s, Tail(t), included[r], excluded[r], <<>>, "FileNotFoundError", present)
      BY <1>1, <2>1 DEF RunInv, RunOk
    <2>5. RunInv(r)'
      BY <1>2, <1>11, <2>2, <2>4 DEF RunInv
    <2>6. ASSUME NEW q \in Runs, q # r PROVE RunInv(q)'
      BY <1>1, <1>2, <1>11, <2>2, <2>6, OtherRun
    <2> QED
      BY <2>3, <2>5, <2>6 DEF PackInv
  <1> QED
    BY <1>3, <1>12, <1>13

\* The archive is finished when all files are in it.
LEMMA FinishStep ==
    ASSUME PackInv, NEW r \in Runs, Finish(r)
    PROVE  PackInv'
  <1> DEFINE s == script[r]
             L == ToSet(Candidates(s))
             files == InOrder(included[r])
             t == todo[r]
             arc == archive[r]
             Done(c) == Collected(c, included[r] \cup excluded[r], present)
  <1>1. PackTyped /\ RunInv(r) /\ \A q \in Runs : RunInv(q)
    BY DEF PackInv
  <1>2. /\ outcome[r] = "none" /\ t = <<>> /\ arc # <<>>
        /\ UNCHANGED <<script, todo, included, excluded, present>>
    BY DEF Finish, Working
  <1>3. \/ /\ TooLarge(arc) /\ archive' = [archive EXCEPT ![r] = <<>>]
           /\ outcome' = [outcome EXCEPT ![r] = "too large"]
        \/ /\ ~TooLarge(arc) /\ archive' = archive
           /\ outcome' = [outcome EXCEPT ![r] = "archive"]
    BY DEF Finish
  <1>4. /\ Written(Directives(s), files, t, arc) /\ \A c \in L : Done(c)
        /\ included[r] \cup excluded[r] \subseteq {Target[f] : f \in Below(L) \cap Files}
        /\ included[r] \cap Ignored = {} /\ excluded[r] \subseteq Ignored
    BY <1>1, <1>2 DEF RunInv, RunOk
  <1>5. arc = Whole(Directives(s), files)
    <2>1. arc \in Seq(Entries) /\ included[r] \subseteq Files
      BY <1>1 DEF PackTyped
    <2>2. files \in Seq(included[r])
      BY <2>1, InOrderIs
    <2> HIDE DEF files, arc
    <2>3. Written(Directives(s), files, <<>>, arc)
      BY <1>2, <1>4
    <2> DEFINE first == Directives(s)
               E == Entries
               F == included[r]
    <2> HIDE DEF first, E, F
    <2> QED
      BY <2>1, <2>2, <2>3, WrittenIsWhole DEF first, E, F
  <1>6. CASE /\ TooLarge(arc) /\ archive' = [archive EXCEPT ![r] = <<>>]
             /\ outcome' = [outcome EXCEPT ![r] = "too large"]
    <2>1. ASSUME Removable \subseteq present
          PROVE  ~Refused(L) /\ Oversized(s) /\ included[r] = Kept(L)
      <3>1. {Target[f] : f \in Files} \subseteq present
        BY <1>1, <2>1 DEF PackTyped
      <3>2. included[r] = Kept(L) /\ ~Refused(L)
        <4> HIDE DEF L
        <4> QED
          BY <1>4, <3>1, KeptAre, NotRefused
      <3>3. TooLarge(Whole(Directives(s), InOrder(Kept(L))))
        BY <1>5, <1>6, <3>2
      <3> QED
        BY <3>2, <3>3 DEF Oversized
    <2>2. /\ archive' \in [Runs -> Seq(Entries)] /\ archive'[r] = <<>>
          /\ outcome' \in [Runs -> Outcomes] /\ outcome'[r] = "too large"
          /\ \A q \in Runs : q # r => archive'[q] = archive[q] /\ outcome'[q] = outcome[q]
      <3>1. archive \in [Runs -> Seq(Entries)] /\ outcome \in [Runs -> Outcomes]
        BY <1>1 DEF PackTyped
      <3>2. <<>> \in Seq(Entries) /\ "too large" \in Outcomes
        BY DEF Outcomes
      <3> QED
        BY <1>6, <3>1, <3>2
    <2>3. PackTyped'
      BY <1>1, <1>2, <2>2, SameEntries DEF PackTyped
    <2>4. RunOk(s, t, included[r], excluded[r], <<>>, "too large", present)
      BY <1>4, <2>1 DEF RunOk, Errors
    <2>5. RunInv(r)'
      BY <1>2, <2>2, <2>4 DEF RunInv
    <2>6. ASSUME NEW q \in Runs, q # r PROVE RunInv(q)'
      BY <1>1, <1>2, <2>2, <2>6, OtherRun
    <2> QED
      BY <2>3, <2>5, <2>6 DEF PackInv
  <1>7. CASE /\ ~TooLarge(arc) /\ archive' = archive
             /\ outcome' = [outcome EXCEPT ![r] = "archive"]
    <2>2. /\ outcome' \in [Runs -> Outcomes] /\ outcome'[r] = "archive"
          /\ \A q \in Runs : q # r => outcome'[q] = outcome[q]
      BY <1>1, <1>7 DEF PackTyped, Outcomes
    <2>3. PackTyped'
      BY <1>1, <1>2, <1>7, <2>2, SameEntries DEF PackTyped
    <2>4. RunOk(s, t, included[r], excluded[r], arc, "archive", present)
      BY <1>2, <1>4, <1>7 DEF RunOk, Errors
    <2>5. RunInv(r)'
      BY <1>2, <1>7, <2>2, <2>4 DEF RunInv
    <2>6. ASSUME NEW q \in Runs, q # r PROVE RunInv(q)'
      BY <1>1, <1>2, <1>7, <2>2, <2>6, OtherRun
    <2> QED
      BY <2>3, <2>5, <2>6 DEF PackInv
  <1> QED
    BY <1>3, <1>6, <1>7

\* What has vanished is missed by nothing that was collected.
LEMMA VanishStep == ASSUME PackInv, Vanish PROVE PackInv'
  <1>1. PackTyped /\ \A r \in Runs : RunInv(r)
    BY DEF PackInv
  <1>2. PICK f \in Removable \cap present : present' = present \ {f}
    BY DEF Vanish
  <1>3. UNCHANGED <<script, todo, included, excluded, archive, outcome>>
    BY DEF Vanish
  <1>4. PackTyped'
    BY <1>1, <1>2, <1>3, SameEntries DEF PackTyped
  <1>5. ASSUME NEW r \in Runs PROVE RunInv(r)'
    <2>1. \A c, found : Collected(c, found, present) => Collected(c, found, present')
      BY <1>2 DEF Collected
    <2>2. ~(Removable \subseteq present')
      BY <1>2
    <2>3. RunOk(script[r], todo[r], included[r], excluded[r], archive[r], outcome[r], present)
      BY <1>1 DEF RunInv
    <2>4. RunOk(script[r], todo[r], included[r], excluded[r], archive[r], outcome[r], present')
      BY <2>1, <2>2, <2>3 DEF RunOk
    <2> QED
      BY <1>3, <2>4 DEF RunInv
  <1> QED
    BY <1>4, <1>5 DEF PackInv

\* Both packagings keep to it, in every order of their turns and deletions.
THEOREM PackagingInvariant == PackSpec => []PackInv
  <1>1. ASSUME PackInv, [PackNext]_pack_vars PROVE PackInv'
    <2>1. CASE UNCHANGED pack_vars
      BY <1>1, <2>1, SameEntries DEF pack_vars, PackInv, PackTyped, RunInv
    <2>2. CASE PackNext
      BY <1>1, <2>2, CollectStep, DockerfileStep, FileStep, FinishStep, VanishStep DEF PackNext
    <2> QED
      BY <1>1, <2>1, <2>2
  <1> QED
    BY <1>1, PackStart, PTL DEF PackSpec

\* The names in a finished archive.
LEMMA ArchiveNames ==
    ASSUME PackInv, NEW r \in Runs, outcome[r] = "archive"
    PROVE  /\ Names(r) = included[r] \cup {Dockerfile}
           /\ archive[r][1] = <<Dockerfile, Directives(script[r])>>
           /\ DOMAIN archive[r] = 1..Len(archive[r]) /\ Len(archive[r]) \in Nat /\ Len(archive[r]) >= 1
           /\ Len(archive[r]) - 1 = Len(InOrder(included[r]))
           /\ \A i \in 2..Len(archive[r]) :
                 archive[r][i] = <<InOrder(included[r])[i - 1], <<InOrder(included[r])[i - 1]>>>>
  <1> DEFINE arc == archive[r]
             m == Len(arc)
             inc == included[r]
             files == InOrder(inc)
  <1>1. PackTyped /\ RunInv(r)
    BY DEF PackInv
  <1>2. arc \in Seq(Entries) /\ m \in Nat /\ DOMAIN arc = 1..m /\ inc \subseteq Files
    BY <1>1 DEF PackTyped
  <1>3. Written(Directives(script[r]), files, todo[r], arc) /\ todo[r] = <<>>
    BY <1>1 DEF RunInv, RunOk
  <1>4. files \in Seq(inc) /\ ToSet(files) = inc
    BY <1>2, InOrderIs
  <1>5. /\ m >= 1 /\ arc[1] = <<Dockerfile, Directives(script[r])>>
        /\ \A i \in 2..m : arc[i] = <<files[i - 1], <<files[i - 1]>>>>
    BY <1>3 DEF Written
  <1>6. m - 1 = Len(files) /\ Len(files) \in Nat
    <2>1. Len(todo[r]) = 0
      BY <1>3
    <2>2. m - 1 + Len(todo[r]) = Len(files)
      BY <1>3 DEF Written
    <2>3. Len(files) \in Nat
      BY <1>4
    <2> HIDE DEF m, files
    <2> QED
      BY <1>2, <2>1, <2>2, <2>3
  <1>7. inc = {files[i] : i \in 1..Len(files)}
    BY <1>4, ItemsOf
  <1> HIDE DEF files, m
  <1>8. Names(r) = {arc[i][1] : i \in 1..m}
    BY <1>2 DEF Names
  <1>9. ASSUME NEW i \in 1..m PROVE arc[i][1] \in inc \cup {Dockerfile}
    <2>1. CASE i = 1
      BY <1>5, <2>1
    <2>2. CASE i # 1
      <3>1. i \in 2..m /\ i - 1 \in 1..Len(files)
        BY <1>2, <1>6, <2>2
      <3>2. arc[i][1] = files[i - 1]
        BY <1>5, <3>1
      <3> QED
        BY <1>7, <3>1, <3>2
    <2> QED
      BY <2>1, <2>2
  <1>10. 1 \in 1..m /\ arc[1][1] = Dockerfile
    BY <1>2, <1>5
  <1>11. ASSUME NEW f \in inc PROVE \E i \in 1..m : arc[i][1] = f
    <2>1. PICK k \in 1..Len(files) : f = files[k]
      BY <1>7
    <2>2. k + 1 \in 2..m /\ k + 1 \in 1..m /\ (k + 1) - 1 = k
      BY <1>2, <1>6
    <2>3. arc[k + 1] = <<files[k], <<files[k]>>>>
      BY <1>5, <2>2
    <2> QED
      BY <2>1, <2>2, <2>3
  <1>12. Names(r) = inc \cup {Dockerfile}
    <2> HIDE DEF inc, arc
    <2>1. \A x \in Names(r) : x \in inc \cup {Dockerfile}
      BY <1>8, <1>9
    <2>2. \A x \in inc \cup {Dockerfile} : x \in Names(r)
      BY <1>8, <1>10, <1>11
    <2> QED
      BY <2>1, <2>2
  <1> QED
    BY <1>2, <1>5, <1>6, <1>12 DEF files, m

\* An archive has every file below a path that the script names, or what was
\* left out by a pattern is reported; for every tree, script and pattern.
THEOREM ContextIsComplete == PackSpec => []ContextComplete
  <1>1. PackInv => ContextComplete
    <2> SUFFICES ASSUME PackInv, NEW r \in Runs, outcome[r] = "archive"
                 PROVE  LET there == {Target[f] : f \in Reached(r)} IN
                        /\ Listed(r) \cap Missing = {} /\ there \cap present \cap Outside = {}
                        /\ there \cap present \subseteq included[r] \cup excluded[r]
                        /\ included[r] \cup excluded[r] \subseteq there
                        /\ included[r] \cap Ignored = {} /\ excluded[r] \subseteq Ignored
                        /\ Names(r) = included[r] \cup {Dockerfile}
      BY DEF ContextComplete
    <2>1. Names(r) = included[r] \cup {Dockerfile}
      BY ArchiveNames
    <2> DEFINE L == ToSet(Candidates(script[r]))
    <2>2. /\ \A c \in L : Collected(c, included[r] \cup excluded[r], present)
          /\ included[r] \cup excluded[r] \subseteq {Target[f] : f \in Below(L) \cap Files}
          /\ included[r] \cap Ignored = {} /\ excluded[r] \subseteq Ignored
      BY DEF PackInv, RunInv, RunOk
    <2>3. Listed(r) = L /\ Reached(r) = Below(L)
      BY DEF Listed, Reached, Below
    <2> HIDE DEF L
    <2>4. \A f \in Below(L) : Target[f] \in present =>
              Target[f] \notin Outside /\ Target[f] \in included[r] \cup excluded[r]
      BY <2>2 DEF Below, Collected
    <2>5. L \cap Missing = {}
      BY <2>2 DEF Collected
    <2> QED
      BY <2>1, <2>2, <2>3, <2>4, <2>5
  <1> QED
    BY <1>1, PackagingInvariant, PTL

\* How a packaging ends when nothing vanishes is decided by the paths listed
\* and by what the archive would be.
LEMMA Decided ==
    ASSUME PackInv, NEW r \in Runs, outcome[r] # "none", Removable \subseteq present
    PROVE  /\ (outcome[r] = "archive") <=> ~Refused(Listed(r)) /\ ~Oversized(script[r])
           /\ (outcome[r] = "too large") <=> ~Refused(Listed(r)) /\ Oversized(script[r])
           /\ outcome[r] \in {"archive", "too large"} => included[r] = Kept(Listed(r))
  <1> DEFINE s == script[r]
             L == ToSet(Candidates(s))
             files == InOrder(included[r])
             arc == archive[r]
  <1>1. Listed(r) = L
    BY DEF Listed
  <1>2. RunOk(s, todo[r], included[r], excluded[r], arc, outcome[r], present)
    BY DEF PackInv, RunInv
  <1>3. {Target[f] : f \in Files} \subseteq present /\ outcome[r] \in Outcomes
        /\ included[r] \subseteq Files /\ arc \in Seq(Entries)
    BY DEF PackInv, PackTyped
  <1>4. CASE outcome[r] = "archive"
    <2>1. /\ \A c \in L : Collected(c, included[r] \cup excluded[r], present)
          /\ included[r] \cup excluded[r] \subseteq {Target[f] : f \in Below(L) \cap Files}
          /\ included[r] \cap Ignored = {} /\ excluded[r] \subseteq Ignored
          /\ ~TooLarge(arc) /\ Written(Directives(s), files, <<>>, arc)
      BY <1>2, <1>4 DEF RunOk
    <2>2. included[r] = Kept(L) /\ ~Refused(L)
      <3> HIDE DEF L
      <3> QED
        BY <1>3, <2>1, KeptAre, NotRefused
    <2>3. files \in Seq(included[r])
      BY <1>3, InOrderIs
    <2>4. arc = Whole(Directives(s), files)
      <3> DEFINE first == Directives(s)
                 E == Entries
                 F == included[r]
      <3> HIDE DEF first, E, F, files, arc
      <3> QED
        BY <1>3, <2>1, <2>3, WrittenIsWhole DEF first, E, F
    <2>5. ~Oversized(s)
      <3>1. ~TooLarge(Whole(Directives(s), InOrder(Kept(L))))
        BY <2>1, <2>2, <2>4
      <3> QED
        BY <3>1 DEF Oversized
    <2> QED
      BY <1>1, <1>4, <2>2, <2>5
  <1>5. CASE outcome[r] = "too large"
    <2>1. ~Refused(L) /\ Oversized(s) /\ included[r] = Kept(L)
      BY <1>2, <1>5 DEF RunOk
    <2> HIDE DEF L, s
    <2> QED
      BY <1>1, <1>5, <2>1 DEF s
  <1>6. CASE outcome[r] \notin {"archive", "too large"}
    <2>1. outcome[r] \in Errors
      BY <1>3, <1>6 DEF Outcomes, Errors
    <2>2. Refused(L)
      BY <1>2, <2>1 DEF RunOk
    <2> HIDE DEF L
    <2> QED
      BY <1>1, <1>6, <2>2
  <1> QED
    BY <1>4, <1>5, <1>6

\* The order of a script shows neither in the files it collects nor in whether
\* they are accepted, and in the archive, or in its being too large, only
\* through the directives.
THEOREM PackagingIsDeterministic == PackSpec => []Deterministic
  <1>1. PackInv => Deterministic
    <2> DEFINE Ends == {"archive", "too large"}
    <2> SUFFICES ASSUME PackInv, \A r \in Runs : outcome[r] # "none", Removable \subseteq present
                 PROVE  /\ (outcome[1] \in Ends) <=> (outcome[2] \in Ends)
                        /\ included[1] = included[2] \/ outcome[1] \notin Ends
                        /\ outcome[1] = "archive" /\ outcome[2] = "archive" =>
                              Tail(archive[1]) = Tail(archive[2])
                        /\ Directives(script[1]) = Directives(script[2]) =>
                              /\ (outcome[1] = "archive") <=> (outcome[2] = "archive")
                              /\ outcome[1] = "archive" => archive[1] = archive[2]
      BY DEF Deterministic
    <2>1. 1 \in Runs /\ 2 \in Runs
      BY DEF Runs
    <2>2. Listed(1) = Listed(2)
      <3>1. /\ script[1] \in Seq(Steps) /\ script[2] \in Seq(Steps)
            /\ ToSet(script[1]) = ToSet(script[2])
        BY <2>1 DEF PackInv, PackTyped
      <3> QED
        BY <3>1, CandidatesAre DEF Listed
    <2>3. \A r \in Runs :
            /\ (outcome[r] = "archive") <=> ~Refused(Listed(r)) /\ ~Oversized(script[r])
            /\ (outcome[r] = "too large") <=> ~Refused(Listed(r)) /\ Oversized(script[r])
            /\ outcome[r] \in Ends => included[r] = Kept(Listed(r))
      BY Decided
    <2>4. /\ (outcome[1] \in Ends) <=> (outcome[2] \in Ends)
          /\ included[1] = included[2] \/ outcome[1] \notin Ends
      BY <2>1, <2>2, <2>3
    <2>5. ASSUME outcome[1] = "archive", outcome[2] = "archive"
          PROVE  /\ Tail(archive[1]) = Tail(archive[2])
                 /\ Directives(script[1]) = Directives(script[2]) => archive[1] = archive[2]
      <3>1. included[1] = included[2]
        BY <2>4, <2>5
      <3> DEFINE a == archive[1]
                 b == archive[2]
                 files == InOrder(included[1])
      <3>2. /\ a[1] = <<Dockerfile, Directives(script[1])>> /\ Len(a) \in Nat /\ Len(a) >= 1
            /\ Len(a) - 1 = Len(files)
            /\ \A i \in 2..Len(a) : a[i] = <<files[i - 1], <<files[i - 1]>>>>
        BY <2>1, <2>5, ArchiveNames
      <3>3. /\ b[1] = <<Dockerfile, Directives(script[2])>> /\ Len(b) \in Nat /\ Len(b) >= 1
            /\ Len(b) - 1 = Len(files)
            /\ \A i \in 2..Len(b) : b[i] = <<files[i - 1], <<files[i - 1]>>>>
        BY <2>1, <2>5, <3>1, ArchiveNames
      <3>4. a \in Seq(Entries) /\ b \in Seq(Entries)
        BY <2>1 DEF PackInv, PackTyped
      <3> HIDE DEF a, b, files
      <3>5. Len(a) = Len(b)
        BY <3>2, <3>3
      <3>6. \A i \in 2..Len(a) : a[i] = b[i]
        BY <3>2, <3>3, <3>5
      <3>7. Tail(a) = Tail(b)
        <4>1. /\ Tail(a) \in Seq(Entries) /\ Tail(b) \in Seq(Entries)
              /\ Len(Tail(a)) = Len(a) - 1 /\ Len(Tail(b)) = Len(a) - 1
              /\ \A i \in 1..(Len(a) - 1) : Tail(a)[i] = a[i + 1] /\ Tail(b)[i] = b[i + 1]
          BY <3>2, <3>3, <3>4, <3>5
        <4>2. \A i \in 1..(Len(a) - 1) : i + 1 \in 2..Len(a)
          BY <3>2
        <4> QED
          BY <3>6, <4>1, <4>2
      <3>8. ASSUME Directives(script[1]) = Directives(script[2]) PROVE a = b
        <4>1. \A i \in 1..Len(a) : i = 1 \/ i \in 2..Len(a)
          BY <3>2
        <4>2. \A i \in 1..Len(a) : a[i] = b[i]
          BY <3>2, <3>3, <3>6, <3>8, <4>1
        <4> QED
          BY <3>4, <3>5, <4>2
      <3> QED
        BY <3>7, <3>8 DEF a, b
    <2>6. ASSUME Directives(script[1]) = Directives(script[2])
          PROVE  (outcome[1] = "archive") <=> (outcome[2] = "archive")
      <3>1. Oversized(script[1]) <=> Oversized(script[2])
        BY <2>2, <2>6 DEF Oversized, Listed
      <3> QED
        BY <2>1, <2>2, <2>3, <3>1
    <2> QED
      BY <2>4, <2>5, <2>6
  <1> QED
    BY <1>1, PackagingInvariant, PTL

\* The Dockerfile that extracts last is the script's, or the context's own, and
\* what it copies is in the archive.
THEOREM ScriptsAreBuilt == PackSpec => []ScriptIsBuilt
  <1>1. PackInv => ScriptIsBuilt
    <2> SUFFICES ASSUME PackInv, NEW r \in Runs, outcome[r] = "archive"
                 PROVE  LET last == CHOOSE i \in DOMAIN archive[r] :
                                /\ archive[r][i][1] = Dockerfile
                                /\ \A j \in DOMAIN archive[r] : archive[r][j][1] = Dockerfile => j <= i
                            copied == UNION {AllOf(p) : p \in ToSet(PathsOf(script[r], {"copy"}))}
                        IN /\ archive[r][last][2] = (IF Dockerfile \in included[r] THEN <<Dockerfile>>
                                                     ELSE Directives(script[r]))
                           /\ \A f \in copied :
                                 \/ f \in Names(r)
                                 \/ f \in Files /\ (Target[f] # f \/ f \in Ignored \/ f \notin present)
      BY DEF ScriptIsBuilt
    <2> DEFINE arc == archive[r]
               m == Len(arc)
               files == InOrder(included[r])
               Latest(i) == /\ arc[i][1] = Dockerfile
                            /\ \A j \in DOMAIN arc : arc[j][1] = Dockerfile => j <= i
               last == CHOOSE i \in DOMAIN arc : Latest(i)
               copied == UNION {AllOf(p) : p \in ToSet(PathsOf(script[r], {"copy"}))}
    <2>1. /\ Names(r) = included[r] \cup {Dockerfile}
          /\ arc[1] = <<Dockerfile, Directives(script[r])>>
          /\ DOMAIN arc = 1..m /\ m \in Nat /\ m >= 1 /\ m - 1 = Len(files)
          /\ \A i \in 2..m : arc[i] = <<files[i - 1], <<files[i - 1]>>>>
      BY ArchiveNames
    <2>2. included[r] = {files[i] : i \in 1..Len(files)}
      <3>1. included[r] \subseteq Files
        BY DEF PackInv, PackTyped
      <3>2. files \in Seq(included[r]) /\ ToSet(files) = included[r]
        BY <3>1, InOrderIs
      <3> HIDE DEF files
      <3> QED
        BY <3>2, ItemsOf
    <2> HIDE DEF m, files, arc
    <2>3. last \in 1..m /\ Latest(last)
      <3> DEFINE S == {i \in 1..m : arc[i][1] = Dockerfile}
      <3>1. 1 \in S
        BY <2>1
      <3>2. S \subseteq 1..m /\ S # {} /\ m \in Nat
        BY <2>1, <3>1
      <3>3. Max(S) \in S /\ \A j \in S : j <= Max(S)
        <4> HIDE DEF S
        <4> QED
          BY <3>2, MaxIsLast
      <3>4. Max(S) \in DOMAIN arc /\ Latest(Max(S))
        BY <2>1, <3>3
      <3> HIDE DEF S, Latest
      <3>5. last \in DOMAIN arc /\ Latest(last)
        BY <3>4
      <3> QED
        BY <2>1, <3>5
    <2> HIDE DEF last
    <2>4. arc[last][2] = IF Dockerfile \in included[r] THEN <<Dockerfile>> ELSE Directives(script[r])
      <3>1. CASE Dockerfile \in included[r]
        <4>1. PICK k \in 1..Len(files) : files[k] = Dockerfile
          BY <2>2, <3>1
        <4>2. k + 1 \in 2..m /\ k + 1 \in DOMAIN arc /\ (k + 1) - 1 = k
          BY <2>1
        <4>3. arc[k + 1][1] = Dockerfile
          BY <2>1, <4>1, <4>2
        <4>4. k + 1 <= last
          BY <2>3, <4>2, <4>3
        <4>5. last \in 2..m
          BY <2>1, <2>3, <4>2, <4>4
        <4>6. arc[last] = <<files[last - 1], <<files[last - 1]>>>>
          BY <2>1, <4>5
        <4>7. files[last - 1] = Dockerfile
          BY <2>3, <4>6
        <4> QED
          BY <3>1, <4>6, <4>7
      <3>2. CASE Dockerfile \notin included[r]
        <4>1. ASSUME last # 1 PROVE FALSE
          <5>1. last \in 2..m /\ last - 1 \in 1..Len(files)
            BY <2>1, <2>3, <4>1
          <5>2. arc[last] = <<files[last - 1], <<files[last - 1]>>>> /\ files[last - 1] \in included[r]
            BY <2>1, <2>2, <5>1
          <5> QED
            BY <2>3, <3>2, <5>2
        <4> QED
          BY <2>1, <3>2, <4>1
      <3> QED
        BY <3>1, <3>2
    <2>5. ASSUME NEW f \in copied
          PROVE  f \in Names(r) \/ (f \in Files /\ (Target[f] # f \/ f \in Ignored \/ f \notin present))
      <3>1. PICK p \in ToSet(PathsOf(script[r], {"copy"})) : f \in AllOf(p)
        BY <2>5
      <3> HIDE DEF copied
      <3>2. p \in ToSet(Candidates(script[r]))
        <4>1. script[r] \in Seq(Steps)
          BY DEF PackInv, PackTyped
        <4> QED
          BY <4>1, CandidatesAre
      <3>3. /\ Collected(p, included[r] \cup excluded[r], present) /\ excluded[r] \subseteq Ignored
        BY <3>2 DEF PackInv, RunInv, RunOk
      <3>4. f \in Files /\ (Target[f] \in present => Target[f] \in included[r] \cup excluded[r])
        BY <3>1, <3>3 DEF Collected
      <3> QED
        BY <2>1, <3>3, <3>4
    <2> QED
      BY <2>4, <2>5 DEF last, arc
  <1> QED
    BY <1>1, PackagingInvariant, PTL

=============================================================================
