----------------------------- MODULE Packaging ------------------------------
(***************************************************************************)
(* package_workload: from the script that builds a workload and its image  *)
(* to the archive the image is built from.  Two scripts that take the same *)
(* steps in orders of their own, as two modules, or one before and after   *)
(* an edit, may, are packaged one after the other, and a file may vanish   *)
(* meanwhile.  A file has a name and a target, another name when it is a   *)
(* symbolic link.                                                          *)
(***************************************************************************)
EXTENDS Naturals, Sequences, FiniteSets, SequencesExt

CONSTANTS
    Files,       \* names of files, relative to the working directory
    ByName,      \* the files in the order of their names
    Dirs,        \* directory -> the files rglob finds in it
    Target,      \* file -> what its path resolves to
    Outside,     \* targets outside the working directory
    Ignored,     \* targets the default or the workload's patterns match
    Missing,     \* paths at which there is nothing
    Removable,   \* bound: targets that may vanish
    Module,      \* the file of the module itself
    Steps,       \* steps a script may take
    MaxSteps,    \* bound: steps of a script
    TooLarge(_)  \* whether the zip file of these entries exceeds the limit:
                 \* its size depends on what is in them, in this order

Runs == {1, 2}
Paths == Files \cup DOMAIN Dirs \cup Missing

TreeAssumption ==
    /\ Module \in Files /\ Target[Module] = Module /\ Module \notin Removable
    /\ ByName \in Seq(Files) /\ ToSet(ByName) = Files /\ IsInjective(ByName)
    /\ Target \in [Files -> Files]
    /\ \A d \in DOMAIN Dirs : Dirs[d] \subseteq Files

\* A path of context_paths or include_paths; the source of an Image.copy or
\* add; the base of Image.from_base; the line of any other directive.
StepsAssumption ==
    /\ IsFiniteSet(Steps)
    /\ \A s \in Steps :
          \/ s.do \in {"context", "include", "copy"} /\ s.path \in Paths
          \/ s.do \in {"from_base", "line"}

ASSUME TreeAssumption
ASSUME StepsAssumption

VARIABLES
    script,     \* per run: the steps of the script
    todo,       \* per run: candidates not looked at, then files not written yet
    included, excluded,
    archive,    \* per run: entries <<name, content>> written so far
    outcome,    \* per run: "none", "archive" or the exception
    present     \* targets that are there

pack_vars == <<script, todo, included, excluded, archive, outcome, present>>

Dockerfile == "Dockerfile"

-----------------------------------------------------------------------------
\* The script.

\* The paths of some kinds of steps, in order.
PathsOf(s, kinds) ==
    LET Add(paths, step) == IF step.do \in kinds THEN Append(paths, step.path) ELSE paths
    IN FoldLeft(Add, <<>>, s)

\* Workload.__post_init__ puts include_paths behind context_paths.
context_paths(s) == PathsOf(s, {"context"}) \o PathsOf(s, {"include"})

build_context_paths(s) ==
    LET Add(out, p) == IF Contains(out, p) THEN out ELSE Append(out, p)
    IN FoldLeft(Add, <<>>, PathsOf(s, {"copy"}))

\* The directives: from_base replaces the first, the others are appended.  An
\* image given as a string is one whose script only says from_base.
Directives(s) ==
    LET bases == <<"python:3.12-slim">> \o PathsOf(s, {"from_base"})
    IN <<bases[Len(bases)]>> \o PathsOf(s, {"copy", "line"})

\* Fault: the image's paths are a default for the workload's.
CandidatesOr(s) ==
    <<Module>> \o (IF context_paths(s) # <<>> THEN context_paths(s) ELSE build_context_paths(s))

\* The module first, then the context paths and the image's.
Candidates(s) == <<Module>> \o context_paths(s) \o build_context_paths(s)

PackInit ==
    /\ \E S \in SUBSET Steps :
          /\ Cardinality(S) <= MaxSteps
          /\ \E s, t \in SetToSeqs(S) : script = [r \in Runs |-> IF r = 1 THEN s ELSE t]
    /\ todo = [r \in Runs |-> Candidates(script[r])]
    /\ included = [r \in Runs |-> {}] /\ excluded = [r \in Runs |-> {}]
    /\ archive = [r \in Runs |-> <<>>]
    /\ outcome = [r \in Runs |-> "none"]
    /\ present = {Target[f] : f \in Files}

-----------------------------------------------------------------------------
\* The packaging.

\* `resolved.exists()` is false.
Nothing(c) == c \in Missing \/ (c \in Files /\ Target[c] \notin present)

\* The files a candidate stands for.
FilesOf(c) == IF c \in DOMAIN Dirs THEN {f \in Dirs[c] : Target[f] \in present} ELSE {c}

\* Fault: the patterns are tried on the name, not on what it resolves to.
IgnoredByName(f) == f \in Ignored

_should_ignore(f) == Target[f] \in Ignored

\* Some file of the candidate resolves to one outside the working directory.
LeavesCwd(c) == \E f \in FilesOf(c) : Target[f] \in Outside

\* The second packaging follows the first.
Working(r) == outcome[r] = "none" /\ (r = 2 => outcome[1] # "none")

\* One turn of _collect_context_paths.
Collect(r) ==
    /\ Working(r) /\ todo[r] # <<>> /\ archive[r] = <<>>
    /\ LET c == Head(todo[r]) IN
         \/ /\ Nothing(c)
            /\ outcome' = [outcome EXCEPT ![r] = "FileNotFoundError"]
            /\ UNCHANGED <<included, excluded>>
         \/ /\ ~Nothing(c) /\ LeavesCwd(c)
            /\ outcome' = [outcome EXCEPT ![r] = "ValueError"]
            /\ UNCHANGED <<included, excluded>>
         \/ /\ ~Nothing(c) /\ ~LeavesCwd(c)
            /\ included' = [included EXCEPT ![r] =
                  @ \cup {Target[f] : f \in {g \in FilesOf(c) : ~_should_ignore(g)}}]
            /\ excluded' = [excluded EXCEPT ![r] =
                  @ \cup {Target[f] : f \in {g \in FilesOf(c) : _should_ignore(g)}}]
            /\ UNCHANGED outcome
    /\ todo' = [todo EXCEPT ![r] = Tail(@)]
    /\ UNCHANGED <<script, archive, present>>

\* Fault: the files are written in the order they were found.
AsFound(r) ==
    LET Found(s, c) == s \o SelectSeq(ByName, LAMBDA f :
            f \in included[r] /\ f \in FilesOf(c) /\ ~Contains(s, f))
    IN FoldLeft(Found, <<>>, Candidates(script[r]))

\* The files in the order they are written.
Sorted(r) ==
    LET Add(sorted, f) == IF f \in included[r] THEN Append(sorted, f) ELSE sorted
    IN FoldLeft(Add, <<>>, ByName)

\* The rendered Dockerfile is the first entry.
WriteDockerfile(r) ==
    /\ Working(r) /\ todo[r] = <<>> /\ archive[r] = <<>>
    /\ archive' = [archive EXCEPT ![r] = <<<<Dockerfile, Directives(script[r])>>>>]
    /\ todo' = [todo EXCEPT ![r] = Sorted(r)]
    /\ UNCHANGED <<script, included, excluded, outcome, present>>

\* Fault: a file that is not there any more is left out.
WriteFileIfThere(r) ==
    /\ Working(r) /\ archive[r] # <<>> /\ todo[r] # <<>>
    /\ LET f == Head(todo[r]) IN
         archive' = [archive EXCEPT ![r] = IF f \in present THEN Append(@, <<f, <<f>>>>) ELSE @]
    /\ todo' = [todo EXCEPT ![r] = Tail(@)]
    /\ UNCHANGED <<script, included, excluded, outcome, present>>

\* The next file is measured and read; if it has vanished that is the end.
WriteFile(r) ==
    /\ Working(r) /\ archive[r] # <<>> /\ todo[r] # <<>>
    /\ LET f == Head(todo[r]) IN
         IF f \in present
         THEN /\ archive' = [archive EXCEPT ![r] = Append(@, <<f, <<f>>>>)]
              /\ UNCHANGED outcome
         ELSE /\ outcome' = [outcome EXCEPT ![r] = "FileNotFoundError"]
              /\ archive' = [archive EXCEPT ![r] = <<>>]
    /\ todo' = [todo EXCEPT ![r] = Tail(@)]
    /\ UNCHANGED <<script, included, excluded, present>>

\* The limit is for the finished archive; it is a ValueError with a text of its
\* own.
Finish(r) ==
    /\ Working(r) /\ archive[r] # <<>> /\ todo[r] = <<>>
    /\ IF TooLarge(archive[r])
       THEN /\ outcome' = [outcome EXCEPT ![r] = "too large"]
            /\ archive' = [archive EXCEPT ![r] = <<>>]
       ELSE outcome' = [outcome EXCEPT ![r] = "archive"] /\ UNCHANGED archive
    /\ UNCHANGED <<script, todo, included, excluded, present>>

\* Somebody deletes a file (external).
Vanish ==
    /\ \E r \in Runs : outcome[r] = "none"
    /\ \E f \in Removable \cap present : present' = present \ {f}
    /\ UNCHANGED <<script, todo, included, excluded, archive, outcome>>

PackNext == Vanish \/ \E r \in Runs : Collect(r) \/ WriteDockerfile(r) \/ WriteFile(r) \/ Finish(r)

PackSpec == PackInit /\ [][PackNext]_pack_vars

-----------------------------------------------------------------------------
\* Properties.

Listed(r) == ToSet(Candidates(script[r]))
AllOf(c) == IF c \in DOMAIN Dirs THEN Dirs[c] ELSE {c}
Reached(r) == UNION {AllOf(c) : c \in Listed(r)}
Names(r) == {archive[r][i][1] : i \in DOMAIN archive[r]}

\* An archive is written only when every path the script names is there and
\* inside the working directory; then every file below one is either in it or
\* reported as excluded, under the name it resolves to, and never both.  A file
\* that vanishes on the way may be missed by the collection, but one that was
\* collected is never left out in silence.
ContextComplete ==
    \A r \in Runs : outcome[r] = "archive" =>
        LET there == {Target[f] : f \in Reached(r)} IN
        /\ Listed(r) \cap Missing = {} /\ there \cap present \cap Outside = {}
        /\ there \cap present \subseteq included[r] \cup excluded[r]
        /\ included[r] \cup excluded[r] \subseteq there
        /\ included[r] \cap Ignored = {} /\ excluded[r] \subseteq Ignored
        /\ Names(r) = included[r] \cup {Dockerfile}

\* "Deterministic": the order in which a script lists its context does not show
\* in the files that are collected, nor in whether the paths are accepted; with
\* the same directives the archive is the same, or both are too large.
Deterministic ==
    (\A r \in Runs : outcome[r] # "none") /\ Removable \subseteq present =>
        /\ (outcome[1] \in {"archive", "too large"}) <=> (outcome[2] \in {"archive", "too large"})
        /\ included[1] = included[2] \/ outcome[1] \notin {"archive", "too large"}
        /\ outcome[1] = "archive" /\ outcome[2] = "archive" => Tail(archive[1]) = Tail(archive[2])
        /\ Directives(script[1]) = Directives(script[2]) =>
              /\ (outcome[1] = "archive") <=> (outcome[2] = "archive")
              /\ outcome[1] = "archive" => archive[1] = archive[2]

\* The image is built from the Dockerfile that extracts last.  It is the one
\* the script's directives say, unless the context has a file of that name,
\* which then replaces it; and every file that it copies is in the archive by
\* the name the directive uses, unless that name is a link or ignored, or the
\* file vanished from a directory.
ScriptIsBuilt ==
    \A r \in Runs : outcome[r] = "archive" =>
        LET last == CHOOSE i \in DOMAIN archive[r] :
                /\ archive[r][i][1] = Dockerfile
                /\ \A j \in DOMAIN archive[r] : archive[r][j][1] = Dockerfile => j <= i
            copied == UNION {AllOf(p) : p \in ToSet(PathsOf(script[r], {"copy"}))}
        IN /\ archive[r][last][2] = (IF Dockerfile \in included[r] THEN <<Dockerfile>>
                                     ELSE Directives(script[r]))
           /\ \A f \in copied :
                 \/ f \in Names(r)
                 \/ f \in Files /\ (Target[f] # f \/ f \in Ignored \/ f \notin present)

=============================================================================
