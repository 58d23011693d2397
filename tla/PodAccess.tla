----------------------------- MODULE PodAccess ------------------------------
(***************************************************************************)
(* Access to a pod: its reports, which carry the host keys of HostKeys and *)
(* the private key a renter logs in with, and `deployments ssh --save-key` *)
(* commands, which ask for that key and put it into a file of the renter.  *)
(* A command makes two calls before it touches the file: the key, and then *)
(* the exposed ports, only to print them.  It then writes the key in two   *)
(* steps, opening (and truncating) and writing, and restricts the file's   *)
(* permissions last.  Any of these steps may fail, and the command may be  *)
(* killed before it.                                                       *)
(***************************************************************************)
EXTENDS HostKeys

CONSTANTS
    Commands,     \* bound: the commands that are run, all on one path
    PrivateKeys,  \* private keys a pod may report
    MaxMeanwhile  \* bound: values of a report in a behaviour with commands

\* A key in the answer may be missing; the file then gets an empty line.
NoKey == "no key"

\* Content of the file; "other" is what the renter had there before, and
\* "mixed" parts of two texts.
Texts == PrivateKeys \cup {NoKey, "", "other", "mixed"}
Modes == {"no file", "umask", "private"}

VARIABLES
    access,    \* what the platform gives for the pod: a private key, NoKey, or
               \* "no endpoint" as long as the pod has no ssh:// endpoint
    pc,        \* per command: its next step, or the last one it tried
    end,       \* per command: how it ended, or "no"
    info,      \* per command: the private key of its answer
    text,      \* content of the file
    whole,     \* FALSE if only the beginning of that text is there
    mode,      \* permissions of the file
    before     \* history: the text when the commands began

vars == <<hkvars, access, pc, end, info, text, whole, mode, before>>
podvars == <<hkvars, access>>
filevars == <<text, whole, mode, before>>

Init ==
    /\ HKInit
    /\ access = "no endpoint"
    /\ pc = [c \in Commands |-> "new"] /\ end = [c \in Commands |-> "no"]
    /\ info = [c \in Commands |-> NoKey]
    /\ \/ text = "" /\ mode = "no file"
       \/ text \in {"other"} \cup PrivateKeys /\ mode \in {"umask", "private"}
    /\ whole = TRUE
    /\ before = text

At(c, step) == pc[c] = step /\ end[c] = "no"
Goto(c, step) == pc' = [pc EXCEPT ![c] = step] /\ UNCHANGED end
End(c, how) == end' = [end EXCEPT ![c] = how] /\ UNCHANGED pc

-----------------------------------------------------------------------------
\* The pod (external): a ready report gives host keys and access, another may
\* take the endpoint away.
Report ==
    /\ \E r \in Reports :
          /\ Len(r.values) <= MaxMeanwhile \/ \A c \in Commands : At(c, "new")
          /\ Apply(r)
          /\ access' \in IF r = None THEN {access, "no endpoint"} ELSE PrivateKeys \cup {NoKey}
    /\ UNCHANGED <<pc, end, info, filevars>>

Restore == Reload /\ UNCHANGED <<access, pc, end, info, filevars>>

-----------------------------------------------------------------------------
\* The command.

\* get_deployment_ssh, answered.
GetSsh(c) ==
    /\ At(c, "new") /\ access # "no endpoint"
    /\ info' = [info EXCEPT ![c] = access]
    /\ Goto(c, "ports")
    /\ UNCHANGED <<podvars, filevars>>

\* Answered with 404, or failed: the command exits.
GetSshFails(c) ==
    /\ At(c, "new")
    /\ End(c, "exit 1")
    /\ UNCHANGED <<podvars, info, filevars>>

\* get_deployment, answered or failed with an HTTP error: both are fine.
GetPorts(c) ==
    /\ At(c, "ports")
    /\ Goto(c, "open")
    /\ UNCHANGED <<podvars, info, filevars>>

\* What opening does to the file: it is created, or emptied with the
\* permissions it has.
Truncated ==
    /\ text' = "" /\ whole' = TRUE
    /\ mode' = IF mode = "no file" THEN "umask" ELSE mode
    /\ UNCHANGED before

\* Fault: the file is opened before the second call.
GetPortsTooLate(c) ==
    /\ At(c, "ports")
    /\ Truncated
    /\ End(c, "exit 1")
    /\ UNCHANGED <<podvars, info>>

\* Any other exception (a timeout, a broken answer) is not caught here.
GetPortsFails(c) ==
    /\ At(c, "ports")
    /\ End(c, "exit 1")
    /\ UNCHANGED <<podvars, info, filevars>>

\* Fault: the old file is removed and a new one made.
OpenNew(c) ==
    /\ At(c, "open")
    /\ text' = "" /\ whole' = TRUE /\ mode' = "umask"
    /\ Goto(c, "write")
    /\ UNCHANGED <<podvars, info, before>>

\* The first half of write_text.
Open(c) ==
    /\ At(c, "open")
    /\ Truncated
    /\ Goto(c, "write")
    /\ UNCHANGED <<podvars, info>>

\* The path cannot be opened: nothing is touched.
OpenFails(c) ==
    /\ At(c, "open")
    /\ End(c, "exit 1")
    /\ UNCHANGED <<podvars, info, filevars>>

\* What the file may have once the text k, or the beginning of it, is written
\* to its start, over what another command may have written since: the text,
\* and whether it is whole.  The empty line is the shortest of the texts.
Over(k) ==
    IF text \in {"", NoKey, k} THEN {<<k, TRUE>>}
    ELSE {<<"mixed", TRUE>>} \cup (IF k = NoKey /\ whole THEN {} ELSE {<<k, TRUE>>})

PartOver(k) ==
    IF k = NoKey THEN {}
    ELSE IF text \in {"", NoKey} THEN {<<k, FALSE>>}
    ELSE IF text = k THEN {<<k, whole>>}
    ELSE {<<"mixed", TRUE>>, <<k, FALSE>>}

\* The second half.
Write(c) ==
    /\ At(c, "write")
    /\ \E w \in Over(info[c]) : text' = w[1] /\ whole' = w[2]
    /\ Goto(c, "chmod")
    /\ UNCHANGED <<podvars, info, mode, before>>

\* The disk is full, or the key cannot be encoded: the file has been emptied,
\* and nothing or a part of the text is written.
WriteFails(c) ==
    /\ At(c, "write")
    /\ \E w \in {<<text, whole>>} \cup PartOver(info[c]) : text' = w[1] /\ whole' = w[2]
    /\ End(c, "exit 1")
    /\ UNCHANGED <<podvars, info, mode, before>>

Chmod(c) ==
    /\ At(c, "chmod")
    /\ mode' = "private"
    /\ End(c, "exit 0")
    /\ UNCHANGED <<podvars, info, text, whole, before>>

\* The file belongs to another user, or its file system knows no permissions.
ChmodFails(c) ==
    /\ At(c, "chmod")
    /\ End(c, "exit 1")
    /\ UNCHANGED <<podvars, info, filevars>>

Kill(c) ==
    /\ pc[c] # "new" /\ end[c] = "no"
    /\ End(c, "killed")
    /\ UNCHANGED <<podvars, info, filevars>>

Command(c) ==
    \/ GetSsh(c) \/ GetSshFails(c) \/ GetPorts(c) \/ GetPortsFails(c)
    \/ Open(c) \/ OpenFails(c) \/ Write(c) \/ WriteFails(c) \/ Chmod(c) \/ ChmodFails(c)
    \/ Kill(c)

Next ==
    \/ Report \/ Restore
    \/ Len(last) <= MaxMeanwhile /\ \E c \in Commands : Command(c)

Spec == Init /\ [][Next]_vars

-----------------------------------------------------------------------------
\* Properties.

\* Commands that have opened the file.
Opened == {c \in Commands : pc[c] \in {"write", "chmod"}}

\* The file is as it was as long as no command has opened it: a command whose
\* calls fail, whose path cannot be opened, or that is killed before, leaves
\* the key of an earlier command alone.  What the file has otherwise is what
\* the platform gave one of the commands that opened it, whole unless writing
\* it failed; it is empty only between the two halves of write_text, or after
\* a command that ended there; and it is neither of two keys only if two
\* commands with different answers wrote it.
SavedKeyIsGiven ==
    /\ Opened = {} => text = before
    /\ text # before =>
          \/ \E c \in Opened : text = info[c]
          \/ text = "" /\ \E c \in Opened : pc[c] = "write"
          \/ text = "mixed" /\ \E c, d \in Opened : info[c] # info[d]
    /\ ~whole => \E c \in Opened : text = info[c] /\ pc[c] = "write" /\ end[c] = "exit 1"

\* Once a command has ended with exit 0 the file stays private, whatever other
\* commands do to it and wherever they fail or are killed.  A text that
\* commands wrote can be read by others only while one of them is in between,
\* or if one ended there: killed, or because its write or its chmod failed.
PrivateWhenDone ==
    /\ (\E c \in Commands : end[c] = "exit 0") => mode = "private"
    /\ mode = "umask" /\ text # before => \E c \in Opened : end[c] # "exit 0"

=============================================================================
