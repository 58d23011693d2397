---------------------------- MODULE MCPackaging -----------------------------
EXTENDS Packaging, TLC

\* A project: the module, files, its own Dockerfile, a link to a file, a link
\* to a file that the patterns match, a file outside the working directory.
MCFiles == {"Dockerfile", "app.py", "b", "c", "data", "link", "log", "loglink", "out"}
MCByName == <<"Dockerfile", "app.py", "b", "c", "data", "link", "log", "loglink", "out">>
MCTarget == [f \in MCFiles |-> CASE f = "link" -> "data" [] f = "loglink" -> "log" [] OTHER -> f]
MCDirs == ("pkg" :> {"c", "data", "link"}) @@ ("logs" :> {"b", "log", "loglink"})
          @@ ("tmp" :> {"out", "data"}) @@ ("docker" :> {"Dockerfile", "b"})

S(do, path) == [do |-> do, path |-> path]
MCSteps ==
    {S("context", p) : p \in {"pkg", "tmp", "loglink", "docker", "c"}}
    \cup {S("include", p) : p \in {"logs", "b"}}
    \cup {S("copy", p) : p \in {"pkg", "b", "link", "logs", "nothing"}}
    \cup {S("from_base", "cuda"), S("line", "RUN make")}

\* Four files and a Dockerfile of one line fit, and less with more lines or with
\* the base changed first, as if other texts compressed better.
MCTooLarge(a) ==
    LET lines == a[1][2] IN
    Len(a) + Len(lines) + (IF lines[Len(lines)] = "RUN make" THEN 1 ELSE 0) > 6

=============================================================================
