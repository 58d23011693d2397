---------------------------- MODULE MCConfigFile ----------------------------
(* Instances of ConfigFile.  The stored URL is shorter than the default,   *)
(* so a text may be longer than another on either account.                 *)
EXTENDS ConfigFile, TLC

MCWidth == [v \in Bases \cup Keys |->
    CASE v = DefaultUrl -> 2
      [] v = "" -> 0
      [] v = "garbled" -> 3
      [] OTHER -> 1]

\* Processes are alike.  ConfigFile's CHOOSE among them has one to choose from
\* as long as updates do not overlap, and is not looked at afterwards.
ProcSymmetry == Permutations(Procs)

=============================================================================
