--------------------------- MODULE MCRecordUpdates --------------------------
EXTENDS RecordUpdates

\* A field of each kind, a flag with the value it wins over, either half of a
\* policy, and `deployments update`.
MCOptions ==
    {[workload_alias |-> "a", tags |-> "t", scaling_threshold |-> 50],
     [clear_workload_alias |-> TRUE, workload_alias |-> "b", clear_tags |-> TRUE],
     [shutdown_after_seconds |-> 0],
     [requested_instances |-> 2]}
=============================================================================
