------------------------------ MODULE HostKeys ------------------------------
(***************************************************************************)
(* A pod's SSH host keys on their way from the machine, which is not       *)
(* trusted, to the deployment's record, which renters check a pod against. *)
(* clean_ssh_host_keys runs at every construction of an update or a        *)
(* record, so also on keys it has cleaned before.  What a value is like is *)
(* a record of the facts the code looks at.                                *)
(***************************************************************************)
EXTENDS Naturals, Sequences, FiniteSets, SequencesExt

CONSTANTS
    Values,       \* what a machine may send as one key
    MAX_KEYS,     \* keys a deployment may have
    MaxValues,    \* bound: values of a report
    MaxReports    \* bound: reports

KEY_TYPES == {"ssh-ed25519", "ecdsa-sha2-nistp256"}   \* two of the seven

\* `fields`: white-separated parts; 0 stands for a value that is no string.
\* `names`: the type its blob names, or "undecodable".  `comment`: what follows
\* the key, 0 for nothing.  `short`: no longer than _MAX_KEY_CHARS.
ValuesAssumption ==
    /\ Values \subseteq [fields : Nat, type : STRING, names : STRING,
                         blob : Nat, comment : Nat, short : BOOLEAN]
    /\ MAX_KEYS \in Nat

ASSUME ValuesAssumption

\* A report: no keys is not the empty list of keys.
Some(values) == [given |-> TRUE, values |-> values]
None == [given |-> FALSE, values |-> <<>>]

VARIABLES
    record,    \* keys of the deployment's record
    last,      \* history: the last report with keys that the record has seen
    count      \* reports so far

hkvars == <<record, last, count>>

-----------------------------------------------------------------------------

_well_formed(v) == v.type \in KEY_TYPES /\ v.short /\ v.names = v.type

\* A key as it is kept: type and blob, without the comment.
Key(v) == [v EXCEPT !.fields = 2, !.comment = 0]

\* A turn of the loop, which breaks off once there are MAX_KEYS.
AddKey(out, v) ==
    IF Len(out) >= MAX_KEYS \/ v.fields < 2 \/ ~_well_formed(v) \/ Contains(out, Key(v))
    THEN out ELSE Append(out, Key(v))

\* Fault: the limit is applied to what comes in.
CleanFirstFew(values) ==
    FoldLeft(AddKey, <<>>, SubSeq(values, 1, IF Len(values) < MAX_KEYS THEN Len(values) ELSE MAX_KEYS))

clean_ssh_host_keys(values) == FoldLeft(AddKey, <<>>, values)

\* DeploymentStatusUpdate: no keys stays no keys.
UpdateKeys(r) == IF r = None THEN None ELSE Some(clean_ssh_host_keys(r.values))

-----------------------------------------------------------------------------

HKInit == record = <<>> /\ last = <<>> /\ count = 0

\* What a machine may report (external): keys in a ready report, none in others.
Reports == {None} \cup {Some(values) : values \in UNION {[1..n -> Values] : n \in 0..MaxValues}}

\* The control plane (external) parses a report and, if it has keys, builds
\* the record from them.
Apply(r) ==
    /\ count < MaxReports
    /\ count' = count + 1
    /\ LET keys == UpdateKeys(r) IN
         IF keys = None THEN UNCHANGED <<record, last>>
         ELSE record' = clean_ssh_host_keys(keys.values) /\ last' = r.values

\* The record is built again from its stored row.
Reload ==
    /\ record' = clean_ssh_host_keys(record)
    /\ UNCHANGED <<last, count>>

-----------------------------------------------------------------------------
\* Properties.

\* The keys the code is to keep of a report: the distinct good ones.
Good(values) == {Key(values[i]) : i \in {j \in DOMAIN values :
                                            values[j].fields >= 2 /\ _well_formed(values[j])}}

\* Where a report first has a key.
First(values, k) == CHOOSE i \in DOMAIN values :
                        /\ Key(values[i]) = k /\ values[i].fields >= 2
                        /\ \A j \in 1..(i - 1) : values[j].fields >= 2 => Key(values[j]) # k

\* However often it is cleaned, stored and read, the record has the first
\* MAX_KEYS distinct good keys of the last report that had keys, in its
\* order: no repeat or bad value takes a place from a good key, and a report
\* without keys erases nothing.
RecordIsLastReport ==
    LET good == Good(last) IN
    /\ ToSet(record) \subseteq good /\ IsInjective(record)
    /\ Len(record) = IF Cardinality(good) < MAX_KEYS THEN Cardinality(good) ELSE MAX_KEYS
    /\ \A i \in DOMAIN record : \A k \in good :
          First(last, k) < First(last, record[i]) =>
              \E j \in 1..(i - 1) : record[j] = k

=============================================================================
