----------------------------- MODULE ConfigFile -----------------------------
(***************************************************************************)
(* The SDK's configuration file: save_config and unset_config (`config     *)
(* init`, `set` and `unset`) as the read, truncate, write and re-read they *)
(* are, by several CLI processes that may be killed, and what get_config   *)
(* and _client make of it.                                                 *)
(*                                                                         *)
(* A configuration is short: its text is written by one system call when   *)
(* the file is closed, and read by one.  ConfigParser writes values as     *)
(* they are and interpolates them when they are read: of a URL or a key    *)
(* with percent signs it makes another one, or raises.                     *)
(***************************************************************************)
EXTENDS Integers

CONSTANTS
    Procs,        \* processes of the CLI
    BaseArgs,     \* base URLs a user passes
    KeyArgs,      \* API keys a user passes
    Width,        \* length of each stored URL and key
    EnvUrls, EnvKeys,     \* values of the environment variables of a client
    FlagUrls, FlagKeys,   \* --base-url and --api-key; NoArg for one not given
    NUpdates      \* bound: updates begun

NoArg == "None"
DefaultUrl == "http://127.0.0.1:8000"

\* What stands for URLs and keys with percent signs: two escaped ones, one, a
\* sign that escapes nothing, and a reference to an option the file has not.
Four == "%%%%"
Two == "%%"
One == "%"
Reference == "%(x)s"

\* `.rstrip("/")`, of the one URL that ends with a slash.
Stripped(b) == IF b = "%%/" THEN Two ELSE b

\* BasicInterpolation.before_get, of what it does not raise for.
Interpolated(v) == CASE v = Four -> Two [] v = Two -> One [] OTHER -> v

\* before_set: a value that may be stored.
Storable(v) == v # One

Keys == (KeyArgs \ {NoArg}) \cup {"", "k1", "garbled", Two, One}
Bases == {DefaultUrl, Two, One} \cup {Stripped(b) : b \in (BaseArgs \ {NoArg, ""})}

ASSUME WidthAssumption == Width \in [Bases \cup Keys -> Nat]

\* "raised" stands for an exception and is nobody's URL.
ASSUME RaisedAssumption == "raised" \notin BaseArgs

\* The text of the file.  tail is what an earlier, longer text left behind the
\* one written over it: nothing that matters, lines that continue the key, or
\* something ConfigParser cannot parse or interpolate.
NoText == [base |-> "", key |-> "", tail |-> "none"]
Tails == {"none", "garbled", "broken"}

Defaults == [base |-> DefaultUrl, key |-> ""]
Raised == [base |-> "raised", key |-> "raised"]
NoResult == [base |-> "none", key |-> "none"]

VARIABLES
    file,      \* the text of config.ini; NoText when absent or empty
    pc,        \* per process: what its update does next
    request,   \* per process: the arguments of its update
    text,      \* per process: the text it is about to write, NoText if none
    result,    \* per process: what its last update returned
    settings,  \* what the last client resolved
    begun,     \* bound counter
    alone,     \* history, per process: no other update overlapped its last one
    collided,  \* history: two updates overlapped
    removed    \* history: the key was unset, and no key was set since

vars == <<file, pc, request, text, result, settings, begun, alone,
          collided, removed>>

Init ==
    /\ file \in {NoText} \cup {[base |-> DefaultUrl, key |-> k, tail |-> "none"] :
                                  k \in {"", "k1"}}
    /\ pc = [p \in Procs |-> "idle"]
    /\ request = [p \in Procs |-> [base |-> NoArg, key |-> NoArg]]
    /\ text = [p \in Procs |-> NoText]
    /\ result = [p \in Procs |-> NoResult]
    /\ settings = NoResult
    /\ begun = 0
    /\ alone = [p \in Procs |-> TRUE] /\ collided = FALSE /\ removed = FALSE

\* load_file_config raises on a text that it cannot parse or interpolate.
Loads(f) == f.tail # "broken" /\ {f.base, f.key} \cap {Reference, One} = {}

load_file_config(f) ==
    IF ~Loads(f) THEN Raised
    ELSE IF f = NoText THEN Defaults
    ELSE [base |-> Stripped(Interpolated(f.base)),
          key |-> IF f.tail = "garbled" THEN "garbled" ELSE Interpolated(f.key)]

-----------------------------------------------------------------------------
\* An update.

\* Fault: an empty key is no key.
KeyOrCurrent(cur, r) ==
    [base |-> Stripped(IF r.base \notin {NoArg, ""} THEN r.base ELSE cur.base),
     key |-> IF r.key \notin {NoArg, ""} THEN r.key ELSE cur.key,
     tail |-> "none"]

\* The new text.  Only the base URL's argument is tested for truth.
\* unset_config writes what save_config does for DefaultUrl and the empty key.
Updated(cur, r) ==
    [base |-> Stripped(IF r.base \notin {NoArg, ""} THEN r.base ELSE cur.base),
     key |-> IF r.key # NoArg THEN r.key ELSE cur.key,
     tail |-> "none"]

Active(p) == pc[p] # "idle"

SaveArgs == [base : BaseArgs, key : KeyArgs]
UnsetArgs == [base : {NoArg, DefaultUrl}, key : {NoArg, ""}]

\* Fault: the value is checked when it is read, not when it is set.
AcceptedAsIs(cur, r) == cur # Raised

\* The new text can be composed: the file loads, and parser["api"] = ... takes
\* URL and key, be they new or what was just read.
Accepted(cur, r) ==
    LET new == Updated(cur, r) IN cur # Raised /\ Storable(new.base) /\ Storable(new.key)

\* The update reads the file and composes the new text; it may raise before it
\* touches the file.
Begin(p, r) ==
    /\ ~Active(p) /\ begun < NUpdates
    /\ begun' = begun + 1
    /\ request' = [request EXCEPT ![p] = r]
    /\ LET cur == load_file_config(file)
           new == Updated(cur, r)
       IN IF Accepted(cur, r)
          THEN /\ text' = [text EXCEPT ![p] = new]
               /\ pc' = [pc EXCEPT ![p] = "truncate"]
               /\ result' = [result EXCEPT ![p] = NoResult]
          ELSE /\ result' = [result EXCEPT ![p] = Raised]
               /\ UNCHANGED <<pc, text>>
    /\ LET others == {q \in Procs \ {p} : Active(q)}
       IN /\ alone' = [q \in Procs |-> IF q = p THEN others = {}
                                       ELSE IF q \in others THEN FALSE ELSE alone[q]]
          /\ collided' = (collided \/ others # {})
    /\ removed' = (removed /\ r.key \in {NoArg, ""})
    /\ UNCHANGED <<file, settings>>

\* Fault: the file is opened without truncating it.
TruncateNot(p) ==
    /\ pc[p] = "truncate"
    /\ pc' = [pc EXCEPT ![p] = "write"]
    /\ UNCHANGED <<file, request, text, result, settings, begun, alone, collided, removed>>

\* config_path.open("w")
Truncate(p) ==
    /\ pc[p] = "truncate"
    /\ pc' = [pc EXCEPT ![p] = "write"]
    /\ file' = NoText
    /\ UNCHANGED <<request, text, result, settings, begun, alone, collided, removed>>

Length(f) == IF f = NoText THEN 0 ELSE Width[f.base] + Width[f.key]

\* The text goes to the start of the file, whatever is there by now.  What a
\* longer text leaves behind is at best an empty line.
Write(p) ==
    /\ pc[p] = "write"
    /\ pc' = [pc EXCEPT ![p] = "reload"]
    /\ \E t \in Tails :
          /\ Length(file) <= Length(text[p]) => t = "none"
          /\ file' = [text[p] EXCEPT !.tail = t]
    /\ text' = [text EXCEPT ![p] = NoText]
    /\ UNCHANGED <<request, result, settings, begun, alone, collided, removed>>

\* `return load_file_config(config_path)`
Reload(p) ==
    /\ pc[p] = "reload"
    /\ pc' = [pc EXCEPT ![p] = "idle"]
    /\ result' = [result EXCEPT ![p] = load_file_config(file)]
    /\ removed' = (removed \/ (request[p].key = "" /\ alone[p]))
    /\ UNCHANGED <<file, request, text, settings, begun, alone, collided>>

\* The process is killed; what it had buffered is lost.
Crash(p) ==
    /\ Active(p)
    /\ pc' = [pc EXCEPT ![p] = "idle"]
    /\ text' = [text EXCEPT ![p] = NoText]
    /\ UNCHANGED <<file, request, result, settings, begun, alone, collided, removed>>

-----------------------------------------------------------------------------
\* A client.

FirstOf(a, b) == IF a \notin {NoArg, ""} THEN a ELSE b

\* get_config with environment e: a variable wins, the URL's even when empty.
get_config(e, c) ==
    [base |-> Stripped(IF e.base # NoArg THEN e.base ELSE c.base),
     key |-> FirstOf(e.key, c.key)]

\* main_callback and _client: a flag, else its variable unless empty, else the
\* configuration c of get_config.
_client(fl, e, c) ==
    [base |-> Stripped(FirstOf(fl.base, FirstOf(e.base, c.base))),
     key |-> FirstOf(fl.key, FirstOf(e.key, c.key))]

Flags == [base : FlagUrls, key : FlagKeys]
Envs == [base : EnvUrls, key : EnvKeys]

\* A command of the CLI begins by making its client.  The file is read, and
\* may raise, even when flags leave nothing to look up.
Command(fl, e) ==
    /\ settings' = IF Loads(file)
                   THEN _client(fl, e, get_config(e, load_file_config(file)))
                   ELSE Raised
    /\ UNCHANGED <<file, pc, request, text, result, begun, alone, collided, removed>>

Next ==
    \/ \E p \in Procs :
          \/ \E r \in SaveArgs \cup UnsetArgs : Begin(p, r)
          \/ Truncate(p) \/ Write(p) \/ Reload(p) \/ Crash(p)
    \/ \E fl \in Flags, e \in Envs : Command(fl, e)

Spec == Init /\ [][Next]_vars

-----------------------------------------------------------------------------
\* Properties.

\* The file can be read, by the next update among others, unless two updates
\* overlapped or a URL or a key was set that the parser takes for a reference,
\* after which no update repairs it: a value that cannot be read back is refused
\* while the file is still whole, also when it comes from the file and the other
\* setting changes.
UnreadableHasCause ==
    ~Loads(file) => collided \/ Reference \in {file.base, file.key}

\* A key that was unset while no other update ran does not come back, whoever
\* updates the URL later and whoever is killed: an update writes back the key it
\* read, and by then there is none.
RemovedKeyStaysAway ==
    removed => file.key \in {"", "garbled"}

\* What a user gets of an update: it changes what it names, an empty URL aside,
\* and halves the percent signs of URL and key, named or not.
NewBase(r, u) == IF u.base \in {NoArg, ""} THEN r.base ELSE Stripped(u.base)
NewKey(r, u) == IF u.key = NoArg THEN r.key ELSE u.key

Applied(r, u) ==
    IF Reference \in {NewBase(r, u), NewKey(r, u)} THEN Raised
    ELSE [base |-> Interpolated(NewBase(r, u)), key |-> Interpolated(NewKey(r, u))]

\* Nothing is stored over a register that cannot be read, nor a single sign.
Refused(r, u) == r = Raised \/ One \in {NewBase(r, u), NewKey(r, u)}

\* The order of README.md: the flag, else the environment, else the register.
\* An empty variable counts as set for the URL and as unset for the key.
FirstSet(context, r) ==
    LET fl == context[1]
        e == context[2] IN
    IF r = Raised THEN Raised ELSE
    [base |-> CASE fl.base \notin {NoArg, ""} -> Stripped(fl.base)
                [] fl.base \in {NoArg, ""} /\ e.base # NoArg -> Stripped(e.base)
                [] OTHER -> r.base,
     key |-> CASE fl.key \notin {NoArg, ""} -> fl.key
               [] fl.key \in {NoArg, ""} /\ e.key \notin {NoArg, ""} -> e.key
               [] OTHER -> r.key]

Register == INSTANCE ConfigRegister WITH
    Update <- Applied,
    Refuses <- Refused,
    Contexts <- Flags \X Envs,
    View <- FirstSet,
    reg <- IF \E p \in Procs : pc[p] = "write"
           THEN load_file_config(text[CHOOSE p \in Procs : pc[p] = "write"])
           ELSE load_file_config(file),
    status <- [p \in Procs |-> CASE pc[p] = "idle" -> "idle"
                                 [] pc[p] = "truncate" -> "begun"
                                 [] pc[p] \in {"write", "reload"} -> "applied"],
    asked <- request,
    returned <- result,
    seen <- settings

\* As long as updates do not overlap, the file with its four-step updates, its
\* kills and the two resolvers in front of it is a ConfigRegister: an update
\* takes effect when the file is truncated (from then on a reader may see the
\* defaults, and a kill loses everything), a client gets the first of flag,
\* variable and register that is set.
ImplementsRegister ==
    Register!CRInit /\ [][~collided' => Register!CRNext]_(Register!crvars)

=============================================================================
