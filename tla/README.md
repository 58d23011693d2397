# greencompute in TLA+

This directory models the SDK, the CLI and the protocol package of greencompute: how they
talk to the platform, what they leave behind when a call, a connection or a process fails,
and what they compute that money or trust hangs on. TLC checks every model on small
instances, TLAPS proves the central invariants for all values of the constants.

`PROJECT.json` has the machine-readable index: which definition stands for which lines of
the source, which run checks what, which faulty variant of the code ("Fault" in the modules)
each property detects, which hazards the code has and which theorem says what.

To repeat a run: `tlc -config WaitTiming.cfg WaitLoops`; to repeat a proof:
`tlapm SignedRequestsProofs.tla`.

## 1. The system

The repository holds the two Python packages users and miners install. The services they
talk to (control plane, gateway, validator, node agent) are elsewhere; here they are the
environment.

| Component | Source | State | Operations |
|---|---|---|---|
| Signed miner requests | `protocol/.../http_client.py`, `auth.py` | mode, secret and seed of a client; the replay store `_seen` of a server process; the clock | `_signed_headers`, `sign_payload*`, `verify_payload*`, `mark_seen`, restart |
| API client: calls | `sdk/.../client.py` `_open`, `_request`, `_get`, `_delete` | attempt counter, the connection | connect, send, wait, read, retry, raise |
| API client: wait loops | `client.py` `wait_for_build`, `wait_for_deployment`, `wait_for_workload_ready` | start time, last answer | poll, decide, sleep |
| API client: streams | `client.py` `_get_stream`, `_post_stream` and the iterators over them | `current_event`, the rest of the connection | read a line, yield, end, raise |
| CLI: deploy, build, create | `sdk/.../cli.py` | where the command is; exit code | list history, upload, build, follow, wait, create, deploy |
| Configuration | `sdk/.../config.py`, `cli.py` `_client` | `config.ini`, variables, flags | `save_config`, `unset_config`, `load_file_config`, `get_config`, `_client` |
| Storage metering, inference pricing | `protocol/.../billing_rates.py` | the remainder carried on a pod; what a client owes | `storage_mcents_per_minute`, `inference_cost_cents`, `rates_for_model` |
| GPU rates and hardware table | `billing_rates.py`, `models.py` | the price list; the rate locked on a rental | `rate_for_gpu`, `canonical_vram_gb`, placement, a new price list |
| SSH host keys | `protocol/.../ssh_host_keys.py`, `models.py` | the keys on a deployment's record | clean, update, reload |
| Packaging of build contexts | `sdk/.../packaging.py`, `image.py`, `workload.py` | an image's directives; included and excluded paths, the archive | directives, context paths, collect, ignore, sort, write |
| Workload and image DSL, loader, templates | `workload.py`, `image.py`, `loader.py`, `templates.py` | none after construction but the image's directives | build payloads and Dockerfile text |
| Protocol data models | `models.py`, `enums.py` | none | validators of single objects; what an update request fills in |
| CLI: SSH access, updates | `cli.py` `deployments_ssh`, `workloads_update`, `deployments_update` | a key file of the renter; the payload | ask, open, write, chmod; compose, PATCH |
| CLI: listing, sharing, secrets, keys | `cli.py` | none | one API call and a table each |

How they interact. A CLI command first resolves its settings from flags, environment and
`config.ini` (shared with every other CLI process), then makes synchronous API calls; a call
may retry. `deploy` strings together packaging, a build, a wait loop with or without a log
stream, the creation of a workload and of a deployment, and another wait loop; builds and
deployments move on at the platform meanwhile, and other processes use the same image name.
A miner's agent signs each request; the control plane verifies it against a replay store that
lives in one server process and is shared by its threads. The gateway, the metering loop and the
placement of rentals all go by the constants of `billing_rates.py`. A machine reports a pod's host
keys, which the protocol models clean on every construction, and its private key, which `deployments
ssh --save-key` puts into a file. `workloads update` and `deployments update` send a PATCH through
the retrying client, and a request model decides what of the stored record it changes.

What is hard, and what makes each part correct:

* **Signed requests.** Check and add in `mark_seen` are two steps without a lock; the store is
  empty after a restart; the nonce is spent before the signature is checked; a client in hotkey
  mode without a wallet signs with the shared secret. Correct: what is accepted was signed by
  the actor it names; a request is decided once per life of a store (once per overlap with
  threads); nothing is refused without a cause; over restarts, the window bounds what can be
  replayed.
* **API calls.** An attempt can be executed though its caller saw an exception, now or later;
  POST is retried like GET. Correct: a call is executed at most once per attempt; an answer says
  what can be said; a call always ends.
* **Wait loops.** The answer is older than the clock it is compared with. Correct: a loop gives
  up only when what it waits for had not happened in time, and gives up in time.
* **Streams.** A connection that is cut between chunks ends like a complete one. Correct: what is
  delivered is a prefix, under the right event names; "terminal" is true; the end is told; a
  silent connection does not hang the reader.
* **deploy and build.** Every call may fail with or without its effect, builds of other
  processes are reused. Correct: nothing is deployed before its image is published, exit code 0
  is true, leftovers of a failed command have a cause the user can be told (a lost answer, a failed
  poll, a passed deadline, a refused deployment), and commands end unless they follow the log of a
  build that never does.
* **Configuration.** Read, truncate, write and re-read are separate steps of processes that may
  be killed; ConfigParser writes values raw and interpolates them on reading. Correct: without
  overlap it is a register; a removed key does not come back; the documented order of settings
  holds; the file becomes unreadable only by an overlap or by a URL or key that is a reference.
* **Money.** Rounding per minute and per completion, a minimum, several spellings of one model or
  GPU (letter case, blanks, owners), prices that change under running rentals. Correct: errors do not build up beyond the rounding,
  spelling does not change the price, a rental keeps the rate of its placement.
* **Updates of records.** A PATCH may be executed more than once, or long after the client gave
  it up; a setting that is not named must not be touched, and a lifecycle policy is one setting.
  Correct: the last acknowledged word stands unless an older request is still loose, and nothing
  unnamed changes.
* **Saved keys.** Open, write and chmod are separate steps, each of which may fail, and a call that only
  serves a printout comes first. Correct: until a command opens the file it leaves it alone, whatever fails;
  what is in it afterwards was given, or tells of a command that ended in between; after exit code 0 it is
  private.
* **Host keys.** The sender is untrusted, no keys is not the empty list, the record is cleaned
  again whenever it is read. Correct: the record is the first good keys of the last report.
* **Packaging.** Links, directories, ignored and vanishing files, a Dockerfile of the project's own,
  any order, a limit on the compressed size. Correct: complete, independent of order, and what is copied is there.

`PROJECT.json` lists the hazards behind these one by one with their lines.

## 2. Modules

| Module | Models | Abstract counterpart | Proofs |
|---|---|---|---|
| `SignedRequests` | signing clients, network, verifiers, replay stores | `VerifierContract` | `SignedRequestsProofs` |
| `ApiCall` | one call of the client with its retries, against the server | `CallContract` | `ApiCallProofs` |
| `RecordUpdates` | extends it: what the update commands send, and the record it is merged into | | `ApiCallProofs` |
| `WaitLoops` | the three wait loops against a moving platform | | `ClientProofs` |
| `LogStream` | three readers of event streams | | `ClientProofs` |
| `DeployFlow` | the commands that make builds, workloads and deployments | | `DeployFlowProofs` |
| `ConfigFile` | `config.ini`, its updates, settings of a client | `ConfigRegister` | `ConfigFileProofs` |
| `StorageMeter` | the storage charge and the metering loop | | `BillingProofs` |
| `InferencePricing` | the price of completions | | `BillingProofs` |
| `GpuRates` | rentals at the rate of their placement | | `BillingProofs` |
| `BillingAccount` | composes the three above: one account | | `BillingProofs` |
| `HostKeys` | host keys from the machine to the record | | `PodAccessProofs` |
| `PodAccess` | extends it: reports with a private key, and the commands that save it | | `PodAccessProofs` |
| `Packaging` | from a script's image and paths to the archive, twice on one tree | | `DeployFlowProofs` |

`MC...` modules give instances the values a `.cfg` cannot write. `FoldLemmas` has what
`BillingProofs`, `PodAccessProofs` and `DeployFlowProofs` need of loops over a list. Two models whose proofs share a module have names of their own for
`Init`, `Next` and `Spec` (`WaitSpec`, `PackSpec`, `RentalSpec`).

### SignedRequests
State: `client` (mode, whose wallet, which secret), `wire` (every request ever sent: delivery
is any number of times, in any order, by `Begin` picking one), `clock`, per process `seen`,
`secret` and `epoch`, per worker `pc` and `call`, and the `log` of verdicts. `Send` is
`ControlPlaneHTTPClient._request` with `_signed_headers`; `Begin` is the entry of
`verify_payload` and `verify_payload_hotkey` up to the window; `CheckSeen` and `AddSeen` are
the two halves of `mark_seen`, which is why threads can interleave there; `CheckSignature` is
the rest; `Restart` empties the store and may load another secret. A signature is the pair of
key and message: sha256, HMAC and ed25519 are taken to be injective. A damaged one is a mismatch, or
holds what is not ASCII, for which `hmac.compare_digest` raises a `TypeError` that nobody catches: the
call is decided all the same, its nonce is spent. `now or int(time())`
treats `now=0` like `None`; `current_time` does too.

`VerifierContract` is the promise: a key is granted once until the store forgets, and each
grant is decided at most once. With one thread per store the two halves of `mark_seen` refine
its atomic `Grant`; with two threads they do not, and `AtMostOnceUnlessConcurrent` says what is left.

### ApiCall
State: the loop variable `attempt`, what the client is doing (`conn`), the `answer` of the
current attempt, per call the requests given up but perhaps still to be handled (`stray`), how
often it was `executed`, and what the caller got (`outcome`, and in the history variable
`cause`, why). Each way urllib can end an attempt is an action: `ConnectFails`, `SendBreaks`,
`ReadTimeout`, `Disconnect`, `ReceiveAnswer`, `ErrorBodyBreaks`, `BodyBreaks`. What is retried and what
escapes as another exception follows `_open` clause by clause: urllib wraps errors while
connecting and writing in `URLError`, lets those while waiting for the status line through, and
`response.read()` is outside the `try`. The platform is taken to answer without redirects: urllib follows
301, 302 and 303 by itself and makes a GET of a POST, and the answer is then one to another request. It does
not follow those of a PATCH or DELETE, which count as "4xx". `CallContract` is what a caller may rely on, as a budget
of executions: calls refine it with budget = what the loop may still send, plus what is under way.

### RecordUpdates
Extends `ApiCall`: `args` has the command line of each call, `stored` the record at the platform,
`loose` (history) which calls left a request behind. `payload` and `lifecycle` are what
`workloads_update` composes of the options that are given, `UpdateRequest` what
`WorkloadUpdateRequest` makes of it (a `lifecycle` dict is a policy of its own, so its other half
comes from the class's defaults), `Merge` what the platform does with a field that is not `None`.
`Execute` is `ApiCall`'s `ServerHandles` or `ServerHandlesStray` with that effect. Every property of
`ApiCall` is checked here, where a call has an effect worth losing.

### WaitLoops
State: the platform's `state` of each target, `now`, the loop's `wait_pc`, the answer under way
(`listing`). `Ask` is the moment the platform answers; `Answer` is when the loop has it and
decides; in between and before up to `Latency` seconds pass each. `settled` remembers since
when a target has been in a state to return on.

### LogStream
State: the `frames` of the log, the lines on the `wire`, how the connection ended, the reader's
`event`, what it has `yielded`. A cut leaves whole lines and perhaps a part of one. http.client
reports a body that ends early only inside a chunk, so `Cut` (unnoticed) and `Break` (raises)
both exist. Each line and entry carries the number of its frame, which no reader knows, so that order
can be stated of frames that look alike. Three readers: `stream_build_log_entries`, `stream_build_logs` (`builds logs` and
`--wait`), `invoke_stream`.

### DeployFlow
State: per process its command line, the call it makes next, its exit code; at the platform
builds, workloads, deployments; calls given up and perhaps executed later (`late`). Each call
with an effect returns, or raises before, after or long before it is executed, which is what
`ApiCall` leaves of a call without retries (the CLI sets none). Wait loops are those of `WaitLoops` with
time reduced to "deadline passed".

### ConfigFile
State: the text of the file (`tail` is what a longer text leaves behind a shorter one), per
process the step of its update, the text it holds. `Begin` reads and composes; `Truncate` is
`open("w")`; `Write` is the write at close; `Reload` is the final `load_file_config`; `Crash` may
come anywhere. `Command` is any command making its client: flag, else variable, else file, as
`get_config` and `_client` decide it in two places. URLs and keys with percent signs are a few values with
what `BasicInterpolation` makes of them on reading (`Interpolated`), refuses on setting (`Storable`) and
raises for (`Loads`); a URL also loses its last slash, when it is set and when it is read. `ConfigRegister` is the register users get: an update that is not refused applies at one
moment, a client sees flag, variable or register; the instance says that percent signs halve.

### StorageMeter, InferencePricing, GpuRates, BillingAccount
`Tick` is the control plane's metering loop as the docstring of `storage_mcents_per_minute`
describes it; the charge itself, with Python's rounding to even, is the code's. `Settle` settles
one completion for clients that send the same tokens and differ in how they spell the model.
A spelling is the sequence of its words, slashes and blanks, and `_normalize_model_id` strips, lowers and
splits it as the code does; `SpellsModel` says without it which spellings mean a model, and one with a
blank between the last slash and the id does not: it is billed at the default rates. In `GpuRates` every machine is rented at
each `Place`, with `rate_for_gpu` of the name it reports locked on the rental; `Redeploy` is the new
price list of the module's docstring, `Hour` the control plane's bill. `_normalize_gpu_model` is a loop that
drops separators and lowers the rest; what a spelling says (`Spells`) is stated without it, by where its
two words are. `BillingAccount` interleaves all three.

### HostKeys
A reported value is a record of the facts the code looks at: number of fields, type, the type its
blob names, whether it is short enough, and what follows the key as a number (0 for nothing). `Apply` and `Reload` clean again what is clean already, as pydantic's
validators do at every construction.

### PodAccess
Extends `HostKeys`: a ready report also brings the private key (or none), another may take the
endpoint away. A command of `deployments ssh --save-key` goes through `GetSsh`, `GetPorts` (whose
HTTP errors are swallowed and whose other errors are not), `Open` and `Write` (the two halves of
`write_text`), `Chmod`; several run on one path. Each may fail with exit code 1: `OpenFails` touches nothing,
`WriteFails` (disk full, text that cannot be encoded) leaves an emptied file or the beginning of the text
(`whole` is then false), `ChmodFails` (another owner, a file system without permissions) leaves the permissions
as they are. `pc` keeps the step a command got to, `end` how it ended. Other people's access is the file's `mode`.

### Packaging
A tree of names, targets (links) and directories. A script is a sequence of steps: paths for the
workload, copies, a base and other directives for the image; two runs take the same steps in orders
of their own. `Directives`, `context_paths` and `build_context_paths` are what the DSL makes of the
script, `Collect` one turn of `_collect_context_paths`, `WriteDockerfile`, `WriteFile` and `Finish`
the rest of `package_workload`. `Vanish` deletes a file at any moment in between. The limit is on compressed
bytes, which depend on every entry and their order: `TooLarge` is any predicate of the finished archive.
An image given as a string is the script that only says `from_base`.

## 3. Runs

Every passing run lists its invariants and properties in its `.cfg`. For each property there is
a mutant in `PROJECT.json`: a plausible fault of the code under which TLC finds it violated in
the same run.

| Run | Instance | What it shows |
|---|---|---|
| `SignedThreads` | 2 threads, 1 store, 1 miner, 2 requests, 4 deliveries, clock 1..2, 1 restart | two decided calls on one request overlapped; a replay refusal has an original |
| `SignedProcess` | 1 worker, 2 miners in three pairs of configurations, 2 bodies, 2 secrets, window 1, skew 2, clock 1..4, 2 calls, 1 restart, damage on the way | `AtMostOnce`, `ReplayHorizon`, `AcceptedIsAuthentic`, `MismatchHasCause`, refinement of `VerifierContract` |
| `RecordUpdates` | 2 calls of 4 command lines, 2 retries, good and bad URLs | executions bounded; what an answer tells; calls end; refinement of `CallContract`; the last word stands; unnamed fields are kept |
| `Config` | 2 processes, 3 updates, kills; URLs with 2 and 1 percent signs, keys with 4, 2 and 1, a reference in either; every flag and variable | removed key stays away; why the file is unreadable; refinement of `ConfigRegister`, which has the order of settings |
| `BillingAccount` | 3 daily rates, ticks up to 3 minutes apart, 9 minutes; 2 completions, 3 x 3 token counts, 3 models, 4 spellings; 9 machines, 2 placements, 2 price lists | drift and rounding bounds; spelling does not matter |
| `WaitTiming` | 2 targets, timeout 4, interval 2, latency 2, jitter 1 | nothing overlooked; loops end, and on time |
| `DeployTwo` | 2 commands of 6 kinds, with and without `--wait` | published first; exit code 0 is true; leftovers have a cause; commands end, or follow a log for ever |
| `LogReaders` | up to 2 frames and the final one, 3 readers, follow or not | order, terminal entries, end, no hang on a silent connection |
| `PodAccess` | 7 kinds of values, reports of up to 3, 2 reports, room for 2 keys; 2 commands, 2 private keys, each step failing or killed | the record is the last report's first good keys; what is saved was given; the file is private when done, and readable only for a cause |
| `PackagingOrder` | 9 files, 4 directories, 14 steps of which a script takes up to 3, 2 files that may vanish, a limit that four files exceed or not depending on the Dockerfile and its order | complete; order does not show; the Dockerfile and what it copies |
| `StorageDay` | 100 cents, 2 days by the minute | finding 1 below |
| `ApiTimeoutClass` | 1 call, 1 retry | finding 2 below |

Why these bounds are enough. *Signed*: a replay needs one request delivered twice, a race two
threads, a lost store one restart; four deliveries leave room for a decided call, two racing
ones and a late one, and a clock range of 4 against a window of 1 has every order of in time,
expired, and in time again. *RecordUpdates*: two retries give a first, a middle and a last attempt, and
a second call can begin while the first one's requests are still under way; the command lines have a
plain field, each clearing flag with the value it wins over, either half of a policy, and
`deployments update`. *Config*: two processes overlap in
every order, a third update sees what two left; texts come in three lengths; the processes
run the same code under interchangeable names, so the run uses their symmetry (as `PodAccess` does), and its
properties are all safety; four percent signs take two further updates to become one, and two in a URL one.
*BillingAccount*: the
token counts sit on both sides of half a cent for each rate, nine minutes and the remainder
show the drift of the largest rate, the spellings have three letter cases, blanks outside and one inside, and one placement falls on either side of the new prices. *WaitTiming*: time passes the deadline during a request,
an answer and a sleep. *DeployTwo*: one process's build is the published one the other one finds.
*LogReaders*: first, middle and last frame, named and unnamed. *PodAccess*: three values for two
places, so that bad values and repeats compete with good ones; once a command is under way reports have at
most `MaxMeanwhile` values, since commands read only the private key; two commands overlap in every order. *PackagingOrder*: three steps can be
in six orders, and directories overlap in `data` and `b`.

`CHECK_DEADLOCK FALSE` stands where the system comes to rest: all calls made, the commands ended, the bounded
number of verdicts given, the archive written.

**Fairness.** `ApiCall` and `RecordUpdates`: weak fairness of the client, since every socket operation ends after
`timeout_seconds` at the latest and a sleep ends. `WaitLoops`: weak fairness of the loop, for the
same reason. `DeployFlow`: of each process's next step, and of the clock of its wait loops.
`LogStream`: of the reader. The platform and the network owe nothing in any of them: they may
stay silent, never finish a build and never execute a call. (`CallsEnd` takes a body that has begun to
arrive to end or to stop: one that dribbles within every timeout would keep `response.read()` alive.) That is why
`CommandsEnd` excepts a command that stays for ever at the log of a build that keeps running, and nothing
else: one that leaves the log, as by a cut, has to end. And `EndsUnlessTalking`
a stream that is kept open by comments: following has no deadline in the code.

### Findings

1. `storage_mcents_per_minute` says that the charge "converges to exactly `cents_per_day` over any
   24h window regardless of tick jitter". It rounds 69.44 millicents to 69 a minute; a day at 100
   cents comes to 99.36, and the remainder that is carried cannot make up for it (`StorageDay`).
   What holds for every rate is `DriftBounded`: at most half a millicent a minute.
2. `GreenComputeTimeoutError` is documented as "Request timeout." and
   `GreenComputeConnectionError` as "Connection or network error."; `_open` raises the first for
   every `URLError` that wraps an `OSError`, a refused connection among them, and the second only
   for an unknown URL scheme (`ApiTimeoutClass`).

### Observations, not runs

Things met while modelling that no text in the repository contradicts, or that the models leave out:

* `build --image ... --context-uri ... --wait` ignores `--wait` and exits 0 at once (`cli.py:691`);
  `SuccessIsTrue` claims a published build only for `build <module_ref> --wait`.
* `wait_for_workload_ready` returns the first deployment in a returning state, which may be an old
  failed one while a new one starts (`client.py:438`).
* A followed log that is cut between two chunks ends `builds logs` with exit code 0 (`cli.py:533`).
* A project's own `Dockerfile` in the context becomes a second archive entry of that name
  (`packaging.py:50`), and since it comes later it replaces the one the image's directives render;
  `ScriptIsBuilt` says so.
* `Image.copy` of a link puts the file into the archive under the name it resolves to, so the
  directive names a file that is not there (`packaging.py:106`); the same for an ignored file.
* A URL or a key with percent signs loses half of them with every later update of the other setting, until
  the single one left is refused; one with a reference such as `%(x)s` makes every load raise from then on,
  so that neither `config set` nor `config unset` can repair the file (`config.py:38`, `config.py:48`).
* A GPU name as the driver gives it ("NVIDIA GeForce RTX 4090") is billed at the legacy rate
  (`billing_rates.py:68`).
* `workloads update --shutdown-after-seconds N` alone resets the workload's scaling threshold and
  warm-up to their defaults: the policy arrives as a whole (`models.py:219`).
* A PATCH that timed out and is executed late brings back the value a later, acknowledged PATCH has
  replaced (`client.py:128`); `LastWordStands` has to except it.
* `deployments ssh --save-key` writes an empty line over an existing key file if the answer has no
  private key, and leaves a new file readable by the umask between write and chmod (`cli.py:823`). A write
  that fails leaves the old key emptied, a chmod that fails leaves the new one readable, both with exit code 1
  (`cli.py:824`); `SavedKeyIsGiven` and `PrivateWhenDone` say so.
* A POST that is answered with a redirect comes back as the answer to a GET (`client.py:124`).
* A signature that is not ASCII makes `verify_payload` raise a `TypeError` instead of returning a verdict
  (`auth.py:101`).
* Whether a context is too large depends, in bytes, on the Dockerfile's lines and so on the order of a script
  (`packaging.py:54`); `Deterministic` promises one outcome for one list of directives only.
* `deploy` loads the user's module, and `_ensure_built` loads it a second time (`cli.py:720`), so an
  edit in between gives an image of one version and a workload of another.

## 4. Proofs

Every theorem is proved down to the last leaf and holds for all values of the constants. What it
assumes of them is in the named assumptions of the modules, which TLC evaluates in the runs:

| Assumption | Says | Why the code has it |
|---|---|---|
| `ConstantsAssumption`, `GarbledAssumption` | types; an actor is no secret, and a damaged signature is none that a key makes | an HMAC and an ed25519 signature do not coincide, with keys of two kinds; a signature that was changed does not verify |
| `ApiAssumption` | the numbers are integers (a negative number of retries counts as 0) | `max(0, max_retries)` |
| `OptionsAssumption` | a command line gives options of the two commands | typer refuses others |
| `ProcsAssumption` | a build made before is none of a command's | builds have ids of their own |
| `WidthAssumption`, `RaisedAssumption` | texts have a length; the mark for an exception is no URL | a choice of the model |
| `GpuAssumption` | spellings are of the listed words and separators; there is a price list, and every one has the two cards, above the legacy rate | the table in `billing_rates.py`, whose rates are all above its fallback |
| `ValuesAssumption` | host key values are records of the facts named; a limit | `MAX_KEYS` |
| `TreeAssumption`, `StepsAssumption` | the files in the order of their names, each once; directories have files; a script has finitely many steps, whose paths are in the tree or missing | a choice of the model |
| `PricingAssumption` | a spelling is made of words, slashes and blanks; types | the words are those of the models the list prices and one it does not |
| `MeterAssumption`, `WaitAssumption` | types and bounds | as commented there |

Liveness apart, a property of a run says something of every reachable state or every step, and its
proof has three parts: an invariant that is inductive, one lemma per action that shows it is kept, and
a few lines from there to the property. What the invariants add to the properties is where the
arguments are.

**`SignedRequestsProofs`.** `TypeCorrect` is type correctness.
`AtMostOnceUnlessConcurrent` is not inductive: it speaks of verdicts, and what decides a verdict
happened steps earlier, in another thread. `ReplayInv` adds what connects them:
`LogIsPast` (no verdict is from a later life of its store), `DecidedIsSeen` (a decided request of
this life is in the store), `SignIsSeen` (so is one whose signature is being checked),
`ClaimsOverlap` (a worker past the check began before every verdict that was decided on
its request) and `CallsInTurn` (calls of one worker do not overlap). `ReplaySafe` follows for any
number of threads, processes, restarts and clock steps; `ReplayOnce` gives `AtMostOnce`
under the hypothesis `OneWorkerPerStore`. `ArrivalInv` follows a request instead of a store: what is
on the wire was signed by its actor's client, what is in a call or decided comes from there through
the alterations `Arrivals` allows, was fresh by the clock the call read, and got the verdict of its signature. From it,
`Authentic` and `NoFalseMismatch` are case distinctions over the two entries and the two keys, and
`HorizonHolds` is the triangle inequality on two readings of the clock. `OriginalInv` says who put a key into
a store (a decided call, or one about to be), and `NoFalseReplay` follows. `VerifierKeepsContract`
maps every step to one of `VerifierContract` or to a stutter: with one worker per store, `AddIsNew`
makes `AddSeen` the atomic `Grant`.

**`ApiCallProofs`.** `ExecutionsBounded` is strengthened to `CallInv`: types,
`Untouched` (a call not begun has nothing anywhere), `Connected` (there is an answer or a pending
request only while waiting or reading), `Affordable` (executed + stray + what the loop may
still send never exceeds `max_retries + 1`). Every failed attempt moves one unit from the
loop to `stray`, every execution one from `stray` or the pending request to `executed`. `AnswerInv`
adds what a refusal under way says of its attempt, and that an unusable URL has sent nothing; `AnswersCanBeTrusted` is
then a property of each step. `CallsKeepContract` shows that the budget of `CallContract` (attempts left, stray and
pending requests) changes as the contract says. `UpdInv` is about the record:
`ExecutedStands` states `LastWordStands` of every executed call, as acknowledgements come after
executions, and `LooseNoted` and `Given` say which calls can still change the record. The lemma
`MergeSays` shows field by field that options, payload, request model and merge together change what a command names,
to what it says, and nothing else. All theorems about calls are stated of `Safety`, which is `Spec` without its fairness,
and `UpdatesAreCalls` carries them over to `RecordUpdates`, whose behaviours are calls with more said about them.

**`ConfigFileProofs`.** `ConfigInv` describes an update that nobody disturbs (`Undisturbed`), says
that a process which has been alone is in that state (`AloneIsAlone`), and that before any overlap a text to be written
is composed of what the file has (`Apart`); `Readable` and `KeyGone` follow the two ways in which a file goes
wrong. `SignFree` is why a value that is stored can be read back unless it is a reference: a single percent
sign is never composed into a text, be it URL or key. `FileKeepsRegister` maps the file to its contents and a truncated one to the text
in hand, so that `Truncate` is the moment the update applies, `Write` a stutter, `Reload` its end, and a kill in
between the loss that the register's `Die` allows; `ClientIsFirstSet` shows that the two resolvers of `get_config` and `_client`, one looking behind the other, make one choice.

**`DeployFlowProofs`, commands.** `FlowInv` is about one process at a time: `Route` (which call which command
comes to), `Progress` (what the platform has of it at each call), `Losses` (only a command that ended by a
failed call has lost one, and what is late has had no effect), and the three properties; a cause of
`LeftoversExplained` is what `Progress` says of the call at which the command ended. Of the others it needs no more than that a published build stays published;
`SameKeeps` is that step, once for all actions.

**`ClientProofs`, streams.** `LogInv` is about the end: the frame that tells it is the last, its line the last
with data, and if nothing was cut it is on its way or told. `OrderInv` is about everything before it. The reader
does not know frames: a name is in force until a blank line. So the invariant says of each line with data
that the name in force when it will be read (`Named`) is that of its frame, which `SendFrame` keeps since a wire that has been read leaves none
in force (`AtRest`). `WireOrder` and `LogOrder` keep lines and entries in the order of their frames,
and `Covered` says that all frames before one that is there are there too. Lines and
entries carry the number of their frame as history for this.

**`BillingProofs`.** `MeterInv` is types and `Conserved` (debits and
remainder come to exactly the charge per minute times minutes); with the bounds of `Round` it
gives `DriftBounded` for every rate. `HalfUpIsNear` bounds one rounding, `CostBounds` one price,
`SpelledRates` shows that whoever spells a model in the sense of `SpellsModel` gets its rates, whatever the
letter case, the owners and the blanks: `TrimmedIs` says what stripping leaves, `SpelledIs` that the last part,
lowered, is the id. The bounds add up in `PricingInv`. For rentals, `KeySpells` and `SpellsKey` show that a name is normalised to a listed card exactly when it
spells it: `KeyPicks` says which positions the loop keeps, `LowerIs` which words become the card's. So a
placement treats machines by what they say (`PlacedFair`), and `RentalInv` keeps that of every placement that is locked, under
whatever prices it was made; `SumsAgree` and `SumBounds` carry it through the sum over placements that an hour adds.
`PartsAreIndependent` shows that the composed account behaves as each of the three, so that
all this holds there.

**`ClientProofs`, wait loops.** `WaitInv` is `Clock` (how late each step can be, per value
of `wait_pc`) and `Watched` (what the answer under way says about the past). `NothingOverlooked` and
`EndsOnTime` follow for every timeout, interval, latency and jitter.

**`PodAccessProofs`.** `PodInv` says that the text is what it was before as long as nobody has opened the file, and
from then on explained by a command that did, wherever that one ended; `PartExplained` says it of a text of which only the
beginning is there. It keeps the file private from the first exit code 0, and needs nothing of how keys are cleaned. For the keys, `TurnOk`
is the invariant of the loop in `clean_ssh_host_keys`: what was kept is good and distinct, stands behind all
good keys before it, and leaves none out while there is room. It gives `CleanAgain` (what is clean is cleaned to itself), so that
`KeysInv` (the record is the cleaning of the last report) survives each construction of the record, and
`RecordOfReport` reads `RecordIsLastReport` off `TurnOk` by counting.

**`DeployFlowProofs`, packaging.** `PathsAre`, `BuildPathsAre`, `CandidatesAre` and `InOrderIs` say which sets the lists of
a script have in them. `PackInv` describes each packaging by its script alone (`RunOk`): every candidate is to be
collected or has been (`Collected`: what is there of it is inside the directory and among the files found); the archive and
what is left to write are, put together, the files kept in their order (`Written`); and an error has a cause, which is a deletion
or is decided by the paths (`Refused`) or by the directives and the files kept (`Oversized`, for whatever limit:
`WrittenIsWhole` says which archive it is asked of). `ContextComplete` and `ScriptIsBuilt` follow. For `Deterministic` nothing relates the two
packagings but their steps: if nothing was deleted, what one kept is a function of its set of paths (`KeptAre`), how
it ended is one of these and its directives (`Decided`), and `SameSteps` shows that the two sets are one.

**`FoldLemmas`.** `FoldLeft` of the community modules is defined by a function that recurses over sets of positions.
`FoldExists` shows that there is such a function, built up one position at a time, `MaxOfTurns` that it takes the
positions one after another, and `AllTurns` is induction on the set of
the turns after which an invariant of the loop holds: a set, not an operator, so that it can be cited. All rests on
`LeastExists`, from the library's theorem that the naturals are well-founded. `FilterPicks` is the case of
a loop that appends at some positions.

Only model-checked:

* Liveness (`CallsEnd`, `WaitEnds`, `CommandsEnd`, `EndsUnlessTalking`): beyond the prover.
* The two findings: they are violations.

## 5. Not modelled

* The services: external, modelled by what the code in this repository expects of them.
* Data models other than the update requests, the lifecycle policy, the status update and the
  deployment record: schemas of single objects, without state or steps.
* Templates, payload builders, `load_workload`: they compute one object from another. What they decide
  about an archive is in `Packaging`. That the SDK accepts image names and limits which the
  request models refuse is a matter of two patterns, not of states.
* Listing, sharing, secrets, keys: one call and a table each; the call is that of `ApiCall`.
* `mask_secret`, fingerprints, known_hosts lines: formatting.
* Cryptography, fnmatch patterns, zip and ini syntax, Python floats: abstracted as said above.
* A module file that changes between the two loads of `deploy`, and a file that changes (and does not
  vanish) while it is packaged: nothing in the code relates the two readings, so nothing could be stated.
* Which deployment of a workload `wait_for_workload_ready` is to return: the loop is modelled, but no
  text says which one is meant.

## 6. Plan

All components that keep state or take steps are modelled, and every invariant and action property that a passing run
checks is stated by a theorem. What a team that keeps this could add:

1. A liveness argument for `CallsEnd` and `CommandsEnd`, with a prover that has `ENABLED`.
2. Runs with larger instances of `DeployFlow`, whose liveness property is what limits its run.
3. If the repository comes to say which deployment `wait_for_workload_ready` is to return, or what `deploy` does about a module
   that is edited between its two loads: the properties of `WaitLoops` and `DeployFlow` that say so.
