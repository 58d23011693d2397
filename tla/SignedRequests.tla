--------------------------- MODULE SignedRequests ---------------------------
(***************************************************************************)
(* Signed miner requests: protocol/.../auth.py and the signing half of     *)
(* protocol/.../http_client.py.                                            *)
(*                                                                         *)
(* A miner's ControlPlaneHTTPClient signs every request with a fresh nonce *)
(* and the miner's clock.  The control plane runs verify_payload or        *)
(* verify_payload_hotkey on it, in one of several worker threads that      *)
(* share the replay store of their process.  mark_seen is a membership     *)
(* test followed by an add, with no lock: a thread may be preempted        *)
(* between the two, so they are two actions here.                          *)
(***************************************************************************)
EXTENDS Integers, Sequences, FiniteSets

CONSTANTS
    Actors,      \* miners, named by their hotkey address (actor_id)
    Nonces,      \* the random nonces; one is consumed per signed request
    Bodies,      \* request bodies (equivalently their sha256 digests)
    Secrets,     \* HMAC shared secrets
    Workers,     \* worker threads that call the verifier
    Stores,      \* MemoryReplayStore objects, one per server process
    StoreOf,     \* the store a worker passes as replay_store
    Clients,     \* possible client configurations (see ClientConfig)
    NoWallet,    \* coldkey_name is None: no hotkey seed was loaded
    NoCall,      \* an idle worker has no call
    Garbled,     \* a signature header that is no longer hexadecimal
    Entries,     \* the verifiers the server calls: "hmac", "hotkey" or both
    Faults,      \* what happens to requests on the way: "body", "signature"
    GivenNows,   \* values passed as `now`; 0 stands for None as well
    Window,      \* window_seconds
    MaxSkew,     \* bound: distance between a miner's clock and the server's
    MaxTime,     \* bound: largest server clock reading
    MaxCalls,    \* bound: verifier calls in a behaviour
    MaxEpoch     \* bound: restarts of one server process

Modes == {"hmac", "hotkey"}

\* Constructor arguments of ControlPlaneHTTPClient that decide how it signs.
\* Without a usable wallet file load_hotkey_from_wallet raises and there is no
\* client; else wallet is whose seed it read, the actor's own or another's.
ClientConfig == [auth_mode : Modes, wallet : Actors \cup {NoWallet},
                 auth_secret : Secrets]

ASSUME ConstantsAssumption ==
    /\ StoreOf \in [Workers -> Stores]
    /\ Clients \subseteq [Actors -> ClientConfig]
    /\ Window \in Nat /\ MaxSkew \in Nat /\ MaxTime \in Nat \ {0}
    /\ MaxCalls \in Nat /\ MaxEpoch \in Nat
    /\ GivenNows \subseteq Nat /\ Entries \subseteq Modes
    /\ NoWallet \notin Actors
    /\ Actors \cap Secrets = {}      \* signatures of the two kinds differ

VARIABLES
    client,      \* the configuration of each miner's client
    wire,        \* every request sent so far; delivery is any number of times
    clock,       \* the server's int(time())
    seen,        \* per store: _seen
    secret,      \* per process: the shared secret it verifies with
    epoch,       \* per process: how often it was restarted
    pc,          \* per worker: where it is in verify_payload*
    call,        \* per worker: the arguments and locals of its call
    log          \* history: the verdicts returned, in order

vars == <<client, wire, clock, seen, secret, epoch, pc, call, log>>

-----------------------------------------------------------------------------
\* What is signed.  A signature is the key it was made with, of which kind,
\* and the message; sha256, HMAC and ed25519 are taken to be injective.

\* Fault: the body is not part of what is signed.
CanonicalNoBody(actor, nonce, timestamp, body) == <<actor, nonce, timestamp>>

_canonical(actor, nonce, timestamp, body) == <<actor, nonce, timestamp, body>>

\* The readings a miner's clock can have.
Timestamps == (1 - MaxSkew)..(MaxTime + MaxSkew)

Signed == [key : Actors \cup Secrets, msg : Actors \X Nonces \X Timestamps \X Bodies]

ASSUME GarbledAssumption == Garbled \notin Signed

Signature == Signed \cup {Garbled}

SignedRequest == [actor_id : Actors, nonce : Nonces, timestamp : Timestamps,
                  signature : Signature, auth_mode : Modes, body : Bodies]

\* Fault: the clock is read a second time for the signed message.
SignTwoClockReads(sec, actor, nonce, now, body) ==
    [actor_id |-> actor, nonce |-> nonce, timestamp |-> now, auth_mode |-> "hmac",
     signature |-> [key |-> sec, msg |-> _canonical(actor, nonce, now + 1, body)],
     body |-> body]

sign_payload(sec, actor, nonce, now, body) ==
    [actor_id |-> actor, nonce |-> nonce, timestamp |-> now, auth_mode |-> "hmac",
     signature |-> [key |-> sec, msg |-> _canonical(actor, nonce, now, body)],
     body |-> body]

\* The seed of wallet w signs; only the holder of hotkey w can make it.
sign_payload_hotkey(w, actor, nonce, now, body) ==
    [actor_id |-> actor, nonce |-> nonce, timestamp |-> now, auth_mode |-> "hotkey",
     signature |-> [key |-> w, msg |-> _canonical(actor, nonce, now, body)],
     body |-> body]

\* hotkey mode without a loaded seed silently signs with the HMAC secret.
hotkey_seed(c) == IF c.auth_mode = "hotkey" THEN c.wallet ELSE NoWallet

_signed_headers(actor, nonce, now, body) ==
    LET c == client[actor] IN
    IF hotkey_seed(c) # NoWallet
    THEN sign_payload_hotkey(hotkey_seed(c), actor, nonce, now, body)
    ELSE sign_payload(c.auth_secret, actor, nonce, now, body)

\* What may arrive for a request sent: itself, the same headers with a body
\* rewritten by a proxy, or a truncated signature header.
Arrivals(m) ==
    {m} \cup (IF "body" \in Faults THEN {[m EXCEPT !.body = b] : b \in Bodies} ELSE {})
        \cup (IF "signature" \in Faults THEN {[m EXCEPT !.signature = Garbled]} ELSE {})

-----------------------------------------------------------------------------
\* What the verifier computes.

\* `now or int(time())`: None and 0 both fall through to the clock.
current_time(given) == IF given = 0 THEN clock ELSE given

Abs(x) == IF x < 0 THEN -x ELSE x

\* Fault: no bound on timestamps in the future.
ExpiredPastOnly(now, r) == now - r.timestamp > Window

Expired(now, r) == Abs(now - r.timestamp) > Window

\* The key mark_seen stores.
Keys == Actors \X Nonces \X Timestamps

\* Faults: requests of one second share a key; a key per signature value.
SeenKeyNoNonce(r) == <<r.actor_id, r.timestamp>>
SeenKeySignature(r) == <<r.actor_id, r.nonce, r.timestamp, r.signature>>

SeenKey(r) == <<r.actor_id, r.nonce, r.timestamp>>

Message(r) == _canonical(r.actor_id, r.nonce, r.timestamp, r.body)

\* compare_digest(expected, signed.signature), which raises on a text that has
\* other characters than ASCII.
HmacVerdicts(sec, r) ==
    IF r.signature = [key |-> sec, msg |-> Message(r)] THEN {"ok"}
    ELSE {"signature mismatch"} \cup (IF r.signature = Garbled THEN {"TypeError"} ELSE {})

\* fromhex, then Keypair(actor).verify; on a signature of another kind the
\* library may return False or raise, the handler has a reason for each.
HotkeyVerdicts(r) ==
    IF r.signature = Garbled THEN {"invalid signature encoding"}
    ELSE IF r.signature = [key |-> r.actor_id, msg |-> Message(r)] THEN {"ok"}
    ELSE IF r.signature.key \in Secrets
         THEN {"signature mismatch", "signature verification failed"}
         ELSE {"signature mismatch"}

SignatureVerdicts(c) ==
    IF c.entry = "hmac" THEN HmacVerdicts(c.secret, c.req) ELSE HotkeyVerdicts(c.req)

\* The verdicts given by a call that got past mark_seen.
Decided == {"ok", "signature mismatch", "TypeError",
            "invalid signature encoding", "signature verification failed"}

Verdicts == Decided \cup {"signature expired", "replay detected"}

Call == [req : SignedRequest, entry : Modes, secret : Secrets, now : Int, began : Nat]

Verdict == [store : Stores, epoch : Nat, worker : Workers, call : Call,
            verdict : Verdicts]

-----------------------------------------------------------------------------

Init ==
    /\ client \in Clients
    /\ wire = {}
    /\ clock = 1
    /\ seen = [s \in Stores |-> {}]
    /\ secret \in [Stores -> Secrets]
    /\ epoch = [s \in Stores |-> 0]
    /\ pc = [w \in Workers |-> "idle"]
    /\ call = [w \in Workers |-> NoCall]
    /\ log = <<>>

\* ControlPlaneHTTPClient._request signs and sends: a nonce nobody used and
\* the miner's own clock.  There is no retry; a caller that repeats the call
\* signs again.
Send(a) ==
    \E n \in Nonces \ {m.nonce : m \in wire}, t \in (clock - MaxSkew)..(clock + MaxSkew),
       b \in Bodies :
        /\ wire' = wire \cup {_signed_headers(a, n, t, b)}
        /\ UNCHANGED <<client, clock, seen, secret, epoch, pc, call, log>>

\* The server's wall clock advances, or is stepped back by one.
AdjustClock ==
    /\ clock' \in {clock - 1, clock + 1} \cap 1..MaxTime
    /\ UNCHANGED <<client, wire, seen, secret, epoch, pc, call, log>>

\* The worker returns verdict v: to idle, and the verdict is recorded.
Return(w, c, v) ==
    /\ pc' = [pc EXCEPT ![w] = "idle"]
    /\ call' = [call EXCEPT ![w] = NoCall]
    /\ log' = Append(log, [store |-> StoreOf[w], epoch |-> epoch[StoreOf[w]],
                           worker |-> w, call |-> c, verdict |-> v])

InFlight == {w \in Workers : pc[w] # "idle"}

\* A request arrives at worker w, which enters one of the two verifiers, reads
\* the clock and applies the freshness window.
Begin(w) ==
    /\ pc[w] = "idle"
    /\ Len(log) + Cardinality(InFlight) < MaxCalls
    /\ \E m \in wire, entry \in Entries, given \in GivenNows : \E r \in Arrivals(m) :
        LET c == [req |-> r, entry |-> entry, secret |-> secret[StoreOf[w]],
                  now |-> current_time(given), began |-> Len(log)] IN
        IF Expired(c.now, r)
        THEN Return(w, c, "signature expired")
        ELSE /\ pc' = [pc EXCEPT ![w] = "check"]
             /\ call' = [call EXCEPT ![w] = c]
             /\ UNCHANGED log
    /\ UNCHANGED <<client, wire, clock, seen, secret, epoch>>

\* mark_seen, first half: `if key in self._seen: return False`.
CheckSeen(w) ==
    /\ pc[w] = "check"
    /\ IF SeenKey(call[w].req) \in seen[StoreOf[w]]
       THEN Return(w, call[w], "replay detected")
       ELSE /\ pc' = [pc EXCEPT ![w] = "add"]
            /\ UNCHANGED <<call, log>>
    /\ UNCHANGED <<client, wire, clock, seen, secret, epoch>>

\* Faults: the store keeps only the newest key; the store is never written.
AddSeenLastOnly(w) ==
    /\ pc[w] = "add"
    /\ seen' = [seen EXCEPT ![StoreOf[w]] = {SeenKey(call[w].req)}]
    /\ pc' = [pc EXCEPT ![w] = "sign"]
    /\ UNCHANGED <<client, wire, clock, secret, epoch, call, log>>

AddSeenNot(w) ==
    /\ pc[w] = "add"
    /\ pc' = [pc EXCEPT ![w] = "sign"]
    /\ UNCHANGED <<client, wire, clock, seen, secret, epoch, call, log>>

\* mark_seen, second half: `self._seen.add(key); return True`.
AddSeen(w) ==
    /\ pc[w] = "add"
    /\ seen' = [seen EXCEPT ![StoreOf[w]] = @ \cup {SeenKey(call[w].req)}]
    /\ pc' = [pc EXCEPT ![w] = "sign"]
    /\ UNCHANGED <<client, wire, clock, secret, epoch, call, log>>

\* The signature is checked last; the nonce is spent whatever it says.
CheckSignature(w) ==
    /\ pc[w] = "sign"
    /\ \E v \in SignatureVerdicts(call[w]) : Return(w, call[w], v)
    /\ UNCHANGED <<client, wire, clock, seen, secret, epoch>>

\* A server process dies with its threads and starts again with an empty
\* store, possibly with another secret.
Restart(s) ==
    /\ epoch[s] < MaxEpoch
    /\ epoch' = [epoch EXCEPT ![s] = @ + 1]
    /\ seen' = [seen EXCEPT ![s] = {}]
    /\ \E k \in Secrets : secret' = [secret EXCEPT ![s] = k]
    /\ pc' = [w \in Workers |-> IF StoreOf[w] = s THEN "idle" ELSE pc[w]]
    /\ call' = [w \in Workers |-> IF StoreOf[w] = s THEN NoCall ELSE call[w]]
    /\ UNCHANGED <<client, wire, clock, log>>

Next ==
    \/ \E a \in Actors : Send(a)
    \/ AdjustClock
    \/ \E w \in Workers : Begin(w) \/ CheckSeen(w) \/ AddSeen(w) \/ CheckSignature(w)
    \/ \E s \in Stores : Restart(s)

Spec == Init /\ [][Next]_vars

-----------------------------------------------------------------------------
\* Properties.

\* Every variable keeps its type; a worker inside verify_payload* has a call,
\* began no later than now.
TypeOK ==
    /\ client \in [Actors -> ClientConfig]
    /\ wire \subseteq SignedRequest
    /\ clock \in 1..MaxTime
    /\ seen \in [Stores -> SUBSET Keys]
    /\ secret \in [Stores -> Secrets]
    /\ epoch \in [Stores -> Nat]
    /\ pc \in [Workers -> {"idle", "check", "add", "sign"}]
    /\ call \in [Workers -> {NoCall} \cup Call]
    /\ \A w \in InFlight : call[w] \in Call /\ call[w].began <= Len(log)
    /\ log \in Seq(Verdict)

\* Two arrivals of one request, its body and signature aside.
SameNonce(q, r) ==
    q.actor_id = r.actor_id /\ q.nonce = r.nonce /\ q.timestamp = r.timestamp

\* Verdicts i and j were given on one request by one life of one store.
SameKey(i, j) ==
    /\ log[i].store = log[j].store
    /\ log[i].epoch = log[j].epoch
    /\ SameNonce(log[i].call.req, log[j].call.req)

\* Replay protection under threads (mark_seen has no lock): two calls that
\* both got past mark_seen with one request overlapped in time.  A call that
\* begins after a decided one has returned is refused, whatever the threads do.
AtMostOnceUnlessConcurrent ==
    \A i, j \in 1..Len(log) :
        i < j /\ SameKey(i, j) /\ {log[i].verdict, log[j].verdict} \subseteq Decided
            => log[j].call.began < i

\* Replay protection where one thread serves each store (an asyncio server):
\* mark_seen lets a request through once in the life of a store, whatever is
\* delivered again and whatever the signature check said the first time.
AtMostOnce ==
    \A i, j \in 1..Len(log) :
        SameKey(i, j) /\ {log[i].verdict, log[j].verdict} \subseteq Decided => i = j

\* verify_payload* says yes only to what a client signed: the accepted actor,
\* nonce, timestamp and body were sent by that actor's client, and signed with
\* the verifier's secret or, for the hotkey verifier, with that actor's hotkey.
AcceptedIsAuthentic ==
    \A i \in 1..Len(log) : log[i].verdict = "ok" =>
        LET c == log[i].call IN
        \E m \in wire :
            /\ SameNonce(m, c.req) /\ m.body = c.req.body
            /\ LET cfg == client[m.actor_id] IN
               IF c.entry = "hmac" THEN cfg.auth_secret = c.secret
               ELSE cfg.wallet = m.actor_id

\* The window limits how long a request can be accepted at all, over restarts
\* that empty the store: two acceptances of one request, by any processes, read
\* the clock at most two windows apart.
ReplayHorizon ==
    \A i, j \in 1..Len(log) :
        /\ log[i].verdict = "ok" /\ log[j].verdict = "ok"
        /\ SameNonce(log[i].call.req, log[j].call.req)
        => Abs(log[i].call.now - log[j].call.now) <= 2 * Window

\* No false replay: a request is refused as replayed only when the same
\* request (same actor and nonce, which _signed_headers never reuses) was
\* delivered to that process before and got past mark_seen, in a call that has
\* returned or is still checking the signature.
ReplayHasOriginal ==
    \A j \in 1..Len(log) :
        log[j].verdict = "replay detected" /\ log[j].epoch = epoch[log[j].store] =>
            LET r == log[j].call.req IN
            \/ \E i \in 1..Len(log) :
                /\ log[i].verdict \in Decided
                /\ log[i].store = log[j].store /\ log[i].epoch = log[j].epoch
                /\ SameNonce(log[i].call.req, r)
            \/ \E w \in Workers :
                /\ pc[w] = "sign" /\ StoreOf[w] = log[j].store
                /\ SameNonce(call[w].req, r)

\* No false mismatch: sign_payload* and verify_payload* agree on the canonical
\* message, so a decided call refuses only what was changed on the way or
\* signed with another key than the verifier's.
MismatchHasCause ==
    \A i \in 1..Len(log) : log[i].verdict \in Decided \ {"ok"} =>
        LET c == log[i].call
            cfg == client[c.req.actor_id] IN
        \/ c.req \notin wire
        \/ c.entry = "hmac" /\ (hotkey_seed(cfg) # NoWallet \/ cfg.auth_secret # c.secret)
        \/ c.entry = "hotkey" /\ hotkey_seed(cfg) # c.req.actor_id

\* The verifier keeps the contract of VerifierContract when one thread serves
\* each store: the check-then-add of mark_seen acts as one atomic grant.
Contract == INSTANCE VerifierContract WITH
    held <- seen,
    pending <- {<<StoreOf[w], SeenKey(call[w].req)>> : w \in {x \in Workers : pc[x] = "sign"}},
    answers <- [i \in DOMAIN log |->
                  [store |-> log[i].store, key |-> SeenKey(log[i].call.req),
                   kind |-> CASE log[i].verdict \in Decided -> "decided"
                              [] log[i].verdict = "replay detected" -> "replay"
                              [] log[i].verdict = "signature expired" -> "expired"]]

\* Every behaviour of the verifier is one of the contract's.
ImplementsContract == Contract!CSpec

=============================================================================
