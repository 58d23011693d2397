------------------------ MODULE SignedRequestsProofs ------------------------
(***************************************************************************)
(* Theorems about SignedRequests, for every value of its constants.        *)
(***************************************************************************)
EXTENDS SignedRequests, SequenceTheorems, TLAPS

\* What a miner's client sends is a signed request, whatever its configuration.
LEMMA SignedHeadersType ==
    ASSUME client \in [Actors -> ClientConfig],
           NEW a \in Actors, NEW n \in Nonces, NEW t \in Timestamps, NEW b \in Bodies
    PROVE  _signed_headers(a, n, t, b) \in SignedRequest
<1> DEFINE c == client[a]
<1>1. c \in ClientConfig
  OBVIOUS
<1>2. c.auth_secret \in Secrets /\ c.wallet \in Actors \cup {NoWallet} /\ c.auth_mode \in Modes
  BY <1>1 DEF ClientConfig
<1>3. sign_payload(c.auth_secret, a, n, t, b) \in SignedRequest
  BY <1>2 DEF sign_payload, SignedRequest, Signature, Signed, _canonical, Modes
<1>4. ASSUME hotkey_seed(c) # NoWallet
      PROVE  sign_payload_hotkey(hotkey_seed(c), a, n, t, b) \in SignedRequest
  <2>1. hotkey_seed(c) \in Actors
    BY <1>2, <1>4 DEF hotkey_seed
  <2> QED
    BY <2>1 DEF sign_payload_hotkey, SignedRequest, Signature, Signed, _canonical, Modes
<1> QED
  BY <1>3, <1>4 DEF _signed_headers

\* What arrives for a signed request is one, damaged or not.
LEMMA ArrivalsType ==
    ASSUME NEW m \in SignedRequest, NEW r \in Arrivals(m)
    PROVE  r \in SignedRequest
  BY DEF Arrivals, SignedRequest, Signature, Signed

LEMMA SeenKeyType ==
    ASSUME NEW r \in SignedRequest
    PROVE  SeenKey(r) \in Keys
  BY DEF SeenKey, SignedRequest, Keys

LEMMA SignatureVerdictsType ==
    ASSUME NEW c \in Call, NEW v \in SignatureVerdicts(c)
    PROVE  v \in Decided
  BY DEF SignatureVerdicts, HmacVerdicts, HotkeyVerdicts, Decided

\* A return appends one well-typed verdict and frees the worker.
LEMMA ReturnType ==
    ASSUME TypeOK, NEW w \in Workers, NEW c \in Call, NEW v \in Verdicts,
           Return(w, c, v)
    PROVE  /\ pc' \in [Workers -> {"idle", "check", "add", "sign"}]
           /\ call' \in [Workers -> {NoCall} \cup Call]
           /\ log' \in Seq(Verdict)
           /\ Len(log') = Len(log) + 1
           /\ \A x \in InFlight' : call'[x] \in Call /\ call'[x].began <= Len(log')
<1> USE ConstantsAssumption
<1> DEFINE e == [store |-> StoreOf[w], epoch |-> epoch[StoreOf[w]],
                 worker |-> w, call |-> c, verdict |-> v]
<1>1. e \in Verdict
  BY DEF TypeOK, Verdict
<1>2. log' = Append(log, e) /\ log \in Seq(Verdict)
  BY DEF Return, TypeOK
<1>3. log' \in Seq(Verdict) /\ Len(log') = Len(log) + 1 /\ Len(log) \in Nat
  BY <1>1, <1>2
<1>4. /\ pc' = [pc EXCEPT ![w] = "idle"]
      /\ call' = [call EXCEPT ![w] = NoCall]
  BY DEF Return
<1>5. ASSUME NEW x \in InFlight'
      PROVE  call'[x] \in Call /\ call'[x].began <= Len(log')
  <2>1. x \in Workers /\ x # w /\ x \in InFlight
    BY <1>4 DEF InFlight, TypeOK
  <2>2. call'[x] = call[x] /\ call[x] \in Call /\ call[x].began <= Len(log)
    BY <1>4, <2>1 DEF TypeOK
  <2> QED
    BY <2>2, <1>3 DEF Call
<1> QED
  BY <1>3, <1>4, <1>5 DEF TypeOK

\* Begin makes a call of what arrived for a request on the wire, which starts
\* after everything in the log, and either refuses it as expired or enters
\* mark_seen with it.
LEMMA BeginCall ==
    ASSUME TypeOK, NEW w \in Workers, Begin(w)
    PROVE  \E c \in Call :
              /\ c.began = Len(log)
              /\ \E m \in wire : c.req \in Arrivals(m)
              /\ \/ Return(w, c, "signature expired")
                 \/ /\ ~Expired(c.now, c.req)
                    /\ pc' = [pc EXCEPT ![w] = "check"]
                    /\ call' = [call EXCEPT ![w] = c]
                    /\ UNCHANGED log
<1> USE ConstantsAssumption
<1> DEFINE P(r, entry, given) ==
        LET c == [req |-> r, entry |-> entry, secret |-> secret[StoreOf[w]],
                  now |-> current_time(given), began |-> Len(log)] IN
        IF Expired(c.now, r)
        THEN Return(w, c, "signature expired")
        ELSE /\ pc' = [pc EXCEPT ![w] = "check"]
             /\ call' = [call EXCEPT ![w] = c]
             /\ UNCHANGED log
<1>1. PICK m \in wire, entry \in Entries, given \in GivenNows :
          \E r \in Arrivals(m) : P(r, entry, given)
  BY DEF Begin
<1>2. PICK r \in Arrivals(m) : P(r, entry, given)
  BY <1>1
<1> DEFINE c == [req |-> r, entry |-> entry, secret |-> secret[StoreOf[w]],
                 now |-> current_time(given), began |-> Len(log)]
<1>3. r \in SignedRequest
  BY ArrivalsType DEF TypeOK
<1>4. current_time(given) \in Int /\ Len(log) \in Nat /\ secret[StoreOf[w]] \in Secrets
  BY DEF current_time, TypeOK
<1>5. c \in Call /\ c.began = Len(log) /\ c.req = r
  BY <1>3, <1>4 DEF Call
<1>6. \/ Return(w, c, "signature expired")
      \/ /\ ~Expired(c.now, c.req)
         /\ pc' = [pc EXCEPT ![w] = "check"]
         /\ call' = [call EXCEPT ![w] = c]
         /\ UNCHANGED log
  BY <1>2
<1> HIDE DEF c
<1> QED
  BY <1>5, <1>6

\* The type invariant is preserved by every step of the specification.
LEMMA TypeStep ==
    ASSUME TypeOK, [Next]_vars
    PROVE  TypeOK'
<1> USE ConstantsAssumption
<1>1. ASSUME NEW a \in Actors, Send(a)
      PROVE  TypeOK'
  <2>1. PICK n \in Nonces, t \in (clock - MaxSkew)..(clock + MaxSkew), b \in Bodies :
          wire' = wire \cup {_signed_headers(a, n, t, b)}
    BY <1>1 DEF Send
  <2>2. t \in Timestamps
    BY DEF Timestamps, TypeOK
  <2>3. _signed_headers(a, n, t, b) \in SignedRequest
    BY <2>2, SignedHeadersType DEF TypeOK
  <2> QED
    BY <1>1, <2>1, <2>3 DEF TypeOK, Send, InFlight
<1>2. ASSUME AdjustClock
      PROVE  TypeOK'
  BY <1>2 DEF TypeOK, AdjustClock, InFlight
<1>3. ASSUME NEW w \in Workers, Begin(w)
      PROVE  TypeOK'
  <2>1. PICK c \in Call :
          /\ c.began = Len(log)
          /\ \/ Return(w, c, "signature expired")
             \/ /\ pc' = [pc EXCEPT ![w] = "check"]
                /\ call' = [call EXCEPT ![w] = c]
                /\ UNCHANGED log
    BY <1>3, BeginCall
  <2>2. UNCHANGED <<client, wire, clock, seen, secret, epoch>>
    BY <1>3 DEF Begin
  <2>3. CASE Return(w, c, "signature expired")
    <3>1. "signature expired" \in Verdicts
      BY DEF Verdicts
    <3> QED
      BY <2>2, <2>3, <3>1, ReturnType DEF TypeOK
  <2>4. CASE /\ pc' = [pc EXCEPT ![w] = "check"]
             /\ call' = [call EXCEPT ![w] = c]
             /\ UNCHANGED log
    <3>1. \A x \in InFlight' : call'[x] \in Call /\ call'[x].began <= Len(log')
      BY <2>1, <2>4 DEF TypeOK, InFlight
    <3> QED
      BY <2>2, <2>4, <3>1 DEF TypeOK
  <2> QED
    BY <2>1, <2>3, <2>4
<1>4. ASSUME NEW w \in Workers, CheckSeen(w)
      PROVE  TypeOK'
  <2>1. w \in InFlight /\ call[w] \in Call
    BY <1>4 DEF CheckSeen, InFlight, TypeOK
  <2>2. CASE Return(w, call[w], "replay detected")
    <3>1. "replay detected" \in Verdicts
      BY DEF Verdicts
    <3> QED
      BY <1>4, <2>1, <2>2, <3>1, ReturnType DEF CheckSeen, TypeOK
  <2>3. CASE pc' = [pc EXCEPT ![w] = "add"] /\ UNCHANGED <<call, log>>
    BY <1>4, <2>1, <2>3 DEF CheckSeen, TypeOK, InFlight
  <2> QED
    BY <1>4, <2>2, <2>3 DEF CheckSeen
<1>5. ASSUME NEW w \in Workers, AddSeen(w)
      PROVE  TypeOK'
  <2>1. w \in InFlight /\ call[w] \in Call
    BY <1>5 DEF AddSeen, InFlight, TypeOK
  <2>2. SeenKey(call[w].req) \in Keys
    BY <2>1, SeenKeyType DEF Call
  <2>3. seen' \in [Stores -> SUBSET Keys]
    BY <1>5, <2>2 DEF AddSeen, TypeOK
  <2> QED
    BY <1>5, <2>1, <2>3 DEF AddSeen, TypeOK, InFlight
<1>6. ASSUME NEW w \in Workers, CheckSignature(w)
      PROVE  TypeOK'
  <2>1. w \in InFlight /\ call[w] \in Call
    BY <1>6 DEF CheckSignature, InFlight, TypeOK
  <2>2. PICK v \in SignatureVerdicts(call[w]) : Return(w, call[w], v)
    BY <1>6 DEF CheckSignature
  <2>3. v \in Verdicts
    BY <2>1, SignatureVerdictsType DEF Verdicts
  <2> QED
    BY <1>6, <2>1, <2>2, <2>3, ReturnType DEF CheckSignature, TypeOK
<1>7. ASSUME NEW s \in Stores, Restart(s)
      PROVE  TypeOK'
  <2>1. \A x \in InFlight' : x \in InFlight /\ call'[x] = call[x] /\ log' = log
    BY <1>7 DEF Restart, InFlight, TypeOK
  <2>2. epoch' \in [Stores -> Nat] /\ seen' \in [Stores -> SUBSET Keys]
    BY <1>7 DEF Restart, TypeOK
  <2>3. secret' \in [Stores -> Secrets]
    BY <1>7 DEF Restart, TypeOK
  <2>4. /\ pc' \in [Workers -> {"idle", "check", "add", "sign"}]
        /\ call' \in [Workers -> {NoCall} \cup Call]
    BY <1>7 DEF Restart, TypeOK
  <2>5. UNCHANGED <<client, wire, clock, log>>
    BY <1>7 DEF Restart
  <2> QED
    BY <2>1, <2>2, <2>3, <2>4, <2>5 DEF TypeOK
<1>8. CASE UNCHANGED vars
  BY <1>8 DEF vars, TypeOK, InFlight
<1> QED
  BY <1>1, <1>2, <1>3, <1>4, <1>5, <1>6, <1>7, <1>8 DEF Next

LEMMA InitType == Init => TypeOK
<1> SUFFICES ASSUME Init PROVE TypeOK
  OBVIOUS
<1>1. client \in [Actors -> ClientConfig] /\ clock \in 1..MaxTime
  <2>1. clock = 1 /\ client \in Clients
    BY DEF Init
  <2>2. MaxTime \in Nat \ {0} /\ Clients \subseteq [Actors -> ClientConfig]
    BY ConstantsAssumption
  <2> QED
    BY <2>1, <2>2
<1>2. log \in Seq(Verdict) /\ wire \subseteq SignedRequest
  BY DEF Init
<1>3. pc \in [Workers -> {"idle", "check", "add", "sign"}] /\ InFlight = {}
  BY DEF Init, InFlight
<1>4. /\ seen \in [Stores -> SUBSET Keys] /\ secret \in [Stores -> Secrets]
      /\ epoch \in [Stores -> Nat] /\ call \in [Workers -> {NoCall} \cup Call]
  BY DEF Init
<1> QED
  BY <1>1, <1>2, <1>3, <1>4 DEF TypeOK

\* TypeOK holds in every reachable state.
THEOREM TypeCorrect == Spec => []TypeOK
  BY InitType, TypeStep, PTL DEF Spec

-----------------------------------------------------------------------------
\* The inductive invariant behind replay protection.

\* No verdict is of a later life of its store than the present one, and each
\* is from the store its worker uses.
LogIsPast ==
    \A i \in 1..Len(log) :
        log[i].epoch <= epoch[log[i].store] /\ log[i].store = StoreOf[log[i].worker]

\* A verdict given past mark_seen in the present life of the store left its
\* key in the store.
DecidedIsSeen ==
    \A i \in 1..Len(log) :
        log[i].verdict \in Decided /\ log[i].epoch = epoch[log[i].store]
            => SeenKey(log[i].call.req) \in seen[log[i].store]

\* A call that passed the membership test began before every other call that
\* was decided on its key in this life of the store.
ClaimsOverlap ==
    \A w \in Workers, i \in 1..Len(log) :
        /\ pc[w] \in {"add", "sign"}
        /\ log[i].verdict \in Decided
        /\ log[i].store = StoreOf[w] /\ log[i].epoch = epoch[StoreOf[w]]
        /\ SeenKey(log[i].call.req) = SeenKey(call[w].req)
        => call[w].began < i

\* A call about to check the signature has its key in the store.
SignIsSeen ==
    \A w \in Workers : pc[w] = "sign" => SeenKey(call[w].req) \in seen[StoreOf[w]]

\* The calls of one worker follow each other.
CallsInTurn ==
    /\ \A w \in InFlight, i \in 1..Len(log) : log[i].worker = w => i <= call[w].began
    /\ \A i, j \in 1..Len(log) :
        i < j /\ log[i].worker = log[j].worker => i <= log[j].call.began

ReplayInv ==
    /\ TypeOK /\ LogIsPast /\ DecidedIsSeen /\ ClaimsOverlap /\ SignIsSeen
    /\ CallsInTurn /\ AtMostOnceUnlessConcurrent

\* The types of what a log entry holds.
LEMMA LogEntryType ==
    ASSUME log \in Seq(Verdict), NEW i \in 1..Len(log)
    PROVE  /\ log[i].store \in Stores /\ log[i].epoch \in Nat /\ log[i].worker \in Workers
           /\ log[i].call \in Call /\ log[i].call.began \in Nat
<1>1. log[i] \in Verdict
  OBVIOUS
<1>2. log[i].call \in Call
  BY <1>1 DEF Verdict
<1> QED
  BY <1>1, <1>2 DEF Verdict, Call

\* What a return does to the log and to the worker.
LEMMA ReturnLog ==
    ASSUME TypeOK, NEW w \in Workers, NEW c \in Call, NEW v \in Verdicts,
           Return(w, c, v)
    PROVE  /\ Len(log) \in Nat /\ Len(log') = Len(log) + 1
           /\ \A i \in 1..Len(log) : log'[i] = log[i]
           /\ log'[Len(log) + 1] = [store |-> StoreOf[w], epoch |-> epoch[StoreOf[w]],
                                    worker |-> w, call |-> c, verdict |-> v]
           /\ pc' = [pc EXCEPT ![w] = "idle"]
           /\ call' = [call EXCEPT ![w] = NoCall]
<1> DEFINE e == [store |-> StoreOf[w], epoch |-> epoch[StoreOf[w]],
                 worker |-> w, call |-> c, verdict |-> v]
<1>1. e \in Verdict
  BY ConstantsAssumption DEF TypeOK, Verdict
<1>2. log' = Append(log, e) /\ log \in Seq(Verdict)
  BY DEF Return, TypeOK
<1> HIDE DEF e
<1>3. /\ Len(log) \in Nat /\ Len(log') = Len(log) + 1
      /\ \A i \in 1..Len(log) : log'[i] = log[i]
      /\ log'[Len(log) + 1] = e
  BY <1>1, <1>2
<1> QED
  BY <1>3 DEF Return, e

\* The same, field by field: n is where the new verdict is.
Returned(w, c, v, n) ==
    /\ Len(log) \in Nat /\ Len(log') = n
    /\ \A i \in 1..Len(log) : log'[i] = log[i]
    /\ log'[n].store = StoreOf[w] /\ log'[n].epoch = epoch[StoreOf[w]]
    /\ log'[n].worker = w /\ log'[n].call = c /\ log'[n].verdict = v
    /\ pc' = [pc EXCEPT ![w] = "idle"]
    /\ call' = [call EXCEPT ![w] = NoCall]
    /\ \A i \in 1..Len(log') : i \in 1..Len(log) \/ i = n
    /\ \A i \in 1..Len(log) : i \in 1..Len(log') /\ i < n
    /\ n \in 1..Len(log')

LEMMA ReturnFields ==
    ASSUME TypeOK, NEW w \in Workers, NEW c \in Call, NEW v \in Verdicts,
           Return(w, c, v)
    PROVE  Returned(w, c, v, Len(log) + 1)
<1>1. /\ Len(log) \in Nat /\ Len(log') = Len(log) + 1
      /\ \A i \in 1..Len(log) : log'[i] = log[i]
      /\ pc' = [pc EXCEPT ![w] = "idle"] /\ call' = [call EXCEPT ![w] = NoCall]
  BY ReturnLog
<1>2. log'[Len(log) + 1] = [store |-> StoreOf[w], epoch |-> epoch[StoreOf[w]],
                            worker |-> w, call |-> c, verdict |-> v]
  BY ReturnLog
<1>3. PICK n : n = Len(log) + 1
  OBVIOUS
<1>4. /\ log'[n].store = StoreOf[w] /\ log'[n].epoch = epoch[StoreOf[w]]
      /\ log'[n].worker = w /\ log'[n].call = c /\ log'[n].verdict = v
  BY <1>2, <1>3
<1>5. /\ \A i \in 1..Len(log') : i \in 1..Len(log) \/ i = n
      /\ \A i \in 1..Len(log) : i \in 1..Len(log') /\ i < n
      /\ n \in 1..Len(log')
  BY <1>1, <1>3
<1>6. Returned(w, c, v, n)
  BY <1>1, <1>3, <1>4, <1>5 DEF Returned
<1> QED
  BY <1>3, <1>6

\* A return keeps the invariant when the call is sequential with the worker's
\* earlier ones and, if it got past mark_seen, overlaps all others that did.
LEMMA ReturnReplay ==
    ASSUME ReplayInv, TypeOK',
           NEW w \in Workers, NEW c \in Call, NEW v \in Verdicts, Return(w, c, v),
           UNCHANGED <<seen, epoch>>,
           c.began <= Len(log),
           \A i \in 1..Len(log) : log[i].worker = w => i <= c.began,
           v \in Decided => SeenKey(c.req) \in seen[StoreOf[w]],
           v \in Decided => \A i \in 1..Len(log) :
               /\ log[i].verdict \in Decided
               /\ log[i].store = StoreOf[w] /\ log[i].epoch = epoch[StoreOf[w]]
               /\ SeenKey(log[i].call.req) = SeenKey(c.req)
               => c.began < i
    PROVE  ReplayInv'
<1>1. TypeOK
  BY DEF ReplayInv
<1>2. PICK n : Returned(w, c, v, n)
  BY <1>1, ReturnFields
<1>4. \A x \in Workers : pc'[x] # "idle" => x # w /\ pc'[x] = pc[x] /\ call'[x] = call[x]
  BY <1>1, <1>2 DEF TypeOK, Returned
<1>5. StoreOf[w] \in Stores /\ epoch[StoreOf[w]] \in Nat
  BY <1>1, ConstantsAssumption DEF TypeOK
<1>6. LogIsPast'
  BY <1>2, <1>5 DEF ReplayInv, LogIsPast, Returned
<1>7. DecidedIsSeen'
  BY <1>2 DEF ReplayInv, DecidedIsSeen, Returned
<1>8. ClaimsOverlap'
  <2> SUFFICES ASSUME NEW x \in Workers, NEW i \in 1..Len(log'),
                      pc'[x] \in {"add", "sign"},
                      log'[i].verdict \in Decided,
                      log'[i].store = StoreOf[x], log'[i].epoch = epoch[StoreOf[x]],
                      SeenKey(log'[i].call.req) = SeenKey(call'[x].req)
               PROVE  call'[x].began < i
    BY DEF ClaimsOverlap, SeenKey
  <2>1. x # w /\ pc'[x] = pc[x] /\ call'[x] = call[x] /\ x \in InFlight
    BY <1>4 DEF InFlight
  <2>2. CASE i \in 1..Len(log)
    BY <1>2, <2>1, <2>2 DEF ReplayInv, ClaimsOverlap, Returned
  <2>3. CASE i = n
    BY <1>1, <1>2, <2>1, <2>3 DEF TypeOK, Call, Returned
  <2> QED
    BY <1>2, <2>2, <2>3 DEF Returned
<1>9. SignIsSeen'
  BY <1>4 DEF ReplayInv, SignIsSeen, SeenKey
<1>10. CallsInTurn'
  <2>1. ASSUME NEW x \in InFlight', NEW i \in 1..Len(log'), log'[i].worker = x
        PROVE  i <= call'[x].began
    <3>1. x # w /\ call'[x] = call[x] /\ x \in InFlight
      BY <1>4, <2>1 DEF InFlight
    <3>2. i \in 1..Len(log)
      BY <1>2, <2>1, <3>1 DEF Returned
    <3> QED
      BY <1>2, <2>1, <3>1, <3>2 DEF ReplayInv, CallsInTurn, Returned
  <2>2. ASSUME NEW i \in 1..Len(log'), NEW j \in 1..Len(log'), i < j,
               log'[i].worker = log'[j].worker
        PROVE  i <= log'[j].call.began
    <3>1. i \in 1..Len(log)
      BY <1>2, <2>2 DEF Returned
    <3>2. CASE j \in 1..Len(log)
      BY <1>2, <2>2, <3>1, <3>2 DEF ReplayInv, CallsInTurn, Returned
    <3>3. CASE j = n
      BY <1>2, <2>2, <3>1, <3>3 DEF Returned
    <3> QED
      BY <1>2, <3>2, <3>3 DEF Returned
  <2> QED
    BY <2>1, <2>2 DEF CallsInTurn
<1>11. AtMostOnceUnlessConcurrent'
  <2> SUFFICES ASSUME NEW i \in 1..Len(log'), NEW j \in 1..Len(log'), i < j, SameKey(i, j)',
                      log'[i].verdict \in Decided, log'[j].verdict \in Decided
               PROVE  log'[j].call.began < i
    BY DEF AtMostOnceUnlessConcurrent
  <2>1. i \in 1..Len(log)
    BY <1>2 DEF Returned
  <2>2. CASE j \in 1..Len(log)
    <3>1. log'[i] = log[i] /\ log'[j] = log[j]
      BY <1>2, <2>1, <2>2 DEF Returned
    <3>2. SameKey(i, j) /\ {log[i].verdict, log[j].verdict} \subseteq Decided
      BY <3>1 DEF SameKey, SameNonce
    <3>3. AtMostOnceUnlessConcurrent
      BY DEF ReplayInv
    <3>4. log[j].call.began < i
      BY <2>1, <2>2, <3>2, <3>3 DEF AtMostOnceUnlessConcurrent
    <3> QED
      BY <3>1, <3>4
  <2>3. CASE j = n
    <3>1. /\ log[i].store = StoreOf[w] /\ log[i].epoch = epoch[StoreOf[w]]
          /\ SeenKey(log[i].call.req) = SeenKey(c.req)
      BY <1>2, <2>1, <2>3 DEF SameKey, SameNonce, SeenKey, Returned
    <3> QED
      BY <1>2, <2>1, <2>3, <3>1 DEF Returned
  <2> QED
    BY <1>2, <2>2, <2>3 DEF Returned
<1> QED
  BY <1>6, <1>7, <1>8, <1>9, <1>10, <1>11 DEF ReplayInv

\* The invariant is preserved by every step of the specification.
LEMMA ReplayStep ==
    ASSUME ReplayInv, [Next]_vars
    PROVE  ReplayInv'
<1> USE ConstantsAssumption
<1>1. TypeOK /\ TypeOK'
  BY TypeStep DEF ReplayInv
<1>2. log \in Seq(Verdict) /\ Len(log) \in Nat
  BY <1>1 DEF TypeOK
<1>3. ASSUME UNCHANGED <<seen, epoch, pc, call, log>>
      PROVE  ReplayInv'
  BY <1>1, <1>3 DEF ReplayInv, LogIsPast, DecidedIsSeen, ClaimsOverlap, SignIsSeen,
     CallsInTurn, AtMostOnceUnlessConcurrent, SameKey, SameNonce, InFlight, SeenKey
<1>4. ASSUME NEW a \in Actors, Send(a)
      PROVE  ReplayInv'
  BY <1>3, <1>4 DEF Send
<1>5. ASSUME AdjustClock
      PROVE  ReplayInv'
  BY <1>3, <1>5 DEF AdjustClock
<1>6. ASSUME NEW w \in Workers, Begin(w)
      PROVE  ReplayInv'
  <2>1. PICK c \in Call :
          /\ c.began = Len(log)
          /\ \/ Return(w, c, "signature expired")
             \/ /\ pc' = [pc EXCEPT ![w] = "check"]
                /\ call' = [call EXCEPT ![w] = c]
                /\ UNCHANGED log
    BY <1>1, <1>6, BeginCall
  <2>2. c.began = Len(log)
    BY <2>1
  <2>3. c.began <= Len(log) /\ c.began \in Nat
    BY <1>2, <2>2
  <2>4. \A i \in 1..Len(log) : i <= c.began
    BY <1>2, <2>2
  <2>5. UNCHANGED <<seen, epoch>>
    BY <1>6 DEF Begin
  <2>6. CASE Return(w, c, "signature expired")
    <3>2. "signature expired" \in Verdicts /\ "signature expired" \notin Decided
      BY DEF Verdicts, Decided
    <3> QED
      BY <1>1, <2>3, <2>4, <2>5, <2>6, <3>2, ReturnReplay
  <2>7. CASE /\ pc' = [pc EXCEPT ![w] = "check"]
             /\ call' = [call EXCEPT ![w] = c]
             /\ UNCHANGED log
    <3>1. /\ pc' = [pc EXCEPT ![w] = "check"]
          /\ call' = [call EXCEPT ![w] = c]
          /\ UNCHANGED log
      BY <2>7
    <3>2. \A x \in Workers : x # w => pc'[x] = pc[x] /\ call'[x] = call[x]
      BY <1>1, <3>1 DEF TypeOK
    <3>3. pc'[w] = "check" /\ call'[w] = c
      BY <1>1, <3>1 DEF TypeOK
    <3>4. ClaimsOverlap' /\ SignIsSeen'
      BY <2>5, <3>1, <3>2, <3>3 DEF ReplayInv, ClaimsOverlap, SignIsSeen, SeenKey
    <3>5. CallsInTurn'
      BY <1>2, <2>4, <3>1, <3>2, <3>3 DEF ReplayInv, CallsInTurn, InFlight
    <3>6. LogIsPast' /\ DecidedIsSeen' /\ AtMostOnceUnlessConcurrent'
      BY <2>5, <3>1 DEF ReplayInv, LogIsPast, DecidedIsSeen, AtMostOnceUnlessConcurrent,
         SameKey, SameNonce, SeenKey
    <3> QED
      BY <1>1, <3>4, <3>5, <3>6 DEF ReplayInv
  <2> QED
    BY <2>1, <2>6, <2>7
<1>7. ASSUME NEW w \in Workers, CheckSeen(w)
      PROVE  ReplayInv'
  <2>1. pc[w] = "check" /\ w \in InFlight /\ call[w] \in Call /\ UNCHANGED <<seen, epoch>>
    BY <1>1, <1>7 DEF CheckSeen, InFlight, TypeOK
  <2>2. call[w].began <= Len(log) /\ \A i \in 1..Len(log) : log[i].worker = w => i <= call[w].began
    BY <1>1, <2>1 DEF TypeOK, ReplayInv, CallsInTurn
  <2>3. CASE SeenKey(call[w].req) \in seen[StoreOf[w]]
    <3>1. Return(w, call[w], "replay detected")
      BY <1>7, <2>3 DEF CheckSeen
    <3>2. "replay detected" \in Verdicts /\ "replay detected" \notin Decided
      BY DEF Verdicts, Decided
    <3> QED
      BY <1>1, <2>1, <2>2, <3>1, <3>2, ReturnReplay
  <2>4. CASE SeenKey(call[w].req) \notin seen[StoreOf[w]]
    <3>1. pc' = [pc EXCEPT ![w] = "add"] /\ UNCHANGED <<call, log, seen, epoch>>
      BY <1>7, <2>4 DEF CheckSeen
    <3>2. \A x \in Workers : x # w => pc'[x] = pc[x]
      BY <1>1, <3>1 DEF TypeOK
    <3>3. ClaimsOverlap'
      <4> SUFFICES ASSUME NEW x \in Workers, NEW i \in 1..Len(log),
                          pc'[x] \in {"add", "sign"},
                          log[i].verdict \in Decided,
                          log[i].store = StoreOf[x], log[i].epoch = epoch[StoreOf[x]],
                          SeenKey(log[i].call.req) = SeenKey(call[x].req)
                   PROVE  call[x].began < i
        BY <3>1 DEF ClaimsOverlap, SeenKey
      <4>1. x # w
        BY <2>4 DEF ReplayInv, DecidedIsSeen
      <4> QED
        BY <3>2, <4>1 DEF ReplayInv, ClaimsOverlap
    <3>4. SignIsSeen'
      BY <1>1, <3>1, <3>2 DEF ReplayInv, SignIsSeen, SeenKey, TypeOK
    <3>5. CallsInTurn'
      BY <2>1, <3>1, <3>2 DEF ReplayInv, CallsInTurn, InFlight
    <3>6. LogIsPast' /\ DecidedIsSeen' /\ AtMostOnceUnlessConcurrent'
      BY <3>1 DEF ReplayInv, LogIsPast, DecidedIsSeen, AtMostOnceUnlessConcurrent,
         SameKey, SameNonce, SeenKey
    <3> QED
      BY <1>1, <3>3, <3>4, <3>5, <3>6 DEF ReplayInv
  <2> QED
    BY <2>3, <2>4
<1>8. ASSUME NEW w \in Workers, AddSeen(w)
      PROVE  ReplayInv'
  <2>1. /\ pc[w] = "add" /\ pc' = [pc EXCEPT ![w] = "sign"]
        /\ seen' = [seen EXCEPT ![StoreOf[w]] = @ \cup {SeenKey(call[w].req)}]
        /\ UNCHANGED <<call, log, epoch>>
    BY <1>8 DEF AddSeen
  <2>2. \A x \in Workers : x # w => pc'[x] = pc[x]
    BY <1>1, <2>1 DEF TypeOK
  <2>3. /\ \A s \in Stores : seen[s] \subseteq seen'[s]
        /\ SeenKey(call[w].req) \in seen'[StoreOf[w]] /\ StoreOf[w] \in Stores
    BY <1>1, <2>1 DEF TypeOK
  <2>4. \A i \in 1..Len(log) : log[i].store \in Stores
    BY <1>2, LogEntryType
  <2>5. DecidedIsSeen'
    BY <2>1, <2>3, <2>4 DEF ReplayInv, DecidedIsSeen, SeenKey
  <2>6. ClaimsOverlap'
    BY <2>1, <2>2 DEF ReplayInv, ClaimsOverlap, SeenKey
  <2>7. SignIsSeen'
    <3>1. ASSUME NEW x \in Workers, pc'[x] = "sign"
          PROVE  SeenKey(call'[x].req) \in seen'[StoreOf[x]]
      <4>1. call'[x] = call[x] /\ StoreOf[x] \in Stores
        BY <2>1
      <4>2. CASE x = w
        BY <2>3, <4>1, <4>2
      <4>3. CASE x # w
        BY <2>2, <2>3, <3>1, <4>1, <4>3 DEF ReplayInv, SignIsSeen
      <4> QED
        BY <4>2, <4>3
    <3> QED
      BY <3>1 DEF SignIsSeen, SeenKey
  <2>8. CallsInTurn'
    <3>1. InFlight' \subseteq InFlight
      BY <2>1, <2>2 DEF InFlight
    <3> QED
      BY <2>1, <3>1 DEF ReplayInv, CallsInTurn
  <2>9. LogIsPast' /\ AtMostOnceUnlessConcurrent'
    BY <2>1 DEF ReplayInv, LogIsPast, AtMostOnceUnlessConcurrent, SameKey, SameNonce
  <2> QED
    BY <1>1, <2>5, <2>6, <2>7, <2>8, <2>9 DEF ReplayInv
<1>9. ASSUME NEW w \in Workers, CheckSignature(w)
      PROVE  ReplayInv'
  <2>1. pc[w] = "sign" /\ w \in InFlight /\ call[w] \in Call /\ UNCHANGED <<seen, epoch>>
    BY <1>1, <1>9 DEF CheckSignature, InFlight, TypeOK
  <2>2. PICK v \in SignatureVerdicts(call[w]) : Return(w, call[w], v)
    BY <1>9 DEF CheckSignature
  <2>3. v \in Decided /\ v \in Verdicts
    BY <2>1, SignatureVerdictsType DEF Verdicts
  <2>4. call[w].began <= Len(log) /\ \A i \in 1..Len(log) : log[i].worker = w => i <= call[w].began
    BY <1>1, <2>1 DEF TypeOK, ReplayInv, CallsInTurn
  <2>5. SeenKey(call[w].req) \in seen[StoreOf[w]]
    BY <2>1 DEF ReplayInv, SignIsSeen
  <2>6. \A i \in 1..Len(log) :
               /\ log[i].verdict \in Decided
               /\ log[i].store = StoreOf[w] /\ log[i].epoch = epoch[StoreOf[w]]
               /\ SeenKey(log[i].call.req) = SeenKey(call[w].req)
               => call[w].began < i
    BY <2>1 DEF ReplayInv, ClaimsOverlap
  <2> QED
    BY <1>1, <2>1, <2>2, <2>3, <2>4, <2>5, <2>6, ReturnReplay
<1>10. ASSUME NEW s \in Stores, Restart(s)
       PROVE  ReplayInv'
  <2>1. /\ epoch' = [epoch EXCEPT ![s] = @ + 1]
        /\ seen' = [seen EXCEPT ![s] = {}]
        /\ pc' = [w \in Workers |-> IF StoreOf[w] = s THEN "idle" ELSE pc[w]]
        /\ call' = [w \in Workers |-> IF StoreOf[w] = s THEN NoCall ELSE call[w]]
        /\ UNCHANGED log
    BY <1>10 DEF Restart
  <2>2. \A x \in Workers : pc'[x] # "idle" =>
            StoreOf[x] # s /\ pc'[x] = pc[x] /\ call'[x] = call[x]
    BY <2>1
  <2>3. \A i \in 1..Len(log) : log[i].store \in Stores /\ log[i].epoch \in Nat
    BY <1>2, LogEntryType
  <2>4. /\ epoch[s] \in Nat /\ epoch'[s] = epoch[s] + 1
        /\ \A t \in Stores : t # s => epoch'[t] = epoch[t] /\ seen'[t] = seen[t]
    BY <1>1, <2>1 DEF TypeOK
  <2>5. LogIsPast'
    <3>1. ASSUME NEW i \in 1..Len(log)
          PROVE  log[i].epoch <= epoch'[log[i].store]
      BY <2>3, <2>4 DEF ReplayInv, LogIsPast
    <3> QED
      BY <2>1, <3>1 DEF ReplayInv, LogIsPast
  <2>6. DecidedIsSeen'
    <3>1. ASSUME NEW i \in 1..Len(log), log[i].epoch = epoch'[log[i].store]
          PROVE  log[i].store # s
      BY <2>3, <2>4, <3>1 DEF ReplayInv, LogIsPast
    <3>2. ASSUME NEW i \in 1..Len(log), log[i].verdict \in Decided,
                 log[i].epoch = epoch'[log[i].store]
          PROVE  SeenKey(log[i].call.req) \in seen'[log[i].store]
      BY <2>3, <2>4, <3>1, <3>2 DEF ReplayInv, DecidedIsSeen
    <3> QED
      BY <2>1, <3>2 DEF DecidedIsSeen, SeenKey
  <2>7. ClaimsOverlap' /\ SignIsSeen'
    BY <2>1, <2>2, <2>4 DEF ReplayInv, ClaimsOverlap, SignIsSeen, SeenKey
  <2>8. CallsInTurn'
    BY <2>1, <2>2 DEF ReplayInv, CallsInTurn, InFlight
  <2>9. AtMostOnceUnlessConcurrent'
    BY <2>1 DEF ReplayInv, AtMostOnceUnlessConcurrent, SameKey, SameNonce
  <2> QED
    BY <1>1, <2>5, <2>6, <2>7, <2>8, <2>9 DEF ReplayInv
<1>11. CASE UNCHANGED vars
  BY <1>3, <1>11 DEF vars
<1> QED
  BY <1>4, <1>5, <1>6, <1>7, <1>8, <1>9, <1>10, <1>11 DEF Next

\* ReplayInv holds in every reachable state.
THEOREM ReplayInvariant == Spec => []ReplayInv
<1>1. Init => ReplayInv
  <2> SUFFICES ASSUME Init PROVE ReplayInv
    OBVIOUS
  <2>1. TypeOK
    BY InitType
  <2>2. log = <<>> /\ InFlight = {} /\ \A w \in Workers : pc[w] = "idle"
    BY DEF Init, InFlight
  <2>3. 1..Len(log) = {}
    BY <2>2
  <2> QED
    BY <2>1, <2>2, <2>3 DEF ReplayInv, LogIsPast, DecidedIsSeen, ClaimsOverlap, SignIsSeen,
       CallsInTurn, AtMostOnceUnlessConcurrent
<1> QED
  BY <1>1, ReplayStep, PTL DEF Spec

\* Two calls that got past mark_seen with one request in one life of a store
\* overlapped: once one of them has returned, every later call is refused.
THEOREM ReplaySafe == Spec => []AtMostOnceUnlessConcurrent
<1>1. ReplayInv => AtMostOnceUnlessConcurrent
  BY DEF ReplayInv
<1> QED
  BY <1>1, ReplayInvariant, PTL

\* Each store is used by one worker: an asyncio server, or a lock around the
\* verifier.
OneWorkerPerStore == \A v, w \in Workers : StoreOf[v] = StoreOf[w] => v = w

\* With one worker per store a request gets past mark_seen at most once in
\* the life of the store.
THEOREM ReplayOnce == OneWorkerPerStore => (Spec => []AtMostOnce)
<1> SUFFICES ASSUME OneWorkerPerStore PROVE Spec => []AtMostOnce
  OBVIOUS
<1>1. ReplayInv => AtMostOnce
  <2> SUFFICES ASSUME ReplayInv,
                      NEW i \in 1..Len(log), NEW j \in 1..Len(log), SameKey(i, j),
                      log[i].verdict \in Decided, log[j].verdict \in Decided, i # j
               PROVE  FALSE
    BY DEF AtMostOnce
  <2>1. \A k \in 1..Len(log) : log[k].worker \in Workers /\ log[k].call.began \in Nat
    BY LogEntryType DEF ReplayInv, TypeOK
  <2>2. \A k, l \in 1..Len(log) : log[k].store = log[l].store => log[k].worker = log[l].worker
    BY <2>1 DEF ReplayInv, LogIsPast, OneWorkerPerStore
  <2>3. log[i].worker = log[j].worker /\ SameKey(j, i)
    BY <2>2 DEF SameKey, SameNonce
  <2>4. CASE i < j
    <3>1. log[j].call.began < i
      BY <2>4 DEF ReplayInv, AtMostOnceUnlessConcurrent
    <3>2. i <= log[j].call.began
      BY <2>3, <2>4 DEF ReplayInv, CallsInTurn
    <3> QED
      BY <2>1, <3>1, <3>2
  <2>5. CASE j < i
    <3>1. log[i].call.began < j
      BY <2>3, <2>5 DEF ReplayInv, AtMostOnceUnlessConcurrent
    <3>2. j <= log[i].call.began
      BY <2>3, <2>5 DEF ReplayInv, CallsInTurn
    <3> QED
      BY <2>1, <3>1, <3>2
  <2> QED
    BY <2>4, <2>5
<1> QED
  BY <1>1, ReplayInvariant, PTL

-----------------------------------------------------------------------------
\* The inductive invariant behind authenticity and the replay window.

\* Every request on the wire is what its actor's client makes of its headers
\* and body.
WireSigned ==
    \A m \in wire : m = _signed_headers(m.actor_id, m.nonce, m.timestamp, m.body)

FromWire(r) == \E m \in wire : r \in Arrivals(m)

\* A call on its way through the verifier is of a request that was sent, and
\* was fresh by the clock it read.
CallsArrived ==
    \A w \in InFlight : FromWire(call[w].req) /\ ~Expired(call[w].now, call[w].req)

\* So is a call that was decided, and its verdict is the signature's.
LogArrived ==
    \A i \in 1..Len(log) : log[i].verdict \in Decided =>
        /\ FromWire(log[i].call.req) /\ ~Expired(log[i].call.now, log[i].call.req)
        /\ log[i].verdict \in SignatureVerdicts(log[i].call)

ArrivalInv == TypeOK /\ WireSigned /\ CallsArrived /\ LogArrived

\* A decided return keeps the invariant when its verdict is the signature's;
\* an undecided one always does.
LEMMA ReturnArrival ==
    ASSUME ArrivalInv, NEW w \in Workers, NEW c \in Call, NEW v \in Verdicts,
           Return(w, c, v), UNCHANGED <<client, wire>>, TypeOK',
           v \in Decided => /\ FromWire(c.req) /\ ~Expired(c.now, c.req)
                            /\ v \in SignatureVerdicts(c)
    PROVE  ArrivalInv'
<1>1. TypeOK
  BY DEF ArrivalInv
<1>2. PICK n : Returned(w, c, v, n)
  BY <1>1, ReturnFields
<1>3. WireSigned'
  BY DEF ArrivalInv, WireSigned, _signed_headers
<1>4. CallsArrived'
  <2>1. ASSUME NEW x \in InFlight' PROVE x \in InFlight /\ call'[x] = call[x]
    BY <1>1, <1>2 DEF InFlight, TypeOK, Returned
  <2> QED
    BY <2>1 DEF ArrivalInv, CallsArrived, FromWire, Expired
<1>5. LogArrived'
  <2> SUFFICES ASSUME NEW i \in 1..Len(log'), log'[i].verdict \in Decided
               PROVE  /\ FromWire(log'[i].call.req)
                      /\ ~Expired(log'[i].call.now, log'[i].call.req)
                      /\ log'[i].verdict \in SignatureVerdicts(log'[i].call)
    BY DEF LogArrived, FromWire, Expired, SignatureVerdicts
  <2>1. CASE i \in 1..Len(log)
    BY <1>2, <2>1 DEF ArrivalInv, LogArrived, Returned
  <2>2. CASE i = n
    BY <1>2, <2>2 DEF Returned
  <2> QED
    BY <1>2, <2>1, <2>2 DEF Returned
<1> QED
  BY <1>3, <1>4, <1>5 DEF ArrivalInv

\* A step that keeps calls and log, or only ends calls, keeps the invariant if
\* it loses nothing that was sent.
LEMMA QuietArrival ==
    ASSUME ArrivalInv, TypeOK', WireSigned', wire \subseteq wire', UNCHANGED log,
           \A w \in InFlight' : w \in InFlight /\ call'[w] = call[w]
    PROVE  ArrivalInv'
<1>1. \A r : FromWire(r) => FromWire(r)'
  BY DEF FromWire
<1>2. CallsArrived'
  BY <1>1 DEF ArrivalInv, CallsArrived, FromWire, Expired
<1>3. LogArrived'
  BY <1>1 DEF ArrivalInv, LogArrived, FromWire, Expired, SignatureVerdicts
<1> QED
  BY <1>2, <1>3 DEF ArrivalInv

LEMMA ArrivalStep ==
    ASSUME ArrivalInv, [Next]_vars
    PROVE  ArrivalInv'
<1>1. TypeOK /\ TypeOK'
  BY TypeStep DEF ArrivalInv
<1>2. UNCHANGED <<client, wire>> => WireSigned'
  BY DEF ArrivalInv, WireSigned, _signed_headers
<1>3. ASSUME NEW a \in Actors, Send(a)
      PROVE  ArrivalInv'
  <2>1. PICK n \in Nonces, t \in (clock - MaxSkew)..(clock + MaxSkew), b \in Bodies :
          wire' = wire \cup {_signed_headers(a, n, t, b)}
    BY <1>3 DEF Send
  <2>2. UNCHANGED <<client, pc, call, log>>
    BY <1>3 DEF Send
  <2> DEFINE m == _signed_headers(a, n, t, b)
  <2>3. m = _signed_headers(m.actor_id, m.nonce, m.timestamp, m.body)
    <3>1. m.actor_id = a /\ m.nonce = n /\ m.timestamp = t /\ m.body = b
      BY DEF _signed_headers, sign_payload, sign_payload_hotkey
    <3> QED
      BY <3>1
  <2> HIDE DEF m
  <2>4. wire' = wire \cup {m}
    BY <2>1 DEF m
  <2>5. WireSigned'
    BY <2>2, <2>3, <2>4 DEF ArrivalInv, WireSigned, _signed_headers
  <2> QED
    BY <1>1, <2>2, <2>4, <2>5, QuietArrival DEF InFlight
<1>4. CASE AdjustClock
  BY <1>1, <1>2, <1>4, QuietArrival DEF AdjustClock, InFlight
<1>5. ASSUME NEW w \in Workers, Begin(w)
      PROVE  ArrivalInv'
  <2>1. PICK c \in Call :
          /\ FromWire(c.req)
          /\ \/ Return(w, c, "signature expired")
             \/ /\ ~Expired(c.now, c.req)
                /\ pc' = [pc EXCEPT ![w] = "check"]
                /\ call' = [call EXCEPT ![w] = c]
                /\ UNCHANGED log
    BY <1>1, <1>5, BeginCall DEF FromWire
  <2>2. UNCHANGED <<client, wire>>
    BY <1>5 DEF Begin
  <2>3. CASE Return(w, c, "signature expired")
    <3>1. "signature expired" \in Verdicts \ Decided
      BY DEF Verdicts, Decided
    <3> QED
      BY <1>1, <2>2, <2>3, <3>1, ReturnArrival
  <2>4. CASE /\ ~Expired(c.now, c.req)
             /\ pc' = [pc EXCEPT ![w] = "check"]
             /\ call' = [call EXCEPT ![w] = c]
             /\ UNCHANGED log
    <3>1. \A x \in InFlight' : x # w => x \in InFlight /\ call'[x] = call[x]
      BY <1>1, <2>4 DEF InFlight, TypeOK
    <3>2. call'[w] = c
      BY <1>1, <2>4 DEF TypeOK
    <3>3. CallsArrived'
      BY <2>1, <2>2, <2>4, <3>1, <3>2 DEF ArrivalInv, CallsArrived, FromWire, Expired
    <3>4. LogArrived'
      BY <2>2, <2>4 DEF ArrivalInv, LogArrived, FromWire, Expired, SignatureVerdicts
    <3> QED
      BY <1>1, <1>2, <2>2, <3>3, <3>4 DEF ArrivalInv
  <2> QED
    BY <2>1, <2>3, <2>4
<1>6. ASSUME NEW w \in Workers, CheckSeen(w)
      PROVE  ArrivalInv'
  <2>1. UNCHANGED <<client, wire>> /\ call[w] \in Call /\ w \in InFlight
    BY <1>1, <1>6 DEF CheckSeen, TypeOK, InFlight
  <2>2. CASE Return(w, call[w], "replay detected")
    <3>1. "replay detected" \in Verdicts \ Decided
      BY DEF Verdicts, Decided
    <3> QED
      BY <1>1, <2>1, <2>2, <3>1, ReturnArrival
  <2>3. CASE pc' = [pc EXCEPT ![w] = "add"] /\ UNCHANGED <<call, log>>
    <3>1. InFlight' \subseteq InFlight
      BY <1>1, <2>1, <2>3 DEF InFlight, TypeOK
    <3> QED
      BY <1>1, <1>2, <2>1, <2>3, <3>1, QuietArrival
  <2> QED
    BY <1>6, <2>2, <2>3 DEF CheckSeen
<1>7. ASSUME NEW w \in Workers, AddSeen(w)
      PROVE  ArrivalInv'
  <2>1. UNCHANGED <<client, wire, call, log>> /\ InFlight' \subseteq InFlight
    BY <1>1, <1>7 DEF AddSeen, InFlight, TypeOK
  <2> QED
    BY <1>1, <1>2, <2>1, QuietArrival
<1>8. ASSUME NEW w \in Workers, CheckSignature(w)
      PROVE  ArrivalInv'
  <2>1. UNCHANGED <<client, wire>> /\ call[w] \in Call /\ w \in InFlight
    BY <1>1, <1>8 DEF CheckSignature, TypeOK, InFlight
  <2>2. PICK v \in SignatureVerdicts(call[w]) : Return(w, call[w], v)
    BY <1>8 DEF CheckSignature
  <2>3. v \in Verdicts
    BY <2>1, SignatureVerdictsType DEF Verdicts
  <2>4. FromWire(call[w].req) /\ ~Expired(call[w].now, call[w].req)
    BY <2>1 DEF ArrivalInv, CallsArrived
  <2> QED
    BY <1>1, <2>1, <2>2, <2>3, <2>4, ReturnArrival
<1>9. ASSUME NEW s \in Stores, Restart(s)
      PROVE  ArrivalInv'
  <2>1. UNCHANGED <<client, wire, log>>
    BY <1>9 DEF Restart
  <2>2. \A w \in InFlight' : w \in InFlight /\ call'[w] = call[w]
    BY <1>9 DEF Restart, InFlight
  <2> QED
    BY <1>1, <1>2, <2>1, <2>2, QuietArrival
<1>10. CASE UNCHANGED vars
  BY <1>1, <1>2, <1>10, QuietArrival DEF vars, InFlight
<1> QED
  BY <1>3, <1>4, <1>5, <1>6, <1>7, <1>8, <1>9, <1>10 DEF Next

\* ArrivalInv holds in every reachable state.
THEOREM ArrivalInvariant == Spec => []ArrivalInv
<1>1. Init => ArrivalInv
  <2> SUFFICES ASSUME Init PROVE ArrivalInv
    OBVIOUS
  <2>1. wire = {} /\ log = <<>> /\ InFlight = {}
    BY DEF Init, InFlight
  <2>2. 1..Len(log) = {}
    BY <2>1
  <2> QED
    BY <2>1, <2>2, InitType DEF ArrivalInv, WireSigned, CallsArrived, LogArrived
<1> QED
  BY <1>1, ArrivalStep, PTL DEF Spec

\* The signature of a request on the wire is its client's, over its own
\* headers and body.
LEMMA WireSignature ==
    ASSUME ArrivalInv, NEW m \in wire
    PROVE  LET cfg == client[m.actor_id] IN
           /\ m \in SignedRequest /\ cfg \in ClientConfig
           /\ m.signature = [key |-> IF hotkey_seed(cfg) # NoWallet THEN hotkey_seed(cfg)
                                     ELSE cfg.auth_secret,
                             msg |-> Message(m)]
<1>1. m \in SignedRequest /\ client[m.actor_id] \in ClientConfig
  BY DEF ArrivalInv, TypeOK, SignedRequest
<1>2. m = _signed_headers(m.actor_id, m.nonce, m.timestamp, m.body)
  BY DEF ArrivalInv, WireSigned
<1>3. CASE hotkey_seed(client[m.actor_id]) # NoWallet
  <2>1. m = sign_payload_hotkey(hotkey_seed(client[m.actor_id]), m.actor_id, m.nonce,
                                m.timestamp, m.body)
    BY <1>2, <1>3 DEF _signed_headers
  <2> QED
    BY <1>1, <1>3, <2>1 DEF sign_payload_hotkey, Message
<1>4. CASE hotkey_seed(client[m.actor_id]) = NoWallet
  <2>1. m = sign_payload(client[m.actor_id].auth_secret, m.actor_id, m.nonce,
                         m.timestamp, m.body)
    BY <1>2, <1>4 DEF _signed_headers
  <2> QED
    BY <1>1, <1>4, <2>1 DEF sign_payload, Message
<1> QED
  BY <1>3, <1>4

\* What happens on the way changes neither actor, nonce nor timestamp, and a
\* signature only into one that cannot be decoded.
LEMMA ArrivalFacts ==
    ASSUME NEW m \in SignedRequest, NEW r \in Arrivals(m)
    PROVE  SameNonce(m, r) /\ r.signature \in {m.signature, Garbled}
  BY DEF Arrivals, SameNonce, SignedRequest

\* A verdict "ok" is about the headers and the body that were signed, with the
\* verifier's secret or the actor's own hotkey.
LEMMA OkIsSigned ==
    ASSUME ArrivalInv, NEW c \in Call, FromWire(c.req), "ok" \in SignatureVerdicts(c)
    PROVE  \E m \in wire :
              /\ SameNonce(m, c.req) /\ m.body = c.req.body
              /\ LET cfg == client[m.actor_id] IN
                 IF c.entry = "hmac" THEN cfg.auth_secret = c.secret
                 ELSE cfg.wallet = m.actor_id
<1>1. PICK m \in wire : c.req \in Arrivals(m)
  BY DEF FromWire
<1> DEFINE cfg == client[m.actor_id]
           r == c.req
           key == IF c.entry = "hmac" THEN c.secret ELSE r.actor_id
<1>2. /\ m \in SignedRequest /\ cfg \in ClientConfig
      /\ m.signature = [key |-> IF hotkey_seed(cfg) # NoWallet THEN hotkey_seed(cfg)
                                ELSE cfg.auth_secret,
                        msg |-> Message(m)]
  BY WireSignature
<1>3. SameNonce(m, r) /\ r.signature \in {m.signature, Garbled} /\ r \in SignedRequest
  BY <1>1, <1>2, ArrivalFacts DEF Call
<1>4. r.signature = [key |-> key, msg |-> Message(r)]
  BY DEF SignatureVerdicts, HmacVerdicts, HotkeyVerdicts
<1>5. r.signature # Garbled
  <2>1. key \in Actors \cup Secrets
    BY <1>3 DEF Call, SignedRequest
  <2>2. Message(r) \in Actors \X Nonces \X Timestamps \X Bodies
    BY <1>3 DEF Message, _canonical, SignedRequest
  <2>3. r.signature \in Signed
    BY <1>4, <2>1, <2>2 DEF Signed
  <2> QED
    BY <2>3, GarbledAssumption
<1>6. /\ key = IF hotkey_seed(cfg) # NoWallet THEN hotkey_seed(cfg) ELSE cfg.auth_secret
      /\ Message(r) = Message(m)
  <2>1. r.signature = m.signature
    BY <1>3, <1>5
  <2> HIDE DEF key, cfg, r
  <2> QED
    BY <1>2, <1>4, <2>1
<1>7. m.body = r.body
  BY <1>6 DEF Message, _canonical
<1>8. /\ cfg.auth_secret \in Secrets /\ cfg.wallet \in Actors \cup {NoWallet}
      /\ hotkey_seed(cfg) \in {cfg.wallet, NoWallet} /\ Actors \cap Secrets = {}
  BY <1>2, ConstantsAssumption DEF ClientConfig, hotkey_seed
<1>9. IF c.entry = "hmac" THEN cfg.auth_secret = c.secret ELSE cfg.wallet = m.actor_id
  <2>1. CASE c.entry = "hmac"
    <3>1. key = c.secret /\ c.secret \in Secrets
      BY <2>1 DEF Call
    <3> QED
      BY <1>6, <1>8, <2>1, <3>1
  <2>2. CASE c.entry # "hmac"
    <3>1. key = r.actor_id /\ r.actor_id \in Actors /\ m.actor_id = r.actor_id
      BY <1>3, <2>2 DEF SignedRequest, SameNonce
    <3> QED
      BY <1>6, <1>8, <2>2, <3>1
  <2> QED
    BY <2>1, <2>2
<1> QED
  BY <1>3, <1>7, <1>9

\* Whatever was rewritten, truncated, delivered again or signed by another
\* configuration: verify_payload* accepts only what the accepted actor's client
\* sent, body included, with the verifier's secret or that actor's own hotkey.
THEOREM Authentic == Spec => []AcceptedIsAuthentic
<1>1. ArrivalInv => AcceptedIsAuthentic
  <2> SUFFICES ASSUME ArrivalInv, NEW i \in 1..Len(log), log[i].verdict = "ok"
               PROVE  LET c == log[i].call IN
                      \E m \in wire :
                        /\ SameNonce(m, c.req) /\ m.body = c.req.body
                        /\ LET cfg == client[m.actor_id] IN
                           IF c.entry = "hmac" THEN cfg.auth_secret = c.secret
                           ELSE cfg.wallet = m.actor_id
    BY DEF AcceptedIsAuthentic
  <2>1. "ok" \in Decided
    BY DEF Decided
  <2>2. FromWire(log[i].call.req) /\ "ok" \in SignatureVerdicts(log[i].call)
    BY <2>1 DEF ArrivalInv, LogArrived
  <2>3. log[i].call \in Call
    BY LogEntryType DEF ArrivalInv, TypeOK
  <2> QED
    BY <2>2, <2>3, OkIsSigned
<1> QED
  BY <1>1, ArrivalInvariant, PTL

\* Two readings that are both within the window of one timestamp are at most
\* two windows apart.
LEMMA WindowsMeet ==
    ASSUME NEW a \in Int, NEW b \in Int, NEW t \in Int,
           ~(Abs(a - t) > Window), ~(Abs(b - t) > Window)
    PROVE  Abs(a - b) <= 2 * Window
  BY ConstantsAssumption DEF Abs

\* Restarts empty the replay store, clocks jump and threads race: still no
\* request is accepted at two readings of the clock more than two windows apart.
THEOREM HorizonHolds == Spec => []ReplayHorizon
<1>1. ArrivalInv => ReplayHorizon
  <2> SUFFICES ASSUME ArrivalInv, NEW i \in 1..Len(log), NEW j \in 1..Len(log),
                      log[i].verdict = "ok", log[j].verdict = "ok",
                      SameNonce(log[i].call.req, log[j].call.req)
               PROVE  Abs(log[i].call.now - log[j].call.now) <= 2 * Window
    BY DEF ReplayHorizon
  <2>1. /\ log[i].call.now \in Int /\ log[j].call.now \in Int
        /\ log[i].call.req.timestamp \in Int
    <3>1. log[i].call \in Call /\ log[j].call \in Call
      BY LogEntryType DEF ArrivalInv, TypeOK
    <3>2. Timestamps \subseteq Int
      BY ConstantsAssumption DEF Timestamps
    <3> QED
      BY <3>1, <3>2 DEF Call, SignedRequest
  <2>2. "ok" \in Decided
    BY DEF Decided
  <2>3. /\ ~(Abs(log[i].call.now - log[i].call.req.timestamp) > Window)
        /\ ~(Abs(log[j].call.now - log[j].call.req.timestamp) > Window)
    BY <2>2 DEF ArrivalInv, LogArrived, Expired
  <2>4. log[i].call.req.timestamp = log[j].call.req.timestamp
    BY DEF SameNonce
  <2> QED
    BY <2>1, <2>3, <2>4, WindowsMeet
<1> QED
  BY <1>1, ArrivalInvariant, PTL

\* The signing half and the verifying half agree on the canonical message: an
\* untouched request signed with the key the verifier expects is never refused
\* for its signature.
THEOREM NoFalseMismatch == Spec => []MismatchHasCause
<1>1. ArrivalInv => MismatchHasCause
  <2> SUFFICES ASSUME ArrivalInv, NEW i \in 1..Len(log),
                      log[i].verdict \in Decided \ {"ok"}, log[i].call.req \in wire
               PROVE  LET c == log[i].call
                          cfg == client[c.req.actor_id] IN
                      \/ c.entry = "hmac" /\ (hotkey_seed(cfg) # NoWallet \/ cfg.auth_secret # c.secret)
                      \/ c.entry = "hotkey" /\ hotkey_seed(cfg) # c.req.actor_id
    BY DEF MismatchHasCause
  <2> DEFINE c == log[i].call
             r == c.req
             cfg == client[r.actor_id]
             key == IF hotkey_seed(cfg) # NoWallet THEN hotkey_seed(cfg) ELSE cfg.auth_secret
  <2>1. c \in Call /\ c.entry \in {"hmac", "hotkey"}
    BY LogEntryType DEF ArrivalInv, TypeOK, Call, Modes
  <2>2. log[i].verdict \in SignatureVerdicts(c) /\ log[i].verdict # "ok"
    BY DEF ArrivalInv, LogArrived
  <2>3. r \in SignedRequest /\ r.signature = [key |-> key, msg |-> Message(r)]
    BY WireSignature
  <2>4. r.actor_id \in Actors /\ NoWallet \notin Actors
    BY <2>3, ConstantsAssumption DEF SignedRequest
  <2>5. CASE c.entry = "hmac"
    <3>1. r.signature # [key |-> c.secret, msg |-> Message(r)]
      BY <2>2, <2>5 DEF SignatureVerdicts, HmacVerdicts
    <3>2. key # c.secret
      BY <2>3, <3>1
    <3> QED
      BY <2>5, <3>2
  <2>6. CASE c.entry = "hotkey"
    <3>1. r.signature = Garbled \/ r.signature # [key |-> r.actor_id, msg |-> Message(r)]
      BY <2>2, <2>6 DEF SignatureVerdicts, HotkeyVerdicts
    <3>2. hotkey_seed(cfg) = r.actor_id => r.signature \in Signed
      <4>1. Message(r) \in Actors \X Nonces \X Timestamps \X Bodies
        BY <2>3 DEF Message, _canonical, SignedRequest
      <4> QED
        BY <2>3, <2>4, <4>1 DEF Signed
    <3>3. hotkey_seed(cfg) # r.actor_id
      BY <2>3, <2>4, <3>1, <3>2, GarbledAssumption
    <3> QED
      BY <2>6, <3>3
  <2> QED
    BY <2>1, <2>5, <2>6
<1> QED
  BY <1>1, ArrivalInvariant, PTL

-----------------------------------------------------------------------------
\* No false replay.

\* A key in a store was put there by a call of this life of the store that has
\* been decided or is about to be.
HasOriginal(s, k) ==
    \/ \E i \in 1..Len(log) :
        /\ log[i].verdict \in Decided
        /\ log[i].store = s /\ log[i].epoch = epoch[s]
        /\ SeenKey(log[i].call.req) = k
    \/ \E w \in Workers : pc[w] = "sign" /\ StoreOf[w] = s /\ SeenKey(call[w].req) = k

HeldHasOriginal == \A s \in Stores : \A k \in seen[s] : HasOriginal(s, k)

\* The key of a call refused as a replay is still held while the store lives.
RefusedIsHeld ==
    \A j \in 1..Len(log) :
        log[j].verdict = "replay detected" /\ log[j].epoch = epoch[log[j].store]
            => SeenKey(log[j].call.req) \in seen[log[j].store]

OriginalInv == TypeOK /\ LogIsPast /\ HeldHasOriginal /\ RefusedIsHeld

\* A return keeps the originals: the call of the worker itself, if it was one,
\* is decided.
LEMMA ReturnOriginal ==
    ASSUME OriginalInv, TypeOK', LogIsPast', UNCHANGED <<seen, epoch>>,
           NEW w \in Workers, NEW c \in Call, NEW v \in Verdicts, Return(w, c, v),
           pc[w] = "sign" => v \in Decided /\ c = call[w],
           v = "replay detected" => SeenKey(c.req) \in seen[StoreOf[w]]
    PROVE  OriginalInv'
<1>1. TypeOK
  BY DEF OriginalInv
<1>2. PICK n : Returned(w, c, v, n)
  BY <1>1, ReturnFields
<1>4. \A x \in Workers : x # w => pc'[x] = pc[x] /\ call'[x] = call[x]
  BY <1>1, <1>2 DEF TypeOK, Returned
<1>5. ASSUME NEW s \in Stores, NEW k \in seen'[s]
      PROVE  HasOriginal(s, k)'
  <2>1. HasOriginal(s, k)
    BY <1>5 DEF OriginalInv, HeldHasOriginal
  <2>2. CASE \E i \in 1..Len(log) : /\ log[i].verdict \in Decided
                                    /\ log[i].store = s /\ log[i].epoch = epoch[s]
                                    /\ SeenKey(log[i].call.req) = k
    <3>1. PICK i \in 1..Len(log) : /\ log[i].verdict \in Decided
                                   /\ log[i].store = s /\ log[i].epoch = epoch[s]
                                   /\ SeenKey(log[i].call.req) = k
      BY <2>2
    <3>2. i \in 1..Len(log') /\ log'[i] = log[i]
      BY <1>2 DEF Returned
    <3> QED
      BY <3>1, <3>2 DEF HasOriginal, SeenKey
  <2>3. CASE \E x \in Workers : pc[x] = "sign" /\ StoreOf[x] = s /\ SeenKey(call[x].req) = k
    <3>1. PICK x \in Workers : pc[x] = "sign" /\ StoreOf[x] = s /\ SeenKey(call[x].req) = k
      BY <2>3
    <3>2. CASE x = w
      <4>1. v \in Decided /\ SeenKey(c.req) = k /\ StoreOf[w] = s
        BY <3>1, <3>2
      <4> QED
        BY <1>2, <4>1 DEF HasOriginal, SeenKey, Returned
    <3>3. CASE x # w
      BY <1>4, <3>1, <3>3 DEF HasOriginal, SeenKey
    <3> QED
      BY <3>2, <3>3
  <2> QED
    BY <2>1, <2>2, <2>3 DEF HasOriginal
<1>6. HeldHasOriginal'
  BY <1>5 DEF HeldHasOriginal, HasOriginal, SeenKey
<1>7. RefusedIsHeld'
  BY <1>2 DEF OriginalInv, RefusedIsHeld, SeenKey, Returned
<1> QED
  BY <1>6, <1>7 DEF OriginalInv

LEMMA OriginalStep ==
    ASSUME OriginalInv, [Next]_vars, LogIsPast'
    PROVE  OriginalInv'
<1>1. TypeOK /\ TypeOK' /\ LogIsPast /\ LogIsPast'
  BY TypeStep DEF OriginalInv
<1>2. ASSUME UNCHANGED <<seen, epoch, log>>,
             \A w \in Workers : pc[w] = "sign" => pc'[w] = "sign" /\ call'[w] = call[w]
      PROVE  OriginalInv'
  <2>1. \A s \in Stores : \A k \in seen[s] : HasOriginal(s, k)'
    BY <1>2 DEF OriginalInv, HeldHasOriginal, HasOriginal, SeenKey
  <2>2. HeldHasOriginal'
    BY <1>2, <2>1 DEF HeldHasOriginal, HasOriginal, SeenKey
  <2>3. RefusedIsHeld'
    BY <1>2 DEF OriginalInv, RefusedIsHeld, SeenKey
  <2> QED
    BY <1>1, <2>2, <2>3 DEF OriginalInv
<1>3. ASSUME NEW a \in Actors, Send(a)
      PROVE  OriginalInv'
  BY <1>2, <1>3 DEF Send
<1>4. CASE AdjustClock
  BY <1>2, <1>4 DEF AdjustClock
<1>5. ASSUME NEW w \in Workers, Begin(w)
      PROVE  OriginalInv'
  <2>1. PICK c \in Call :
          \/ Return(w, c, "signature expired")
          \/ /\ pc' = [pc EXCEPT ![w] = "check"]
             /\ call' = [call EXCEPT ![w] = c]
             /\ UNCHANGED log
    BY <1>1, <1>5, BeginCall
  <2>2. UNCHANGED <<seen, epoch>> /\ pc[w] = "idle"
    BY <1>5 DEF Begin
  <2>3. CASE Return(w, c, "signature expired")
    <3>1. "signature expired" \in Verdicts
      BY DEF Verdicts
    <3> QED
      BY <1>1, <2>2, <2>3, <3>1, ReturnOriginal
  <2>4. CASE /\ pc' = [pc EXCEPT ![w] = "check"]
             /\ call' = [call EXCEPT ![w] = c]
             /\ UNCHANGED log
    <3>1. \A x \in Workers : x # w => pc'[x] = pc[x] /\ call'[x] = call[x]
      BY <1>1, <2>4 DEF TypeOK
    <3> QED
      BY <1>2, <2>2, <2>4, <3>1
  <2> QED
    BY <2>1, <2>3, <2>4
<1>6. ASSUME NEW w \in Workers, CheckSeen(w)
      PROVE  OriginalInv'
  <2>1. UNCHANGED <<seen, epoch>> /\ pc[w] = "check" /\ call[w] \in Call
    BY <1>1, <1>6 DEF CheckSeen, TypeOK, InFlight
  <2>2. CASE SeenKey(call[w].req) \in seen[StoreOf[w]]
    <3>1. Return(w, call[w], "replay detected") /\ "replay detected" \in Verdicts
      BY <1>6, <2>2 DEF CheckSeen, Verdicts
    <3> QED
      BY <1>1, <2>1, <2>2, <3>1, ReturnOriginal
  <2>3. CASE SeenKey(call[w].req) \notin seen[StoreOf[w]]
    <3>1. pc' = [pc EXCEPT ![w] = "add"] /\ UNCHANGED <<call, log>>
      BY <1>6, <2>3 DEF CheckSeen
    <3>2. \A x \in Workers : x # w => pc'[x] = pc[x]
      BY <1>1, <3>1 DEF TypeOK
    <3> QED
      BY <1>2, <2>1, <3>1, <3>2
  <2> QED
    BY <2>2, <2>3
<1>7. ASSUME NEW w \in Workers, AddSeen(w)
      PROVE  OriginalInv'
  <2>1. /\ pc[w] = "add" /\ pc' = [pc EXCEPT ![w] = "sign"]
        /\ seen' = [seen EXCEPT ![StoreOf[w]] = @ \cup {SeenKey(call[w].req)}]
        /\ UNCHANGED <<call, log, epoch>>
    BY <1>7 DEF AddSeen
  <2>2. pc'[w] = "sign" /\ \A x \in Workers : pc[x] = "sign" => pc'[x] = "sign"
    BY <1>1, <2>1 DEF TypeOK
  <2>3. /\ \A s \in Stores : seen[s] \subseteq seen'[s]
        /\ \A s \in Stores : \A k \in seen'[s] :
              k \in seen[s] \/ (s = StoreOf[w] /\ k = SeenKey(call[w].req))
    BY <1>1, <2>1 DEF TypeOK
  <2>4. \A s \in Stores : \A k \in seen[s] : HasOriginal(s, k)'
    BY <2>1, <2>2 DEF OriginalInv, HeldHasOriginal, HasOriginal, SeenKey
  <2>5. HasOriginal(StoreOf[w], SeenKey(call[w].req))'
    BY <2>1, <2>2 DEF HasOriginal, SeenKey
  <2>6. \A s \in Stores : \A k \in seen'[s] : HasOriginal(s, k)'
    BY <2>1, <2>3, <2>4, <2>5 DEF SeenKey
  <2>7. HeldHasOriginal'
    BY <2>6 DEF HeldHasOriginal, HasOriginal, SeenKey
  <2>8. RefusedIsHeld'
    <3>1. \A j \in 1..Len(log) : log[j].store \in Stores
      BY <1>1, LogEntryType DEF TypeOK
    <3> QED
      BY <2>1, <2>3, <3>1 DEF OriginalInv, RefusedIsHeld, SeenKey
  <2> QED
    BY <1>1, <2>7, <2>8 DEF OriginalInv
<1>8. ASSUME NEW w \in Workers, CheckSignature(w)
      PROVE  OriginalInv'
  <2>1. UNCHANGED <<seen, epoch>> /\ pc[w] = "sign" /\ call[w] \in Call
    BY <1>1, <1>8 DEF CheckSignature, TypeOK, InFlight
  <2>2. PICK v \in SignatureVerdicts(call[w]) : Return(w, call[w], v)
    BY <1>8 DEF CheckSignature
  <2>3. v \in Verdicts /\ v \in Decided /\ v # "replay detected"
    BY <2>1, SignatureVerdictsType DEF Verdicts, Decided
  <2> QED
    BY <1>1, <2>1, <2>2, <2>3, ReturnOriginal
<1>9. ASSUME NEW s \in Stores, Restart(s)
      PROVE  OriginalInv'
  <2>1. /\ epoch' = [epoch EXCEPT ![s] = @ + 1]
        /\ seen' = [seen EXCEPT ![s] = {}]
        /\ pc' = [w \in Workers |-> IF StoreOf[w] = s THEN "idle" ELSE pc[w]]
        /\ call' = [w \in Workers |-> IF StoreOf[w] = s THEN NoCall ELSE call[w]]
        /\ UNCHANGED log
    BY <1>9 DEF Restart
  <2>2. \A j \in 1..Len(log) : log[j].store \in Stores /\ log[j].epoch \in Nat
    BY <1>1, LogEntryType DEF TypeOK
  <2>3. /\ epoch[s] \in Nat /\ epoch'[s] = epoch[s] + 1
        /\ \A t \in Stores : t # s => epoch'[t] = epoch[t] /\ seen'[t] = seen[t]
    BY <1>1, <2>1 DEF TypeOK
  <2>0. seen'[s] = {}
    BY <1>1, <2>1 DEF TypeOK
  <2>4. ASSUME NEW t \in Stores, NEW k \in seen'[t]
        PROVE  HasOriginal(t, k)'
    <3>1. t # s /\ k \in seen[t] /\ epoch'[t] = epoch[t]
      BY <2>0, <2>3, <2>4
    <3>2. HasOriginal(t, k)
      BY <3>1 DEF OriginalInv, HeldHasOriginal
    <3>3. \A x \in Workers : StoreOf[x] = t => pc'[x] = pc[x] /\ call'[x] = call[x]
      BY <2>1, <3>1
    <3> QED
      BY <2>1, <3>1, <3>2, <3>3 DEF HasOriginal, SeenKey
  <2>5. HeldHasOriginal'
    BY <2>4 DEF HeldHasOriginal, HasOriginal, SeenKey
  <2>6. RefusedIsHeld'
    <3>1. ASSUME NEW j \in 1..Len(log), log[j].epoch = epoch'[log[j].store]
          PROVE  log[j].store # s
      BY <2>2, <2>3, <3>1 DEF OriginalInv, LogIsPast
    <3> SUFFICES ASSUME NEW j \in 1..Len(log), log[j].verdict = "replay detected",
                        log[j].epoch = epoch'[log[j].store]
                 PROVE  SeenKey(log[j].call.req) \in seen'[log[j].store]
      BY <2>1 DEF RefusedIsHeld, SeenKey
    <3>2. log[j].store \in Stores
      BY <2>2
    <3>3. epoch'[log[j].store] = epoch[log[j].store] /\ seen'[log[j].store] = seen[log[j].store]
      BY <2>3, <3>1, <3>2
    <3> QED
      BY <3>3 DEF OriginalInv, RefusedIsHeld
  <2> QED
    BY <1>1, <2>5, <2>6 DEF OriginalInv
<1>10. CASE UNCHANGED vars
  BY <1>2, <1>10 DEF vars
<1> QED
  BY <1>3, <1>4, <1>5, <1>6, <1>7, <1>8, <1>9, <1>10 DEF Next

\* OriginalInv holds in every reachable state.
THEOREM OriginalInvariant == Spec => []OriginalInv
<1>1. Init => OriginalInv
  <2> SUFFICES ASSUME Init PROVE OriginalInv
    OBVIOUS
  <2>1. log = <<>> /\ \A s \in Stores : seen[s] = {}
    BY DEF Init
  <2>2. 1..Len(log) = {}
    BY <2>1
  <2> QED
    BY <2>1, <2>2, InitType DEF OriginalInv, LogIsPast, HeldHasOriginal, RefusedIsHeld
<1>2. ReplayInv' => LogIsPast'
  BY DEF ReplayInv
<1> QED
  BY <1>1, <1>2, OriginalStep, ReplayInvariant, PTL DEF Spec

\* Threads may race and processes restart: a request is refused as replayed
\* only when the process, in its present life, did let the same request past
\* mark_seen before.
THEOREM NoFalseReplay == Spec => []ReplayHasOriginal
<1>1. OriginalInv => ReplayHasOriginal
  <2> SUFFICES ASSUME OriginalInv, NEW j \in 1..Len(log),
                      log[j].verdict = "replay detected",
                      log[j].epoch = epoch[log[j].store]
               PROVE  LET r == log[j].call.req IN
                      \/ \E i \in 1..Len(log) :
                          /\ log[i].verdict \in Decided
                          /\ log[i].store = log[j].store /\ log[i].epoch = log[j].epoch
                          /\ SameNonce(log[i].call.req, r)
                      \/ \E w \in Workers :
                          /\ pc[w] = "sign" /\ StoreOf[w] = log[j].store
                          /\ SameNonce(call[w].req, r)
    BY DEF ReplayHasOriginal
  <2>1. log[j].store \in Stores
    BY LogEntryType DEF OriginalInv, TypeOK
  <2>2. HasOriginal(log[j].store, SeenKey(log[j].call.req))
    BY <2>1 DEF OriginalInv, RefusedIsHeld, HeldHasOriginal
  <2>3. \A q, r : SeenKey(q) = SeenKey(r) => SameNonce(q, r)
    BY DEF SeenKey, SameNonce
  <2> QED
    BY <2>2, <2>3 DEF HasOriginal
<1> QED
  BY <1>1, OriginalInvariant, PTL

-----------------------------------------------------------------------------
\* With one worker per store the verifier keeps the contract: the two steps of
\* mark_seen and the signature check are one grant and one decision.

Kind(v) ==
    CASE v \in Decided -> "decided"
      [] v = "replay detected" -> "replay"
      [] v = "signature expired" -> "expired"

AnswerOf(e) == [store |-> e.store, key |-> SeenKey(e.call.req), kind |-> Kind(e.verdict)]

\* The three variables of the contract, as Contract maps them.
Pending == {<<StoreOf[w], SeenKey(call[w].req)>> : w \in {x \in Workers : pc[x] = "sign"}}
Answers == [i \in DOMAIN log |-> AnswerOf(log[i])]

LEMMA Mapped == Contract!cvars = <<seen, Pending, Answers>>
  BY DEF Contract!cvars, Pending, Answers, AnswerOf, Kind

\* A key that a worker is about to add is new to the store, as no other worker
\* uses that store.
AddIsNew == \A w \in Workers : pc[w] = "add" => SeenKey(call[w].req) \notin seen[StoreOf[w]]

LEMMA AddStep ==
    ASSUME OneWorkerPerStore, TypeOK, AddIsNew, [Next]_vars
    PROVE  AddIsNew'
<1> USE ConstantsAssumption
<1>1. ASSUME \A w \in Workers : pc'[w] = "add" =>
                /\ pc[w] = "add" /\ call'[w] = call[w]
                /\ seen'[StoreOf[w]] = seen[StoreOf[w]]
      PROVE  AddIsNew'
  BY <1>1 DEF AddIsNew, SeenKey
<1>2. ASSUME NEW a \in Actors, Send(a)
      PROVE  AddIsNew'
  BY <1>1, <1>2 DEF Send
<1>3. CASE AdjustClock
  BY <1>1, <1>3 DEF AdjustClock
<1>4. ASSUME NEW w \in Workers, Begin(w)
      PROVE  AddIsNew'
  <2>1. PICK c \in Call :
          \/ Return(w, c, "signature expired")
          \/ /\ pc' = [pc EXCEPT ![w] = "check"]
             /\ call' = [call EXCEPT ![w] = c]
    BY <1>4, BeginCall
  <2>2. /\ pc'[w] \in {"idle", "check"}
        /\ \A x \in Workers : x # w => pc'[x] = pc[x] /\ call'[x] = call[x]
    BY <2>1 DEF Return, TypeOK
  <2> QED
    BY <1>1, <1>4, <2>2 DEF Begin
<1>5. ASSUME NEW w \in Workers, CheckSeen(w)
      PROVE  AddIsNew'
  <2>1. CASE SeenKey(call[w].req) \in seen[StoreOf[w]]
    <3>1. /\ pc'[w] = "idle"
          /\ \A x \in Workers : x # w => pc'[x] = pc[x] /\ call'[x] = call[x]
      BY <1>5, <2>1 DEF CheckSeen, Return, TypeOK
    <3> QED
      BY <1>1, <1>5, <3>1 DEF CheckSeen
  <2>2. CASE SeenKey(call[w].req) \notin seen[StoreOf[w]]
    <3>1. \A x \in Workers : x # w => pc'[x] = pc[x]
      BY <1>5, <2>2 DEF CheckSeen, TypeOK
    <3>2. call' = call /\ seen' = seen
      BY <1>5, <2>2 DEF CheckSeen
    <3> QED
      BY <2>2, <3>1, <3>2 DEF AddIsNew, SeenKey
  <2> QED
    BY <2>1, <2>2
<1>6. ASSUME NEW w \in Workers, AddSeen(w)
      PROVE  AddIsNew'
  <2>1. /\ pc'[w] = "sign" /\ call' = call
        /\ \A x \in Workers : x # w => pc'[x] = pc[x]
    BY <1>6 DEF AddSeen, TypeOK
  <2>2. \A x \in Workers : x # w => StoreOf[x] # StoreOf[w] /\ StoreOf[x] \in Stores
    BY DEF OneWorkerPerStore
  <2>3. \A s \in Stores : s # StoreOf[w] => seen'[s] = seen[s]
    BY <1>6 DEF AddSeen, TypeOK
  <2> QED
    BY <1>1, <2>1, <2>2, <2>3
<1>7. ASSUME NEW w \in Workers, CheckSignature(w)
      PROVE  AddIsNew'
  <2>1. /\ pc'[w] = "idle"
        /\ \A x \in Workers : x # w => pc'[x] = pc[x] /\ call'[x] = call[x]
    BY <1>7 DEF CheckSignature, Return, TypeOK
  <2> QED
    BY <1>1, <1>7, <2>1 DEF CheckSignature
<1>8. ASSUME NEW s \in Stores, Restart(s)
      PROVE  AddIsNew'
  <2>1. \A w \in Workers : pc'[w] = "add" =>
            StoreOf[w] # s /\ pc[w] = "add" /\ call'[w] = call[w]
    BY <1>8 DEF Restart
  <2>2. \A w \in Workers : StoreOf[w] # s => seen'[StoreOf[w]] = seen[StoreOf[w]]
    BY <1>8 DEF Restart, TypeOK
  <2> QED
    BY <1>1, <2>1, <2>2
<1>9. CASE UNCHANGED vars
  BY <1>1, <1>9 DEF vars
<1> QED
  BY <1>2, <1>3, <1>4, <1>5, <1>6, <1>7, <1>8, <1>9 DEF Next

\* A return appends one answer of the contract.
LEMMA ReturnAnswers ==
    ASSUME TypeOK, TypeOK', NEW w \in Workers, NEW c \in Call, NEW v \in Verdicts,
           Return(w, c, v)
    PROVE  Answers' = Append(Answers, [store |-> StoreOf[w], key |-> SeenKey(c.req),
                                       kind |-> Kind(v)])
<1> DEFINE A == {AnswerOf(d) : d \in Verdict}
           e == [store |-> StoreOf[w], epoch |-> epoch[StoreOf[w]],
                 worker |-> w, call |-> c, verdict |-> v]
<1>1. log \in Seq(Verdict) /\ log' \in Seq(Verdict) /\ log' = Append(log, e) /\ e \in Verdict
  BY ConstantsAssumption DEF TypeOK, Return, Verdict
<1>2. AnswerOf(e) = [store |-> StoreOf[w], key |-> SeenKey(c.req), kind |-> Kind(v)]
  BY DEF AnswerOf
<1> HIDE DEF e
<1>3. /\ Len(log) \in Nat /\ Len(log') = Len(log) + 1 /\ log'[Len(log) + 1] = e
      /\ DOMAIN log = 1..Len(log) /\ DOMAIN log' = 1..(Len(log) + 1)
      /\ \A i \in 1..Len(log) : log'[i] = log[i]
  BY <1>1
<1>4. Answers' = [i \in 1..(Len(log) + 1) |-> AnswerOf(log'[i])]
  BY <1>3 DEF Answers, AnswerOf, SeenKey, Kind
<1>5. Answers = [i \in 1..Len(log) |-> AnswerOf(log[i])]
  BY <1>3 DEF Answers
<1>6. Answers \in Seq(A) /\ AnswerOf(e) \in A
  <2>1. \A i \in 1..Len(log) : AnswerOf(log[i]) \in A
    BY <1>1
  <2>2. AnswerOf(e) \in A
    BY <1>1
  <2> HIDE DEF A
  <2>3. Answers \in [1..Len(log) -> A]
    BY <1>5, <2>1
  <2> QED
    BY <1>3, <2>2, <2>3, SeqDef
<1>7. Answers' \in Seq(A)
  <2>1. \A i \in 1..(Len(log) + 1) : AnswerOf(log'[i]) \in A
    BY <1>1, <1>3
  <2> HIDE DEF A
  <2>2. Answers' \in [1..(Len(log) + 1) -> A] /\ Len(log) + 1 \in Nat
    BY <1>3, <1>4, <2>1
  <2> QED
    BY <2>2, SeqDef
<1> HIDE DEF A
<1>8. Len(Answers) = Len(log) /\ Len(Answers') = Len(log) + 1
  BY <1>3, <1>4, <1>5
<1> DEFINE B == Append(Answers, AnswerOf(e))
<1>9. /\ B \in Seq(A) /\ Len(B) = Len(log) + 1 /\ B[Len(log) + 1] = AnswerOf(e)
      /\ \A i \in 1..Len(log) : B[i] = AnswerOf(log[i])
  BY <1>3, <1>5, <1>6, <1>8
<1> HIDE DEF B
<1>10. \A i \in 1..Len(B) : Answers'[i] = B[i]
  <2> SUFFICES ASSUME NEW i \in 1..Len(B) PROVE Answers'[i] = B[i]
    OBVIOUS
  <2>1. Answers'[i] = AnswerOf(log'[i])
    BY <1>4, <1>9
  <2>2. i \in 1..Len(log) \/ i = Len(log) + 1
    BY <1>3, <1>9
  <2> QED
    BY <1>3, <1>9, <2>1, <2>2
<1>11. Answers' = B
  BY <1>7, <1>8, <1>9, <1>10, SeqEqual
<1> QED
  BY <1>2, <1>11 DEF B

\* A step that only moves workers that are not about to check a signature is
\* none of the contract's.
LEMMA ContractStutter ==
    ASSUME UNCHANGED <<seen, log>>,
           \A w \in Workers : /\ pc'[w] = "sign" <=> pc[w] = "sign"
                              /\ pc[w] = "sign" => call'[w] = call[w]
    PROVE  UNCHANGED Contract!cvars
<1>1. Pending' = Pending
  BY DEF Pending, SeenKey
<1>2. Answers' = Answers
  BY DEF Answers, AnswerOf, SeenKey, Kind
<1> QED
  BY <1>1, <1>2, Mapped DEF Contract!cvars, Pending, Answers, AnswerOf, Kind

\* The actions of the contract, over the mapped variables.
LEMMA ContractActions ==
    ASSUME NEW s \in Stores, NEW k \in Keys
    PROVE  /\ /\ k \notin seen[s]
              /\ seen' = [seen EXCEPT ![s] = @ \cup {k}]
              /\ Pending' = Pending \cup {<<s, k>>}
              /\ Answers' = Answers
              => Contract!CNext
           /\ /\ <<s, k>> \in Pending
              /\ Pending' = Pending \ {<<s, k>>}
              /\ Answers' = Append(Answers, [store |-> s, key |-> k, kind |-> "decided"])
              /\ seen' = seen
              => Contract!CNext
           /\ /\ k \in seen[s]
              /\ Answers' = Append(Answers, [store |-> s, key |-> k, kind |-> "replay"])
              /\ seen' = seen /\ Pending' = Pending
              => Contract!CNext
           /\ /\ Answers' = Append(Answers, [store |-> s, key |-> k, kind |-> "expired"])
              /\ seen' = seen /\ Pending' = Pending
              => Contract!CNext
<1> USE DEF Pending, Answers, AnswerOf, Kind
<1>1. Contract!Grant(s, k) <=>
          /\ k \notin seen[s]
          /\ seen' = [seen EXCEPT ![s] = @ \cup {k}]
          /\ Pending' = Pending \cup {<<s, k>>}
          /\ Answers' = Answers
  BY DEF Contract!Grant
<1>2. Contract!Decide(s, k) <=>
          /\ <<s, k>> \in Pending
          /\ Pending' = Pending \ {<<s, k>>}
          /\ Answers' = Append(Answers, [store |-> s, key |-> k, kind |-> "decided"])
          /\ seen' = seen
  BY DEF Contract!Decide, Contract!Reply
<1>3. Contract!RefuseReplay(s, k) <=>
          /\ k \in seen[s]
          /\ Answers' = Append(Answers, [store |-> s, key |-> k, kind |-> "replay"])
          /\ seen' = seen /\ Pending' = Pending
  BY DEF Contract!RefuseReplay, Contract!Reply
<1>4. Contract!RefuseExpired(s, k) <=>
          /\ Answers' = Append(Answers, [store |-> s, key |-> k, kind |-> "expired"])
          /\ seen' = seen /\ Pending' = Pending
  BY DEF Contract!RefuseExpired, Contract!Reply
<1> QED
  BY <1>1, <1>2, <1>3, <1>4 DEF Contract!CNext

LEMMA ContractStep ==
    ASSUME OneWorkerPerStore, TypeOK, TypeOK', AddIsNew, [Next]_vars
    PROVE  [Contract!CNext]_(Contract!cvars)
<1> USE ConstantsAssumption
<1>1. ASSUME NEW a \in Actors, Send(a)
      PROVE  UNCHANGED Contract!cvars
  BY <1>1, ContractStutter DEF Send
<1>2. CASE AdjustClock
  BY <1>2, ContractStutter DEF AdjustClock
<1>3. ASSUME NEW w \in Workers, NEW c \in Call, NEW v \in Verdicts, Return(w, c, v),
             v \notin Decided, pc[w] # "sign", seen' = seen,
             v = "replay detected" => SeenKey(c.req) \in seen[StoreOf[w]]
      PROVE  Contract!CNext
  <2>1. StoreOf[w] \in Stores /\ SeenKey(c.req) \in Keys
    BY SeenKeyType DEF Call
  <2>2. Answers' = Append(Answers, [store |-> StoreOf[w], key |-> SeenKey(c.req),
                                    kind |-> Kind(v)])
    BY <1>3, ReturnAnswers
  <2>3. Pending' = Pending
    <3>1. \A x \in Workers : /\ pc'[x] = "sign" <=> pc[x] = "sign"
                             /\ pc[x] = "sign" => call'[x] = call[x]
      BY <1>3 DEF Return, TypeOK
    <3> QED
      BY <3>1 DEF Pending, SeenKey
  <2>4. CASE v = "replay detected"
    <3>1. Kind(v) = "replay"
      BY <1>3, <2>4 DEF Kind
    <3> QED
      BY <1>3, <2>1, <2>2, <2>3, <2>4, <3>1, ContractActions
  <2>5. CASE v = "signature expired"
    <3>1. Kind(v) = "expired"
      BY <1>3, <2>5 DEF Kind, Decided
    <3> QED
      BY <1>3, <2>1, <2>2, <2>3, <2>5, <3>1, ContractActions
  <2> QED
    BY <1>3, <2>4, <2>5 DEF Verdicts
<1>4. ASSUME NEW w \in Workers, Begin(w)
      PROVE  [Contract!CNext]_(Contract!cvars)
  <2>1. PICK c \in Call :
          \/ Return(w, c, "signature expired")
          \/ /\ pc' = [pc EXCEPT ![w] = "check"]
             /\ call' = [call EXCEPT ![w] = c]
             /\ UNCHANGED log
    BY <1>4, BeginCall
  <2>2. pc[w] = "idle" /\ seen' = seen
    BY <1>4 DEF Begin
  <2>3. CASE Return(w, c, "signature expired")
    <3>1. "signature expired" \in Verdicts \ Decided
      BY DEF Verdicts, Decided
    <3> QED
      BY <1>3, <2>2, <2>3, <3>1
  <2>4. CASE /\ pc' = [pc EXCEPT ![w] = "check"]
             /\ call' = [call EXCEPT ![w] = c]
             /\ UNCHANGED log
    <3>1. \A x \in Workers : /\ pc'[x] = "sign" <=> pc[x] = "sign"
                             /\ pc[x] = "sign" => call'[x] = call[x]
      BY <2>2, <2>4 DEF TypeOK
    <3> QED
      BY <2>2, <2>4, <3>1, ContractStutter
  <2> QED
    BY <2>1, <2>3, <2>4
<1>5. ASSUME NEW w \in Workers, CheckSeen(w)
      PROVE  [Contract!CNext]_(Contract!cvars)
  <2>1. pc[w] = "check" /\ seen' = seen /\ call[w] \in Call
    BY <1>5 DEF CheckSeen, TypeOK, InFlight
  <2>2. CASE SeenKey(call[w].req) \in seen[StoreOf[w]]
    <3>1. Return(w, call[w], "replay detected") /\ "replay detected" \in Verdicts \ Decided
      BY <1>5, <2>2 DEF CheckSeen, Verdicts, Decided
    <3> QED
      BY <1>3, <2>1, <2>2, <3>1
  <2>3. CASE SeenKey(call[w].req) \notin seen[StoreOf[w]]
    <3>1. pc' = [pc EXCEPT ![w] = "add"] /\ UNCHANGED <<call, log>>
      BY <1>5, <2>3 DEF CheckSeen
    <3>2. \A x \in Workers : pc'[x] = "sign" <=> pc[x] = "sign"
      BY <2>1, <3>1 DEF TypeOK
    <3> QED
      BY <2>1, <3>1, <3>2, ContractStutter
  <2> QED
    BY <2>2, <2>3
<1>6. ASSUME NEW w \in Workers, AddSeen(w)
      PROVE  Contract!CNext
  <2> DEFINE s == StoreOf[w]
             k == SeenKey(call[w].req)
  <2>1. /\ pc[w] = "add" /\ pc' = [pc EXCEPT ![w] = "sign"]
        /\ seen' = [seen EXCEPT ![s] = @ \cup {k}]
        /\ UNCHANGED <<call, log>>
    BY <1>6 DEF AddSeen
  <2>2. s \in Stores /\ k \in Keys
    <3>1. call[w] \in Call
      BY <2>1 DEF TypeOK, InFlight
    <3> QED
      BY <3>1, SeenKeyType DEF Call
  <2>3. k \notin seen[s]
    BY <2>1 DEF AddIsNew
  <2>4. Pending' = Pending \cup {<<s, k>>}
    <3>1. \A x \in Workers : pc'[x] = "sign" <=> (pc[x] = "sign" \/ x = w)
      BY <2>1 DEF TypeOK
    <3>2. Pending' = {<<StoreOf[x], SeenKey(call[x].req)>> : x \in {y \in Workers : pc'[y] = "sign"}}
      BY <2>1 DEF Pending, SeenKey
    <3> QED
      BY <3>1, <3>2 DEF Pending
  <2>5. Answers' = Answers
    BY <2>1 DEF Answers, AnswerOf, SeenKey, Kind
  <2> HIDE DEF s, k
  <2> QED
    BY <2>1, <2>2, <2>3, <2>4, <2>5, ContractActions
<1>7. ASSUME NEW w \in Workers, CheckSignature(w)
      PROVE  Contract!CNext
  <2> DEFINE s == StoreOf[w]
             k == SeenKey(call[w].req)
  <2>1. pc[w] = "sign" /\ seen' = seen /\ call[w] \in Call
    BY <1>7 DEF CheckSignature, TypeOK, InFlight
  <2>2. PICK v \in SignatureVerdicts(call[w]) : Return(w, call[w], v)
    BY <1>7 DEF CheckSignature
  <2>3. v \in Verdicts /\ Kind(v) = "decided"
    <3>1. v \in Decided
      BY <2>1, SignatureVerdictsType
    <3>2. v # "replay detected" /\ v # "signature expired"
      BY <3>1 DEF Decided
    <3> QED
      BY <3>1, <3>2 DEF Verdicts, Kind
  <2>4. s \in Stores /\ k \in Keys
    BY <2>1, SeenKeyType DEF Call
  <2>5. Answers' = Append(Answers, [store |-> s, key |-> k, kind |-> "decided"])
    BY <2>1, <2>2, <2>3, ReturnAnswers
  <2>6. <<s, k>> \in Pending
    BY <2>1 DEF Pending
  <2>7. Pending' = Pending \ {<<s, k>>}
    <3>1. \A x \in Workers : /\ pc'[x] = "sign" <=> (pc[x] = "sign" /\ x # w)
                             /\ x # w => call'[x] = call[x] /\ StoreOf[x] # s
      BY <2>2 DEF Return, TypeOK, OneWorkerPerStore
    <3>2. Pending' = {<<StoreOf[x], SeenKey(call'[x].req)>> : x \in {y \in Workers : pc'[y] = "sign"}}
      BY DEF Pending, SeenKey
    <3>3. Pending' \subseteq Pending \ {<<s, k>>}
      BY <3>1, <3>2 DEF Pending
    <3>4. Pending \ {<<s, k>>} \subseteq Pending'
      BY <3>1, <3>2 DEF Pending
    <3> QED
      BY <3>3, <3>4
  <2> HIDE DEF s, k
  <2> QED
    BY <2>1, <2>4, <2>5, <2>6, <2>7, ContractActions
<1>8. ASSUME NEW s \in Stores, Restart(s)
      PROVE  Contract!CNext
  <2>1. seen' = [seen EXCEPT ![s] = {}] /\ UNCHANGED log
    BY <1>8 DEF Restart
  <2>2. \A x \in Workers : /\ pc'[x] = "sign" <=> (pc[x] = "sign" /\ StoreOf[x] # s)
                           /\ StoreOf[x] # s => call'[x] = call[x]
    BY <1>8 DEF Restart
  <2>3. Pending' = {p \in Pending : p[1] # s}
    <3>1. Pending' = {<<StoreOf[x], SeenKey(call'[x].req)>> : x \in {y \in Workers : pc'[y] = "sign"}}
      BY DEF Pending, SeenKey
    <3>2. Pending' \subseteq {p \in Pending : p[1] # s}
      BY <2>2, <3>1 DEF Pending
    <3>3. {p \in Pending : p[1] # s} \subseteq Pending'
      BY <2>2, <3>1 DEF Pending
    <3> QED
      BY <3>2, <3>3
  <2>4. Answers' = Answers
    BY <2>1 DEF Answers, AnswerOf, SeenKey, Kind
  <2>5. Contract!Forget(s)
    BY <2>1, <2>3, <2>4 DEF Contract!Forget, Pending, Answers, AnswerOf, Kind
  <2> QED
    BY <2>5 DEF Contract!CNext
<1>9. CASE UNCHANGED vars
  BY <1>9, ContractStutter DEF vars
<1> QED
  BY <1>1, <1>2, <1>4, <1>5, <1>6, <1>7, <1>8, <1>9 DEF Next

\* With one worker per store, every behaviour of the verifier is one of the
\* contract's: what mark_seen does in two steps acts as one grant per key and
\* life of the store, and each grant is decided at most once.
THEOREM VerifierKeepsContract == OneWorkerPerStore => (Spec => ImplementsContract)
<1> SUFFICES ASSUME OneWorkerPerStore PROVE Spec => ImplementsContract
  OBVIOUS
<1>1. Init => Contract!CInit /\ AddIsNew
  <2> SUFFICES ASSUME Init PROVE Contract!CInit /\ AddIsNew
    OBVIOUS
  <2>1. /\ seen = [s \in Stores |-> {}] /\ log = <<>>
        /\ \A w \in Workers : pc[w] = "idle"
    BY DEF Init
  <2>2. Pending = {}
    BY <2>1 DEF Pending
  <2>3. Answers = <<>>
    <3>1. DOMAIN log = {}
      BY <2>1
    <3> QED
      BY <3>1 DEF Answers
  <2>4. AddIsNew
    BY <2>1 DEF AddIsNew
  <2> QED
    BY <2>1, <2>2, <2>3, <2>4 DEF Contract!CInit, Pending, Answers, AnswerOf, Kind
<1>2. Spec => []AddIsNew
  BY <1>1, AddStep, TypeCorrect, PTL DEF Spec
<1>3. TypeOK /\ TypeOK' /\ AddIsNew /\ [Next]_vars => [Contract!CNext]_(Contract!cvars)
  BY ContractStep
<1> QED
  BY <1>1, <1>2, <1>3, TypeCorrect, PTL DEF Spec, ImplementsContract, Contract!CSpec

=============================================================================
