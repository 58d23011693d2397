-------------------------- MODULE VerifierContract --------------------------
(***************************************************************************)
(* What a request verifier with a replay store promises its caller: between *)
(* two losses of the store (Forget) a key is granted at most once, only a   *)
(* granted key gets a decision about its signature, each grant gets at most *)
(* one, and a refusal as a replay concerns a key that is held.              *)
(***************************************************************************)
EXTENDS Naturals, Sequences

CONSTANTS Stores, Keys

VARIABLES
    held,     \* per store: the keys granted since it was last empty
    pending,  \* <<store, key>> granted and not answered yet
    answers   \* what was answered, in order

cvars == <<held, pending, answers>>

Answer == [store : Stores, key : Keys, kind : {"decided", "replay", "expired"}]

CInit ==
    /\ held = [s \in Stores |-> {}]
    /\ pending = {}
    /\ answers = <<>>

Reply(s, k, kind) ==
    answers' = Append(answers, [store |-> s, key |-> k, kind |-> kind])

Grant(s, k) ==
    /\ k \notin held[s]
    /\ held' = [held EXCEPT ![s] = @ \cup {k}]
    /\ pending' = pending \cup {<<s, k>>}
    /\ UNCHANGED answers

Decide(s, k) ==
    /\ <<s, k>> \in pending
    /\ pending' = pending \ {<<s, k>>}
    /\ Reply(s, k, "decided")
    /\ UNCHANGED held

RefuseReplay(s, k) ==
    /\ k \in held[s]
    /\ Reply(s, k, "replay")
    /\ UNCHANGED <<held, pending>>

RefuseExpired(s, k) ==
    /\ Reply(s, k, "expired")
    /\ UNCHANGED <<held, pending>>

Forget(s) ==
    /\ held' = [held EXCEPT ![s] = {}]
    /\ pending' = {p \in pending : p[1] # s}
    /\ UNCHANGED answers

CNext ==
    \E s \in Stores :
        \/ Forget(s)
        \/ \E k \in Keys : \/ Grant(s, k) \/ Decide(s, k)
                           \/ RefuseReplay(s, k) \/ RefuseExpired(s, k)

CSpec == CInit /\ [][CNext]_cvars

=============================================================================
