-------------------------- MODULE MCSignedRequests --------------------------
(***************************************************************************)
(* Small instances of SignedRequests for TLC.                              *)
(***************************************************************************)
EXTENDS SignedRequests, TLC

CONSTANTS a1, a2, b1, b2, k1, k2, w1, w2, s1, n1, n2

\* All workers share one store: the threads of one process.
OneStore == [w \in Workers |-> CHOOSE s \in Stores : TRUE]

Config(mode, wallet, sec) == [auth_mode |-> mode, wallet |-> wallet, auth_secret |-> sec]

\* Every miner signs with the secret k1.
HmacClients == {[a \in Actors |-> Config("hmac", NoWallet, k1)]}

\* a1 signs with its own hotkey, with the hotkey of another, or, for want of a
\* wallet, with a secret that may be the wrong one; a2 shares the secret k1.
MixedClients ==
    {(a1 :> c @@ a2 :> Config("hmac", NoWallet, k1)) :
        c \in {Config("hotkey", a1, k1), Config("hotkey", a2, k1),
               Config("hotkey", NoWallet, k2)}}

BodySymmetry == Permutations(Bodies)

WorkerSymmetry == Permutations(Nonces) \cup Permutations(Workers)

=============================================================================
