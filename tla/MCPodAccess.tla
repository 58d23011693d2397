---------------------------- MODULE MCPodAccess -----------------------------
EXTENDS PodAccess, TLC

V(f, t, n, b, c, s) ==
    [fields |-> f, type |-> t, names |-> n, blob |-> b, comment |-> c, short |-> s]

\* Three good keys, one of them also with a comment; a blob that names
\* another type, a key too long; a type alone.
MCValues ==
    {V(2, "ssh-ed25519", "ssh-ed25519", 1, 0, TRUE),
     V(3, "ssh-ed25519", "ssh-ed25519", 1, 1, TRUE),
     V(2, "ssh-ed25519", "ssh-ed25519", 2, 0, TRUE),
     V(2, "ecdsa-sha2-nistp256", "ecdsa-sha2-nistp256", 3, 0, TRUE),
     V(2, "ssh-ed25519", "ecdsa-sha2-nistp256", 3, 0, TRUE),
     V(2, "ssh-ed25519", "ssh-ed25519", 6, 0, FALSE),
     V(1, "ssh-ed25519", "undecodable", 0, 0, TRUE)}

Alike == Permutations(Commands)
=============================================================================
