-------------------------- MODULE MCBillingAccount --------------------------
(***************************************************************************)
(* Instances of BillingAccount, with token counts on both sides of the     *)
(* points where a price is rounded up, and machines that spell their GPUs  *)
(* as the docstrings of billing_rates.py do, as a driver does, or not at   *)
(* all, some with a VRAM that is not the card's.                           *)
(***************************************************************************)
EXTENDS BillingAccount, TLC

\* What a model is called in a repository, and by someone who shouts.
Titled == ("kimi-k3" :> "Kimi-K3") @@ ("k3-coder" :> "K3-Coder") @@ ("qwen-7b" :> "Qwen-7B")
Shouted == ("kimi-k3" :> "KIMI-K3") @@ ("k3-coder" :> "K3-CODER") @@ ("qwen-7b" :> "QWEN-7B")

\* The last client leaves a blank where it belongs to the name.
MCSpelling == [k \in Clients |-> [m \in Models |->
    CASE k = "catalog" -> <<m>>
      [] k = "repository" -> <<"moonshotai", "/", Titled[m]>>
      [] k = "mirror" -> <<" ", "hf", "/", "moonshotai", "/", Shouted[m], " ">>
      [] k = "sloppy" -> <<"moonshotai", "/", " ", m>>]]

MCMachines ==
    (<<"rtx", "4090">> :> 24) @@ (<<"RTX", " ", "4090">> :> 24) @@ (<<"Rtx", "_", "4090">> :> 16)
    @@ (<<"rtx", "-", "5090">> :> 24) @@ (<<"RTX", " ", "5090">> :> 32)
    @@ (<<"NVIDIA", " ", "RTX", " ", "4090">> :> 24) @@ (<<"4090", "-", "rtx">> :> 24)
    @@ (<<"a4000">> :> 16) @@ (<<>> :> 8)

MCPriceLists ==
    <<(<<"rtx", "4090">> :> 40) @@ (<<"rtx", "5090">> :> 70),
      (<<"rtx", "4090">> :> 35) @@ (<<"rtx", "5090">> :> 75)>>

=============================================================================
