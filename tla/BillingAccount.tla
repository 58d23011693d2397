--------------------------- MODULE BillingAccount ---------------------------
(***************************************************************************)
(* What accounts are charged: the metering loop for a saved pod            *)
(* (StorageMeter), the settlement of completions (InferencePricing) and    *)
(* the rent of GPUs (GpuRates), in any order.  They share the price list   *)
(* of billing_rates.py and nothing else.                                   *)
(***************************************************************************)
EXTENDS StorageMeter, InferencePricing, GpuRates

BillInit == Init /\ PricingInit /\ RentalInit

\* The loop ticks, the gateway settles a completion, or a rental goes on.
BillNext ==
    \/ Tick /\ UNCHANGED <<pricing_vars, rental_vars>>
    \/ PricingNext /\ UNCHANGED <<vars, rental_vars>>
    \/ RentalNext /\ UNCHANGED <<vars, pricing_vars>>

BillSpec == BillInit /\ [][BillNext]_<<vars, pricing_vars, rental_vars>>

=============================================================================
