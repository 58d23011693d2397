------------------------------ MODULE GpuRates ------------------------------
(***************************************************************************)
(* GPU rentals: rate_for_gpu and canonical_vram_gb, looked up by whatever  *)
(* spelling of its GPU a machine reports, and the rental's rate, which the *)
(* control plane locks when it places the rental, so that a new price list *)
(* does not touch it.  Every machine is rented the same hours.             *)
(*                                                                         *)
(* A spelling is the sequence of its words and separators.                 *)
(***************************************************************************)
EXTENDS Integers, Sequences, SequencesExt

CONSTANTS
    Machines,    \* reported GPU -> VRAM it reports, in GB
    PriceLists,  \* price lists of one deployment of the services after another
    MaxRentals, MaxHours   \* bounds

\* Words in either case, and what stands between them.
Words == {"rtx", "RTX", "Rtx", "4090", "5090", "a4000", "NVIDIA", "nvidia"}
Separators == {"-", "_", " "}

\* The cards of the price list.
CARDS == {<<"rtx", "4090">>, <<"rtx", "5090">>}

LEGACY_FALLBACK_CENTS_PER_HOUR == 10

\* A listed card costs more than the fallback, in every price list.
GpuAssumption ==
    /\ DOMAIN Machines \subseteq Seq(Words \cup Separators)
    /\ PriceLists # <<>> /\ \A l \in ToSet(PriceLists) : l \in [CARDS -> Nat]
    /\ \A l \in ToSet(PriceLists) : \A c \in CARDS : l[c] > LEGACY_FALLBACK_CENTS_PER_HOUR

ASSUME GpuAssumption

VARIABLES
    list,      \* the price list in force
    locked,    \* placements: machine -> rate (hourly_rate_cents) and VRAM known of it
    hours,     \* history: hours billed, over all placements
    rent       \* cents, per machine

rental_vars == <<list, locked, hours, rent>>

-----------------------------------------------------------------------------

GPU_RATE_CENTS_PER_HOUR == PriceLists[list]

GPU_VRAM_GB == [c \in CARDS |-> IF c = <<"rtx", "4090">> THEN 24 ELSE 32]

Lower(w) == CASE w \in {"RTX", "Rtx"} -> "rtx" [] w = "NVIDIA" -> "nvidia" [] OTHER -> w

\* Fault: blanks are not among the separators.
NoBlanks(raw) ==
    LET Add(key, w) == IF w \in {"-", "_"} THEN key ELSE Append(key, Lower(w))
    IN FoldLeft(Add, <<>>, raw)

\* The letters and digits, in lower case.
_normalize_gpu_model(raw) ==
    LET Add(key, w) == IF w \in Separators THEN key ELSE Append(key, Lower(w))
    IN FoldLeft(Add, <<>>, raw)

\* The empty string is no model, and nothing is looked up for it.
rate_for_gpu(m) ==
    LET key == _normalize_gpu_model(m)
    IN IF m # <<>> /\ key \in CARDS THEN GPU_RATE_CENTS_PER_HOUR[key]
       ELSE LEGACY_FALLBACK_CENTS_PER_HOUR

canonical_vram_gb(m, reported) ==
    LET key == _normalize_gpu_model(m)
    IN IF m # <<>> /\ key \in CARDS THEN GPU_VRAM_GB[key] ELSE reported

-----------------------------------------------------------------------------

RentalInit ==
    /\ list = 1 /\ locked = <<>> /\ hours = 0
    /\ rent = [m \in DOMAIN Machines |-> 0]

\* Every machine is rented once more, at the rate of the day.
Place ==
    /\ Len(locked) < MaxRentals
    /\ locked' = Append(locked, [m \in DOMAIN Machines |->
           [rate |-> rate_for_gpu(m), vram |-> canonical_vram_gb(m, Machines[m])]])
    /\ UNCHANGED <<list, hours, rent>>

\* An hour is billed (external): each rental at its locked rate.
Hour ==
    /\ hours < MaxHours /\ locked # <<>>
    /\ hours' = hours + Len(locked)
    /\ rent' = [m \in DOMAIN Machines |->
           FoldLeft(LAMBDA sum, r : sum + r[m].rate, rent[m], locked)]
    /\ UNCHANGED <<list, locked>>

\* The constants are changed and the services deployed again.
Redeploy ==
    /\ list < Len(PriceLists)
    /\ list' = list + 1
    /\ UNCHANGED <<locked, hours, rent>>

RentalNext == Place \/ Hour \/ Redeploy

RentalSpec == RentalInit /\ [][RentalNext]_rental_vars

-----------------------------------------------------------------------------
\* Properties.

\* The spelling has the two words of a card, in any case and with or without
\* separators anywhere, and no more (a driver puts the vendor first).
Spells(m, number) ==
    \E i, j \in DOMAIN m :
        /\ i < j /\ m[i] \in {"rtx", "RTX", "Rtx"} /\ m[j] = number
        /\ \A k \in DOMAIN m \ {i, j} : m[k] \in Separators

\* The card a spelling says, "" for none.
Says(m) ==
    CASE Spells(m, "4090") -> "4090" [] Spells(m, "5090") -> "5090" [] OTHER -> ""

\* Machines with one card owe the same rent and are offered with the same
\* VRAM, however their operators spell the card and whatever VRAM they report,
\* placed before or after a change of prices; and no spelling of a listed card
\* is rented at the legacy rate, which all others pay, under any price list.
SpellingsRentTheSame ==
    /\ \A m, n \in DOMAIN Machines : Says(m) = Says(n) =>
          /\ rent[m] = rent[n]
          /\ Says(m) # "" => \A r \in ToSet(locked) : r[m].vram = r[n].vram
    /\ \A m \in DOMAIN Machines :
          IF Says(m) = "" THEN rent[m] = LEGACY_FALLBACK_CENTS_PER_HOUR * hours
          ELSE rent[m] > LEGACY_FALLBACK_CENTS_PER_HOUR * hours \/ hours = 0

=============================================================================
