-------------------------- MODULE InferencePricing --------------------------
(***************************************************************************)
(* The price of chat completions: inference_cost_cents, settled completion *)
(* by completion for clients that send the same completions but spell the  *)
(* model each in its own way.  A spelling is the sequence of its words,    *)
(* slashes and blanks.                                                     *)
(***************************************************************************)
EXTENDS Integers, Sequences, FiniteSetsExt

CONSTANTS
    Clients,
    Models,             \* catalog ids
    Spelling,           \* what each client sends for each model
    Prompts, Completions,   \* token counts of a request
    MaxRequests         \* bound: completions settled

\* Ids in the cases they are sent in, and owners.
Names == {"kimi-k3", "Kimi-K3", "KIMI-K3", "k3-coder", "K3-Coder", "K3-CODER",
          "qwen-7b", "Qwen-7B", "QWEN-7B", "moonshotai", "hf"}

Slash == "/"
Blank == " "

Pieces == Names \cup {Slash, Blank}

PricingAssumption ==
    /\ Prompts \subseteq Nat /\ Completions \subseteq Nat /\ MaxRequests \in Nat
    /\ Models \subseteq Names
    /\ Spelling \in [Clients -> [Models -> Seq(Pieces)]]

ASSUME PricingAssumption

VARIABLES
    requests,   \* completions settled so far
    owed,       \* cents, per client
    work        \* history: millionths of a cent the tokens come to

pricing_vars == <<requests, owed, work>>

INFERENCE_MIN_CHARGE_CENTS == 1

Million == 1000000

\* (input, output) cents per million tokens
DefaultRates == <<20, 60>>
MODEL_RATE_CENTS_PER_MTOK == [id \in {<<"kimi-k3">>, <<"k3-coder">>} |->
    IF id = <<"kimi-k3">> THEN <<200, 1000>> ELSE <<100, 500>>]

\* str.lower of a word
LowerCase(w) ==
    CASE w \in {"Kimi-K3", "KIMI-K3"} -> "kimi-k3"
      [] w \in {"K3-Coder", "K3-CODER"} -> "k3-coder"
      [] w \in {"Qwen-7B", "QWEN-7B"} -> "qwen-7b"
      [] OTHER -> w

\* str.strip
Trimmed(s) ==
    LET solid == {i \in 1..Len(s) : s[i] # Blank}
    IN IF solid = {} THEN <<>> ELSE SubSeq(s, Min(solid), Max(solid))

\* rsplit("/", 1)[-1]
LastPart(s) ==
    LET slashes == {i \in 1..Len(s) : s[i] = Slash}
    IN IF slashes = {} THEN s ELSE SubSeq(s, Max(slashes) + 1, Len(s))

\* Fault: the letter case is kept.
CaseKept(model) == LastPart(Trimmed(model))

_normalize_model_id(model) ==
    LastPart([i \in 1..Len(Trimmed(model)) |-> LowerCase(Trimmed(model)[i])])

rates_for_model(model) ==
    LET id == _normalize_model_id(model)
    IN IF id \in DOMAIN MODEL_RATE_CENTS_PER_MTOK THEN MODEL_RATE_CENTS_PER_MTOK[id]
       ELSE DefaultRates

Millionths(p, c, model) == p * rates_for_model(model)[1] + c * rates_for_model(model)[2]

\* Fault: the fraction is cut off.
CutOff(n) == n \div Million

\* `int(raw_cents + 0.5)`; the float has room for every count of tokens.
HalfUp(n) == (n + 500000) \div 1000000

\* Fault: the minimum is added.
MinimumOnTop(p, c, model) == HalfUp(Millionths(p, c, model)) + INFERENCE_MIN_CHARGE_CENTS

inference_cost_cents(p, c, model) ==
    LET rounded == HalfUp(Millionths(p, c, model))
    IN IF rounded >= INFERENCE_MIN_CHARGE_CENTS THEN rounded ELSE INFERENCE_MIN_CHARGE_CENTS

PricingInit ==
    /\ requests = 0 /\ work = 0
    /\ owed = [k \in Clients |-> 0]

\* The gateway settles one completion of every client.
Settle(p, c, m) ==
    /\ requests < MaxRequests
    /\ requests' = requests + 1
    /\ owed' = [k \in Clients |-> owed[k] + inference_cost_cents(p, c, Spelling[k][m])]
    /\ work' = work + Millionths(p, c, <<m>>)

PricingNext == \E p \in Prompts, c \in Completions, m \in Models : Settle(p, c, m)

PricingSpec == PricingInit /\ [][PricingNext]_pricing_vars

-----------------------------------------------------------------------------
\* Properties.

\* A spelling says a model: in any letter case, behind owners or not, with
\* blanks around it but none between a slash and the id.
SpellsModel(s, m) ==
    \E j \in 1..Len(s) :
        /\ LowerCase(s[j]) = LowerCase(m)
        /\ \A i \in (j + 1)..Len(s) : s[i] = Blank
        /\ (\A i \in 1..(j - 1) : s[i] = Blank) \/ (j > 1 /\ s[j - 1] = Slash)

\* The clients that say what they mean; others are billed for another model.
Spellers == {k \in Clients : \A m \in Models : SpellsModel(Spelling[k][m], m)}

\* However completions are cut up, rounding never costs the operator more than
\* half a cent per completion, and each completion brings the minimum.
NeverUnderbilled == \A k \in Spellers :
    /\ 2 * Million * owed[k] + Million * requests >= 2 * work
    /\ owed[k] >= INFERENCE_MIN_CHARGE_CENTS * requests

\* Nor does it cost the client more than a cent per completion.
NeverOverbilled == \A k \in Spellers :
    Million * owed[k] <= work + Million * requests

\* Clients that send the catalog id and clients that send the repository name,
\* in whatever letter case and with blanks around it, owe the same for the same
\* completions: no spelling falls through to the cheap default.
SpellingsBillTheSame == \A k, l \in Spellers : owed[k] = owed[l]

=============================================================================
