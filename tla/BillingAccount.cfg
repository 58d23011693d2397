\* Ticks that are up to two minutes late; completions around the points where a
\* price is rounded up, of every rate in the list, in three spellings of
\* the model and one that is none.
SPECIFICATION BillSpec
CONSTANTS
    Rates = {0, 1, 999}
    MaxGap = 3
    MaxMinutes = 9
    Clients = {"catalog", "repository", "mirror", "sloppy"}
    Models = {"kimi-k3", "k3-coder", "qwen-7b"}
    Spelling <- MCSpelling
    Prompts = {0, 2500, 24999}
    Completions = {0, 499, 8333}
    MaxRequests = 2
    Machines <- MCMachines
    PriceLists <- MCPriceLists
    MaxRentals = 2
    MaxHours = 2
INVARIANTS
    DriftBounded
    NeverUnderbilled
    NeverOverbilled
    SpellingsBillTheSame
    SpellingsRentTheSame
CHECK_DEADLOCK FALSE
