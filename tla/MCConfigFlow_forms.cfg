SPECIFICATION Spec
CONSTANTS
    Terminals = {A, B}
    Hosts = {h1, h2}
    Secrets = {p, q}
    Entries = {e1, e2}
    Flows = {f, g}
    Nobody = Nobody
    NoEntry = NoEntry
    NoForm = NoForm
    MaxChanges = 2
SYMMETRY MCSymmetry
INVARIANTS OneEntryPerTerminal Proven
