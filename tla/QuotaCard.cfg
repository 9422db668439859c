SPECIFICATION FairSpec
CONSTANTS
    Accounts = {a1}
    Runs = {r1, r2}
    None = None
    Resets = 2
    MaxClock = 3
INVARIANTS OneResetAtATime SettledIsFresh RequestsHaveCards
PROPERTIES ConfirmedIsShown ResetSettles FirstLoadEnds
