SPECIFICATION FairSpec
CONSTANTS
    Scopes = {1, 2}
    WindowOf <- MCWindowOf
    Fixed = {1}
    Quiet = {1}
    Plain = {}
    Tabs = {"models", "credentials"}
    None = None
    MaxFailures = 1
    MaxJoined = 1
INVARIANT EarlierIsDimmed
