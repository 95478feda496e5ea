\* The beat and one pull-up side by side, listings of up to three pages.
SPECIFICATION FairSpec
CONSTANTS
    Size = 4
    Parent <- MCParent
    Folders <- MCFolders
    Users = {ann}
    NoUser = NoUser
    NoEtag = NoEtag
    Unchanged = Unchanged
    Beats = {beat}
    PullUps = {pullUp}
    MaxChanges = 2
    MaxFailures = 1
    MaxSessions = 1
INVARIANTS
    ReconcileInv
PROPERTIES
    EventuallyCurrent
