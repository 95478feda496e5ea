\* An answer for one user, adopted after the sign-out.  With MaxChanges = 1, MaxSessions = 0 and
\* the invariant ConfirmedIsSame in its place: a 304 that confirms another listing.
SPECIFICATION Spec
CONSTANTS
    Size = 4
    Parent <- MCParent
    Folders <- MCFolders
    Users = {ann, bob}
    NoUser = NoUser
    NoEtag = NoEtag
    Unchanged = Unchanged
    Beats = {beat}
    PullUps = {pullUp}
    MaxChanges = 0
    MaxFailures = 0
    MaxSessions = 1
INVARIANT
    NoOldName
