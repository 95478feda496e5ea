------------------------------- MODULE Session -------------------------------
(***************************************************************************)
(* The session: one refresh token that rotates, and the tasks that use it. *)
(*                                                                         *)
(* Whoever signs in, renews or signs out holds the login lock; an order of *)
(* the server to sign out is carried out by the delivery channel without   *)
(* it. Refresh tokens are numbered in the order the server issues them; an *)
(* access token carries the number of the refresh token it came with.      *)
(*                                                                         *)
(* Left out: the enrolment and the approval of the device, which precede   *)
(* every session, what a sign-in shows on the screen, and an earlier       *)
(* sign-in whose token the server would still renew after the next one.    *)
(***************************************************************************)
EXTENDS Integers, FiniteSets

CONSTANTS
    Workers,    \* the tasks that need an access token
    User,       \* signs in and out
    Channel,    \* carries out the order to sign out
    NoOne,
    MaxTokens,  \* bound on the tokens issued
    MaxFaults,  \* bound on broken lines, failed revocations, jammed vaults and stores
    MaxOrders,
    MaxRestarts

Tasks == Workers \cup {User, Channel}
None == 0
Tokens == 1..MaxTokens

ASSUME SessionAssumption ==
    /\ User # Channel /\ {User, Channel} \cap Workers = {}
    /\ NoOne \notin Tasks
    /\ {MaxTokens, MaxFaults, MaxOrders, MaxRestarts} \subseteq Nat

VARIABLES
    (* on disk: the session row and the slot of the refresh token *)
    row, vault,
    (* in memory: the access token, and whether it lasts long enough *)
    access, fresh,
    (* the lock; where each task is, the token it redeems and the answer *)
    lock, at, hand, reply,
    (* the server: the token it would renew, those issued and rotated *)
    valid, issued, rotated,
    (* not in the code: rotated tokens redeemed again; tokens whose fate is *)
    (* unknown here, or that were dropped; those RefreshUncertain was said of *)
    reused, doubtful, uncertain,
    (* not in the code: signed out, with no sign-in since; an order to sign *)
    (* out while somebody held the lock *)
    out, overlapped,
    faults, orders, restarts

diskVars == <<row, vault>>
memoryVars == <<access, fresh>>
taskVars == <<lock, at, hand, reply>>
serverVars == <<valid, issued, rotated>>
tokenGhosts == <<reused, doubtful, uncertain>>
outGhosts == <<out, overlapped>>
boundVars == <<faults, orders, restarts>>
vars == <<diskVars, memoryVars, taskVars, serverVars, tokenGhosts, outGhosts, boundVars>>

TypeOK ==
    /\ row \in {"signed_out", "signed_in", "login_required"}
    /\ {vault, access, valid, issued} \subseteq Tokens \cup {None}
    /\ fresh \in BOOLEAN
    /\ lock \in Tasks \cup {NoOne}
    /\ at \in [Tasks -> {"idle", "waiting", "redeem", "answered", "unknown", "stored",
                         "adopted", "login", "revoke", "clear", "forget"}]
    /\ {hand, reply} \subseteq [Tasks -> Tokens \cup {None}]
    /\ rotated \cup reused \cup doubtful \cup uncertain \subseteq Tokens
    /\ {out, overlapped} \subseteq BOOLEAN
    /\ \A t \in Tasks \ {Channel} : at[t] \notin {"idle", "waiting"} <=> lock = t

Init ==
    /\ row = "signed_out" /\ vault = None
    /\ access = None /\ fresh = FALSE
    /\ lock = NoOne
    /\ at = [t \in Tasks |-> "idle"]
    /\ hand = [t \in Tasks |-> None] /\ reply = [t \in Tasks |-> None]
    /\ valid = None /\ issued = None /\ rotated = {}
    /\ reused = {} /\ doubtful = {} /\ uncertain = {}
    /\ out = FALSE /\ overlapped = FALSE
    /\ faults = 0 /\ orders = 0 /\ restarts = 0

-----------------------------------------------------------------------------
(* The lock *)

GoesTo(t, place) == at' = [at EXCEPT ![t] = place]

Drops(t) == hand' = [hand EXCEPT ![t] = None] /\ reply' = [reply EXCEPT ![t] = None]

\* Mutant: whatever came of it, a task tries again.
LeavesToRetry(t) ==
    GoesTo(t, IF t \in Workers THEN "waiting" ELSE "idle") /\ Drops(t) /\ lock' = NoOne

Leaves(t) == GoesTo(t, "idle") /\ Drops(t) /\ lock' = NoOne

\* Mutant: nobody waits for anybody.
FreeAlways == TRUE

Free == lock = NoOne

Takes(t, place) ==
    /\ Free
    /\ lock' = t
    /\ GoesTo(t, place)
    /\ overlapped' = (overlapped \/ at[Channel] # "idle")

CarriesLogin == row \in {"signed_in", "login_required"}
HasToken == fresh /\ access # None

\* Mutant: whatever was before, somebody has to sign in.
RowWhenStoppedAlways == "login_required"

\* session_stop: the row keeps a login it has.
RowWhenStopped == IF CarriesLogin THEN "login_required" ELSE "signed_out"

Stops(erase) ==
    /\ row' = RowWhenStopped
    /\ fresh' = FALSE
    /\ IF erase THEN vault' = None /\ access' = None ELSE UNCHANGED <<vault, access>>

\* ensure_for_token: without a login, or with a token that lasts, there is
\* nothing to wait for.
Ask(t) ==
    /\ at[t] = "idle"
    /\ CarriesLogin /\ ~HasToken
    /\ GoesTo(t, "waiting")
    /\ UNCHANGED <<diskVars, memoryVars, lock, hand, reply, serverVars, tokenGhosts, outGhosts,
                   boundVars>>

\* Under the lock, look again; then read the refresh token.
Redeems(t) == hand' = [hand EXCEPT ![t] = vault]

Enter(t) ==
    /\ at[t] = "waiting" /\ Free
    /\ \/ /\ HasToken
          /\ GoesTo(t, "idle")
          /\ UNCHANGED <<diskVars, memoryVars, lock, hand, overlapped>>
       \/ /\ ~HasToken /\ vault = None
          /\ GoesTo(t, "idle")
          /\ Stops(FALSE)
          /\ UNCHANGED <<lock, hand, overlapped>>
       \/ /\ ~HasToken /\ vault # None
          /\ Takes(t, "redeem")
          /\ Redeems(t)
          /\ UNCHANGED <<diskVars, memoryVars>>
    /\ UNCHANGED <<reply, serverVars, tokenGhosts, out, boundVars>>

\* sign_in: first renew quietly, otherwise ask the human.
SignIn ==
    /\ at[User] = "idle"
    /\ IF vault = None
       THEN Takes(User, "login") /\ UNCHANGED hand
       ELSE Takes(User, "redeem") /\ Redeems(User)
    /\ out' = FALSE
    /\ UNCHANGED <<diskVars, memoryVars, reply, serverVars, tokenGhosts, boundVars>>

-----------------------------------------------------------------------------
(* A renewal, or a sign-in *)

\* The server renews with the newest token only. One that was rotated already
\* revokes its whole family, which may be that of an earlier sign-in.
Redeem(t) ==
    /\ at[t] = "redeem"
    /\ GoesTo(t, "answered")
    /\ IF hand[t] = valid
       THEN /\ issued < MaxTokens
            /\ issued' = issued + 1 /\ valid' = issued + 1
            /\ rotated' = rotated \cup {hand[t]}
            /\ reply' = [reply EXCEPT ![t] = issued + 1]
            /\ UNCHANGED reused
       ELSE /\ reply' = [reply EXCEPT ![t] = None]
            /\ reused' = reused \cup ({hand[t]} \cap rotated)
            /\ valid' \in IF hand[t] \in rotated THEN {None, valid} ELSE {valid}
            /\ UNCHANGED <<issued, rotated>>
    /\ UNCHANGED <<diskVars, memoryVars, lock, hand, doubtful, uncertain, outGhosts, boundVars>>

\* The human decides, and the device flow issues tokens of a new family.
LoginDecided ==
    /\ at[User] = "login"
    /\ issued < MaxTokens
    /\ GoesTo(User, "answered")
    /\ issued' = issued + 1 /\ valid' = issued + 1
    /\ reply' = [reply EXCEPT ![User] = issued + 1]
    /\ UNCHANGED <<diskVars, memoryVars, lock, hand, rotated, tokenGhosts, outGhosts, boundVars>>

\* The request never left, the code expired or was rejected.
NothingHappened(t) ==
    /\ at[t] \in {"redeem", "login"}
    /\ Leaves(t)
    /\ UNCHANGED <<diskVars, memoryVars, serverVars, tokenGhosts, outGhosts, boundVars>>

\* The line breaks off, before or after the server took the token.
BreaksOff(t) ==
    /\ at[t] \in {"redeem", "answered"}
    /\ hand[t] # None
    /\ faults < MaxFaults
    /\ faults' = faults + 1
    /\ GoesTo(t, "unknown")
    /\ doubtful' = doubtful \cup {hand[t]}
    /\ uncertain' = uncertain \cup {hand[t]}
    /\ UNCHANGED <<diskVars, memoryVars, lock, hand, reply, serverVars, reused, outGhosts,
                   orders, restarts>>

\* A refresh that failed: whoever signs in goes on to ask the human.
StopsSession(t) ==
    /\ \/ at[t] = "answered" /\ reply[t] = None /\ Stops(TRUE)
       \/ at[t] = "unknown" /\ Stops(FALSE)
    /\ IF t = User THEN GoesTo(t, "login") /\ Drops(t) /\ UNCHANGED lock ELSE Leaves(t)
    /\ UNCHANGED <<serverVars, tokenGhosts, outGhosts, boundVars>>

\* Mutant: the rotated token stays in memory.
StoredNowhere(t) == vault

\* adopt_token: first the rotation into the vault ...
Stored(t) == reply[t]

Store(t) ==
    /\ at[t] = "answered" /\ reply[t] # None
    /\ GoesTo(t, "stored")
    /\ vault' = Stored(t)
    /\ UNCHANGED <<row, memoryVars, lock, hand, reply, serverVars, tokenGhosts, outGhosts,
                   boundVars>>

\* ... then the access token ...
TakeOver(t) ==
    /\ at[t] = "stored"
    /\ GoesTo(t, "adopted")
    /\ access' = reply[t] /\ fresh' = TRUE
    /\ UNCHANGED <<diskVars, lock, hand, reply, serverVars, tokenGhosts, outGhosts, boundVars>>

\* ... and the session row.
WriteRow(t) ==
    /\ at[t] = "adopted"
    /\ row' = "signed_in"
    /\ Leaves(t)
    /\ UNCHANGED <<vault, memoryVars, serverVars, tokenGhosts, outGhosts, boundVars>>

\* The vault, or the store, fails: the rest of the adoption does not happen.
AdoptionFails(t) ==
    /\ (at[t] = "answered" /\ reply[t] # None) \/ at[t] = "adopted"
    /\ faults < MaxFaults
    /\ faults' = faults + 1
    /\ Leaves(t)
    /\ doubtful' = IF at[t] = "answered" THEN doubtful \cup ({hand[t], reply[t]} \ {None})
                   ELSE doubtful
    /\ UNCHANGED <<diskVars, memoryVars, serverVars, reused, uncertain, outGhosts, orders,
                   restarts>>

-----------------------------------------------------------------------------
(* The sign-out *)

\* sign_out: the user's, under the lock.
SignOut ==
    /\ at[User] = "idle"
    /\ Takes(User, IF vault = None THEN "clear" ELSE "revoke")
    /\ UNCHANGED <<diskVars, memoryVars, hand, reply, serverVars, tokenGhosts, out, boundVars>>

Revoke ==
    /\ at[User] = "revoke"
    /\ GoesTo(User, "clear")
    /\ \/ /\ valid' \in IF vault = valid THEN {None} ELSE {None, valid}
          /\ UNCHANGED <<doubtful, faults>>
       \/ /\ faults < MaxFaults
          /\ faults' = faults + 1
          /\ doubtful' = doubtful \cup ({vault} \ {None})
          /\ UNCHANGED valid
    /\ UNCHANGED <<diskVars, memoryVars, lock, hand, reply, issued, rotated, reused, uncertain,
                   outGhosts, orders, restarts>>

\* SIGN_OUT: the server's, without the lock.
Order ==
    /\ at[Channel] = "idle"
    /\ orders < MaxOrders
    /\ orders' = orders + 1
    /\ GoesTo(Channel, "clear")
    /\ overlapped' = (overlapped \/ ~Free)
    /\ UNCHANGED <<diskVars, memoryVars, lock, hand, reply, serverVars, tokenGhosts, out, faults,
                   restarts>>

\* clear_after_sign_out: the row with the namespace ...
Clear(t) ==
    /\ at[t] = "clear"
    /\ GoesTo(t, "forget")
    /\ row' = "signed_out"
    /\ out' = (t = User \/ at[User] = "idle")
    /\ UNCHANGED <<vault, memoryVars, lock, hand, reply, serverVars, tokenGhosts, overlapped,
                   boundVars>>

\* ... then the secrets, in memory even when the vault is jammed.
Forget(t) ==
    /\ at[t] = "forget"
    /\ IF t = Channel THEN GoesTo(t, "idle") /\ UNCHANGED <<lock, hand, reply>> ELSE Leaves(t)
    /\ access' = None /\ fresh' = FALSE
    /\ doubtful' = doubtful \cup ({valid} \ {None})
    /\ \/ /\ vault' = None
          /\ UNCHANGED <<out, faults>>
       \/ /\ faults < MaxFaults
          /\ faults' = faults + 1
          /\ out' = FALSE
          /\ UNCHANGED vault
    /\ UNCHANGED <<row, serverVars, reused, uncertain, overlapped, orders, restarts>>

-----------------------------------------------------------------------------
(* Time, the server and the process *)

\* The token runs out, or a call is answered 401 (force_refresh).
Expires ==
    /\ fresh
    /\ fresh' = FALSE
    /\ UNCHANGED <<diskVars, access, taskVars, serverVars, tokenGhosts, outGhosts, boundVars>>

\* The server ends the session.
ServerRevokes ==
    /\ valid # None
    /\ valid' = None
    /\ UNCHANGED <<diskVars, memoryVars, taskVars, issued, rotated, tokenGhosts, outGhosts,
                   boundVars>>

\* Signed out, and nothing of it is left to do.
IsOut == out /\ \A t \in Tasks : at[t] # "forget"

\* Engine::stop cuts every task off; the access token lived in memory.
Restart ==
    /\ restarts < MaxRestarts
    /\ restarts' = restarts + 1
    /\ access' = None /\ fresh' = FALSE
    /\ lock' = NoOne
    /\ at' = [t \in Tasks |-> "idle"]
    /\ hand' = [t \in Tasks |-> None] /\ reply' = [t \in Tasks |-> None]
    /\ out' = IsOut
    /\ doubtful' = doubtful \cup
           UNION {{hand[t], reply[t]} \ {None} : t \in {u \in Tasks : at[u] = "answered"}}
    /\ UNCHANGED <<diskVars, serverVars, reused, uncertain, overlapped, faults, orders>>

-----------------------------------------------------------------------------
GoesOn(t) ==
    \/ Redeem(t) \/ NothingHappened(t) \/ StopsSession(t)
    \/ Store(t) \/ TakeOver(t) \/ WriteRow(t)
    \/ Clear(t) \/ Forget(t)
    \/ t = User /\ (LoginDecided \/ Revoke)

Next ==
    \/ \E t \in Workers : Ask(t) \/ Enter(t)
    \/ \E t \in Tasks : GoesOn(t) \/ BreaksOff(t) \/ AdoptionFails(t)
    \/ SignIn \/ SignOut \/ Order
    \/ Expires \/ ServerRevokes \/ Restart

Spec == Init /\ [][Next]_vars

\* Tasks run on, and the lock is handed on in the order of asking.
FairSpec ==
    /\ Spec
    /\ \A t \in Tasks : WF_vars(GoesOn(t))
    /\ \A t \in Workers : SF_vars(Enter(t))

-----------------------------------------------------------------------------
(* Properties *)

\* Under the lock, look again (ensure_for_token): no task redeems a token that
\* another has rotated, as long as the fate of every token is known here.
NoReuse == reused \subseteq doubtful

\* Rotation before use (adopt_token): the access token in memory is never
\* newer than the refresh token in the vault.
RotationBeforeUse == (~overlapped /\ access # None) => vault # None /\ access <= vault

\* The one token the server would still renew with lies in the vault whenever
\* nobody holds the lock, and no fault has made its fate unknown.
ValidIsKept ==
    (Free /\ ~overlapped /\ valid # None /\ doubtful = {}) => vault = valid

\* A sign-out stays one (clear_after_sign_out): whoever was waiting for the
\* lock brings neither the row nor a secret back.
SignedOutStaysOut ==
    (IsOut /\ ~overlapped) => row = "signed_out" /\ {vault, access} = {None}

\* Whoever waits for the lock is answered (ensure_for_token).
WaitersAreAnswered == \A t \in Workers : at[t] = "waiting" ~> at[t] = "idle"

\* "RefreshUncertain is never repeated": no token is redeemed after it.
UncertainIsNotRepeated == \A t \in Tasks : at[t] = "redeem" => hand[t] \notin uncertain

\* SIGN_OUT stays one, too: nobody is signed in until somebody signs in.
OrderedOutStaysOut == IsOut => row = "signed_out" /\ vault = None
=============================================================================
