---------------------------- MODULE SessionProofs ----------------------------
(***************************************************************************)
(* Session for any number of tasks, tokens, faults and stops.              *)
(***************************************************************************)
EXTENDS Session, TLAPS

Places == {"idle", "waiting", "redeem", "answered", "unknown", "stored", "adopted", "login",
           "revoke", "clear", "forget"}

\* TypeOK, taken apart.
DiskTypes ==
    /\ row \in {"signed_out", "signed_in", "login_required"}
    /\ vault \in Tokens \cup {None} /\ access \in Tokens \cup {None}
    /\ fresh \in BOOLEAN
TaskTypes ==
    /\ lock \in Tasks \cup {NoOne}
    /\ at \in [Tasks -> Places]
    /\ hand \in [Tasks -> Tokens \cup {None}] /\ reply \in [Tasks -> Tokens \cup {None}]
ServerTypes ==
    /\ valid \in Tokens \cup {None} /\ issued \in Tokens \cup {None}
    /\ rotated \subseteq Tokens
GhostTypes ==
    /\ reused \subseteq Tokens /\ doubtful \subseteq Tokens /\ uncertain \subseteq Tokens
    /\ out \in BOOLEAN /\ overlapped \in BOOLEAN
Types == DiskTypes /\ TaskTypes /\ ServerTypes /\ GhostTypes

\* The lock belongs to the task that is past it; the channel never takes it.
LockTrue ==
    /\ \A t \in Tasks \ {Channel} : at[t] \notin {"idle", "waiting"} <=> lock = t
    /\ at[Channel] \in {"idle", "clear", "forget"}
    /\ (lock # NoOne /\ at[Channel] # "idle") => overlapped

\* What was issued bounds everything; an answer that is not adopted yet is the
\* newest token.
NumbersTrue ==
    /\ valid <= issued /\ access <= issued
    /\ rotated \subseteq 1..issued
    /\ \A t \in Tasks :
           reply[t] # None =>
               /\ at[t] \in {"answered", "unknown", "stored", "adopted"}
               /\ reply[t] = issued /\ issued \notin rotated
               /\ valid \in {None, issued}

\* What a task is about to redeem, and what it has just stored.
HandTrue ==
    \A t \in Tasks :
        /\ at[t] = "redeem" =>
               /\ hand[t] # None
               /\ hand[t] \in rotated => hand[t] \in doubtful
               /\ ~overlapped => hand[t] = vault
        /\ at[t] = "stored" => reply[t] # None /\ (~overlapped => vault = reply[t])

\* A rotated token lies in the vault only until its successor is stored.
VaultTrue ==
    vault \in rotated =>
        vault \in doubtful \/ \E t \in Tasks : at[t] = "answered" /\ hand[t] = vault

\* After a sign-out nobody is left who could write.
OutTrue ==
    (out /\ ~overlapped) =>
        /\ row = "signed_out"
        /\ \A t \in Tasks : at[t] \in {"idle", "waiting", "clear", "forget"}
        /\ (\A t \in Tasks : at[t] # "forget") => vault = None /\ access = None

\* The token the server would renew lies in the vault or is about to; so a
\* token it refuses means that it would renew none.
ValidTrue ==
    (~overlapped /\ valid # None /\ doubtful = {}) =>
        /\ vault = valid \/ \E t \in Tasks : at[t] = "answered" /\ reply[t] = valid
        /\ \A t \in Tasks : at[t] = "answered" => reply[t] # None

SessionInv ==
    /\ Types
    /\ LockTrue /\ NumbersTrue /\ HandTrue /\ VaultTrue /\ NoReuse /\ RotationBeforeUse
    /\ OutTrue /\ ValidTrue

-----------------------------------------------------------------------------
USE DEF None, Tokens, Tasks, Places, GoesTo,
        diskVars, memoryVars, taskVars, serverVars, tokenGhosts, outGhosts, boundVars

\* Asking for the lock changes nothing but the place (ensure_for_token).
LEMMA AskKeeps ==
  ASSUME SessionInv, NEW t \in Workers, Ask(t)
  PROVE  SessionInv'
<1>1. Types'
  BY DEF SessionInv, Types, DiskTypes, TaskTypes, ServerTypes, GhostTypes, Ask
<1>2. /\ NumbersTrue' /\ HandTrue' /\ VaultTrue' /\ NoReuse'
      /\ RotationBeforeUse' /\ OutTrue' /\ ValidTrue'
  BY DEF SessionInv, NumbersTrue, HandTrue, VaultTrue, NoReuse, RotationBeforeUse,
     OutTrue, ValidTrue, Ask
<1>3. LockTrue'
  BY SessionAssumption DEF SessionInv, LockTrue, Ask
<1>. QED
  BY <1>1, <1>2, <1>3 DEF SessionInv

\* Under the lock a task redeems what lies in the vault (ensure_for_token).
LEMMA EnterKeeps ==
  ASSUME SessionInv, NEW t \in Workers, Enter(t)
  PROVE  SessionInv'
<1>1. Types'
  <2>1. DiskTypes'
    BY DEF SessionInv, Types, DiskTypes, Enter, Stops, RowWhenStopped
  <2>2. TaskTypes'
    BY DEF SessionInv, Types, DiskTypes, TaskTypes, Enter, Takes, Redeems
  <2>3. ServerTypes' /\ GhostTypes'
    BY DEF SessionInv, Types, ServerTypes, GhostTypes, Enter, Takes
  <2>. QED
    BY <2>1, <2>2, <2>3 DEF Types
<1>2. NoReuse'
  BY DEF SessionInv, NoReuse, Enter
<1>3. LockTrue'
  <2>1. t # Channel /\ t \in Tasks /\ NoOne \notin Tasks
    BY SessionAssumption
  <2>2. CASE lock' = t /\ at' = [at EXCEPT ![t] = "redeem"]
    BY <2>1, <2>2 DEF SessionInv, Types, TaskTypes, GhostTypes, LockTrue, Enter, Takes, Free
  <2>3. CASE UNCHANGED <<lock, overlapped>> /\ at' = [at EXCEPT ![t] = "idle"]
    BY <2>1, <2>3 DEF SessionInv, Types, TaskTypes, LockTrue, Enter, Free
  <2>. QED
    BY <2>2, <2>3 DEF Enter, Takes
<1>4. NumbersTrue'
  BY DEF SessionInv, Types, TaskTypes, NumbersTrue, Enter, Stops, Takes
<1>5. HandTrue'
  BY SessionAssumption DEF SessionInv, Types, TaskTypes, HandTrue, LockTrue,
     VaultTrue, Enter, Stops, Takes, Redeems, Free
<1>6. VaultTrue'
  BY DEF SessionInv, Types, TaskTypes, VaultTrue, Enter, Stops, Takes, Redeems
<1>7. RotationBeforeUse'
  BY DEF SessionInv, Types, GhostTypes, RotationBeforeUse, Enter, Stops, Takes
<1>8. OutTrue'
  <2>. SUFFICES ASSUME out, ~overlapped'
                PROVE  OutTrue'
    BY DEF OutTrue, Enter
  <2>1. ~overlapped /\ at[Channel] \in {"idle", "clear", "forget"}
    <3>1. overlapped' = overlapped \/ overlapped' = (overlapped \/ at[Channel] # "idle")
      BY DEF Enter, Takes
    <3>. QED
      BY <3>1 DEF SessionInv, LockTrue
  <2>2. \A u \in Tasks \ {Channel} : at[u] # "forget"
    BY SessionAssumption DEF SessionInv, LockTrue, Enter, Free
  <2>3. CASE vault = None
    BY <2>1, <2>2, <2>3, SessionAssumption
       DEF SessionInv, Types, TaskTypes, OutTrue, Enter, Stops, RowWhenStopped, CarriesLogin
  <2>4. CASE vault # None /\ HasToken
    BY <2>1, <2>4 DEF SessionInv, Types, TaskTypes, OutTrue, Enter
  <2>5. CASE vault # None /\ ~HasToken
    BY <2>1, <2>2, <2>5, SessionAssumption
       DEF SessionInv, Types, TaskTypes, OutTrue, Enter, Takes
  <2>. QED
    BY <2>3, <2>4, <2>5
<1>9. ValidTrue'
  BY DEF SessionInv, Types, TaskTypes, GhostTypes, ValidTrue, Enter, Stops, Takes
<1>. QED
  BY <1>1, <1>2, <1>3, <1>4, <1>5, <1>6, <1>7, <1>8, <1>9 DEF SessionInv

\* The user does the same (sign_in).
LEMMA SignInKeeps ==
  ASSUME SessionInv, SignIn
  PROVE  SessionInv'
<1>1. Types'
  <2>1. DiskTypes' /\ ServerTypes' /\ GhostTypes'
    BY DEF SessionInv, Types, DiskTypes, ServerTypes, GhostTypes, SignIn, Takes
  <2>2. TaskTypes'
    BY DEF SessionInv, Types, DiskTypes, TaskTypes, SignIn, Takes, Redeems
  <2>. QED
    BY <2>1, <2>2 DEF Types
<1>2. NoReuse' /\ OutTrue'
  BY DEF SessionInv, NoReuse, OutTrue, SignIn
<1>3. LockTrue'
  BY SessionAssumption
     DEF SessionInv, Types, TaskTypes, GhostTypes, LockTrue, SignIn, Takes, Free
<1>4. NumbersTrue'
  BY DEF SessionInv, Types, TaskTypes, NumbersTrue, SignIn, Takes
<1>5. HandTrue'
  BY SessionAssumption DEF SessionInv, Types, TaskTypes, HandTrue, LockTrue,
     VaultTrue, SignIn, Takes, Redeems, Free
<1>6. VaultTrue'
  BY DEF SessionInv, Types, TaskTypes, VaultTrue, SignIn, Takes, Redeems
<1>7. RotationBeforeUse'
  BY DEF SessionInv, Types, GhostTypes, RotationBeforeUse, SignIn, Takes
<1>8. ValidTrue'
  BY DEF SessionInv, Types, TaskTypes, GhostTypes, ValidTrue, SignIn, Takes
<1>. QED
  BY <1>1, <1>2, <1>3, <1>4, <1>5, <1>6, <1>7, <1>8 DEF SessionInv

\* The server rotates the newest token only.
LEMMA RedeemKeeps ==
  ASSUME SessionInv, NEW t \in Tasks, Redeem(t)
  PROVE  SessionInv'
<1>1. Types'
  <2>1. DiskTypes' /\ GhostTypes'
    <3>1. {hand[t]} \cap rotated \subseteq Tokens
      BY DEF SessionInv, Types, ServerTypes
    <3>. QED
      BY <3>1 DEF SessionInv, Types, DiskTypes, GhostTypes, Redeem
  <2>2. TaskTypes'
    BY SessionAssumption DEF SessionInv, Types, TaskTypes, ServerTypes, Redeem
  <2>3. ServerTypes'
    <3>1. CASE hand[t] = valid
      <4>1. hand[t] # None /\ hand[t] \in Tokens
        BY DEF SessionInv, HandTrue, Types, TaskTypes, Redeem
      <4>2. issued + 1 \in Tokens
        BY <3>1, SessionAssumption DEF SessionInv, Types, ServerTypes, Redeem
      <4>. QED
        BY <3>1, <4>1, <4>2 DEF SessionInv, Types, ServerTypes, Redeem
    <3>2. CASE hand[t] # valid
      BY <3>2 DEF SessionInv, Types, ServerTypes, Redeem
    <3>. QED
      BY <3>1, <3>2
  <2>. QED
    BY <2>1, <2>2, <2>3 DEF Types
<1>2. LockTrue' /\ RotationBeforeUse' /\ OutTrue'
  BY DEF SessionInv, LockTrue, RotationBeforeUse, OutTrue, Redeem
<1>3. NumbersTrue'
  <2>1. hand[t] # None /\ issued \in Nat /\ valid <= issued /\ access <= issued
        /\ rotated \subseteq 1..issued /\ valid \in Nat /\ access \in Nat
    BY SessionAssumption
       DEF SessionInv, HandTrue, NumbersTrue, Types, DiskTypes, ServerTypes, Redeem
  <2>2. /\ \A u \in Tasks \ {t} : reply[u] = None
        /\ reply \in [Tasks -> Nat] /\ at'[t] = "answered"
    BY SessionAssumption DEF SessionInv, Types, TaskTypes, LockTrue, NumbersTrue, Redeem
  <2>3. CASE hand[t] = valid
    <3>1. /\ issued' = issued + 1 /\ valid' = issued + 1 /\ access' = access
          /\ rotated' = rotated \cup {valid}
          /\ reply' = [reply EXCEPT ![t] = issued + 1]
      BY <2>3 DEF Redeem
    <3>2. rotated' \subseteq 1..issued' /\ issued' \notin rotated'
      BY <2>1, <2>3, <3>1
    <3>3. \A u \in Tasks : reply'[u] # None => u = t /\ reply'[u] = issued'
      BY <2>2, <3>1
    <3>. QED
      BY <2>1, <2>2, <3>1, <3>2, <3>3 DEF NumbersTrue
  <2>4. CASE hand[t] # valid
    <3>1. /\ issued' = issued /\ valid' \in {None, valid} /\ access' = access
          /\ rotated' = rotated
          /\ reply' = [reply EXCEPT ![t] = None]
      BY <2>4 DEF Redeem
    <3>2. \A u \in Tasks : reply'[u] = None
      BY <2>2, <3>1
    <3>. QED
      BY <2>1, <3>1, <3>2 DEF NumbersTrue
  <2>. QED
    BY <2>3, <2>4
<1>4. HandTrue'
  BY DEF SessionInv, Types, TaskTypes, HandTrue, LockTrue, Redeem
<1>5. VaultTrue'
  BY DEF SessionInv, Types, TaskTypes, VaultTrue, Redeem
<1>6. NoReuse'
  <2>1. {hand[t]} \cap rotated \subseteq doubtful
    BY DEF SessionInv, HandTrue, Redeem
  <2>. QED
    BY <2>1 DEF SessionInv, NoReuse, Redeem
<1>7. ValidTrue'
  BY DEF SessionInv, Types, TaskTypes, ValidTrue, LockTrue, HandTrue, Redeem
<1>. QED
  BY <1>1, <1>2, <1>3, <1>4, <1>5, <1>6, <1>7 DEF SessionInv

\* A sign-in issues a token of a new family (device_login).
LEMMA LoginDecidedKeeps ==
  ASSUME SessionInv, LoginDecided
  PROVE  SessionInv'
<1>1. Types'
  BY SessionAssumption DEF SessionInv, Types, DiskTypes, TaskTypes, ServerTypes,
     GhostTypes, LoginDecided
<1>2. /\ LockTrue' /\ HandTrue' /\ VaultTrue'
      /\ NoReuse' /\ RotationBeforeUse' /\ OutTrue'
  BY DEF SessionInv, LockTrue, HandTrue, VaultTrue, NoReuse, RotationBeforeUse,
     OutTrue, LoginDecided
<1>3. NumbersTrue'
  BY DEF SessionInv, Types, DiskTypes, TaskTypes, ServerTypes, NumbersTrue,
     LockTrue, LoginDecided
<1>4. ValidTrue'
  BY DEF SessionInv, Types, TaskTypes, ValidTrue, LockTrue, LoginDecided
<1>. QED
  BY <1>1, <1>2, <1>3, <1>4 DEF SessionInv

\* A request that never left changes nothing (refresh).
LEMMA NothingHappenedKeeps ==
  ASSUME SessionInv, NEW t \in Tasks, NothingHappened(t)
  PROVE  SessionInv'
<1>1. Types'
  BY DEF SessionInv, Types, DiskTypes, TaskTypes, ServerTypes, GhostTypes,
     NothingHappened, Leaves, Drops
<1>2. NoReuse' /\ RotationBeforeUse' /\ OutTrue'
  BY DEF SessionInv, NoReuse, RotationBeforeUse, OutTrue, NothingHappened
<1>3. LockTrue'
  BY SessionAssumption DEF SessionInv, Types, TaskTypes, LockTrue, NothingHappened,
     Leaves
<1>4. NumbersTrue'
  BY DEF SessionInv, NumbersTrue, NothingHappened, Leaves, Drops
<1>5. HandTrue'
  BY DEF SessionInv, Types, TaskTypes, HandTrue, NothingHappened, Leaves, Drops
<1>6. VaultTrue'
  BY DEF SessionInv, VaultTrue, NothingHappened, Leaves, Drops
<1>7. ValidTrue'
  BY DEF SessionInv, ValidTrue, NothingHappened, Leaves, Drops
<1>. QED
  BY <1>1, <1>2, <1>3, <1>4, <1>5, <1>6, <1>7 DEF SessionInv

\* Of a token whose answer is lost the fate is unknown (refresh_token).
LEMMA BreaksOffKeeps ==
  ASSUME SessionInv, NEW t \in Tasks, BreaksOff(t)
  PROVE  SessionInv'
<1>1. Types'
  <2>1. hand[t] \in Tokens
    BY DEF SessionInv, Types, TaskTypes, BreaksOff
  <2>2. GhostTypes'
    BY <2>1 DEF SessionInv, Types, GhostTypes, BreaksOff
  <2>3. DiskTypes' /\ TaskTypes' /\ ServerTypes'
    BY DEF SessionInv, Types, DiskTypes, TaskTypes, ServerTypes, BreaksOff
  <2>. QED
    BY <2>2, <2>3 DEF Types
<1>2. /\ LockTrue' /\ NumbersTrue' /\ HandTrue' /\ VaultTrue'
      /\ NoReuse' /\ RotationBeforeUse' /\ OutTrue'
  BY DEF SessionInv, LockTrue, NumbersTrue, HandTrue, VaultTrue, NoReuse,
     RotationBeforeUse, OutTrue, BreaksOff
<1>3. ValidTrue'
  BY DEF SessionInv, TaskTypes, ValidTrue, BreaksOff
<1>. QED
  BY <1>1, <1>2, <1>3 DEF SessionInv

\* A refused token is erased, one of unknown fate is kept (refresh).
LEMMA StopsSessionKeeps ==
  ASSUME SessionInv, NEW t \in Tasks, StopsSession(t)
  PROVE  SessionInv'
<1>1. Types'
  <2>1. DiskTypes'
    BY DEF SessionInv, Types, DiskTypes, StopsSession, Stops, RowWhenStopped
  <2>2. TaskTypes'
    BY DEF SessionInv, Types, TaskTypes, StopsSession, Stops, Drops, Leaves
  <2>3. ServerTypes' /\ GhostTypes'
    BY DEF SessionInv, Types, ServerTypes, GhostTypes, StopsSession
  <2>. QED
    BY <2>1, <2>2, <2>3 DEF Types
<1>2. NoReuse'
  BY DEF SessionInv, NoReuse, StopsSession
<1>3. LockTrue'
  BY SessionAssumption DEF SessionInv, Types, TaskTypes, LockTrue, StopsSession,
     Leaves, Stops
<1>4. NumbersTrue'
  BY DEF SessionInv, Types, TaskTypes, ServerTypes, NumbersTrue, StopsSession,
     Drops, Leaves, Stops
<1>5. HandTrue'
  BY DEF SessionInv, Types, TaskTypes, HandTrue, LockTrue, StopsSession, Leaves,
     Stops
<1>6. VaultTrue'
  BY DEF SessionInv, VaultTrue, LockTrue, NumbersTrue, StopsSession, Stops
<1>7. RotationBeforeUse'
  BY DEF SessionInv, RotationBeforeUse, StopsSession, Stops
<1>8. OutTrue'
  BY DEF SessionInv, OutTrue, StopsSession, Stops
<1>9. ValidTrue'
  <2>0. at[t] \in {"answered", "unknown"}
    BY DEF StopsSession
  <2>1. \A u \in Tasks \ {t} : at[u] # "answered"
    BY <2>0, SessionAssumption DEF SessionInv, Types, TaskTypes, LockTrue
  <2>2. CASE at[t] = "answered" /\ reply[t] = None
    BY <2>1, <2>2 DEF SessionInv, Types, TaskTypes, ValidTrue, StopsSession, Stops, Leaves
  <2>3. CASE at[t] = "unknown"
    BY <2>1, <2>3 DEF SessionInv, Types, TaskTypes, ValidTrue, StopsSession, Stops, Leaves
  <2>. QED
    BY <2>2, <2>3 DEF StopsSession
<1>. QED
  BY <1>1, <1>2, <1>3, <1>4, <1>5, <1>6, <1>7, <1>8, <1>9 DEF SessionInv

\* The rotation comes first (adopt_token).
LEMMA StoreKeeps ==
  ASSUME SessionInv, NEW t \in Tasks, Store(t)
  PROVE  SessionInv'
<1>1. Types'
  BY DEF SessionInv, Types, DiskTypes, TaskTypes, ServerTypes, GhostTypes, Store,
     Stored
<1>2. LockTrue' /\ NumbersTrue' /\ NoReuse' /\ OutTrue'
  BY DEF SessionInv, LockTrue, NumbersTrue, NoReuse, OutTrue, Store
<1>3. HandTrue'
  BY DEF SessionInv, HandTrue, LockTrue, Store, Stored
<1>4. VaultTrue'
  BY DEF SessionInv, VaultTrue, NumbersTrue, Store, Stored
<1>5. RotationBeforeUse'
  BY DEF SessionInv, RotationBeforeUse, NumbersTrue, Store, Stored
<1>6. ValidTrue'
  <2>1. \A u \in Tasks \ {t} : at[u] # "answered"
    BY SessionAssumption DEF SessionInv, Types, TaskTypes, LockTrue, Store
  <2>. QED
    BY <2>1 DEF SessionInv, NumbersTrue, ValidTrue, Store, Stored
<1>. QED
  BY <1>1, <1>2, <1>3, <1>4, <1>5, <1>6 DEF SessionInv

\* Then the access token (adopt_token).
LEMMA TakeOverKeeps ==
  ASSUME SessionInv, NEW t \in Tasks, TakeOver(t)
  PROVE  SessionInv'
<1>1. Types'
  BY DEF SessionInv, Types, DiskTypes, TaskTypes, ServerTypes, GhostTypes, TakeOver
<1>2. LockTrue' /\ HandTrue' /\ VaultTrue' /\ NoReuse' /\ OutTrue' /\ ValidTrue'
  BY DEF SessionInv, LockTrue, HandTrue, VaultTrue, NoReuse, OutTrue, ValidTrue,
     TakeOver
<1>3. NumbersTrue'
  BY DEF SessionInv, Types, ServerTypes, NumbersTrue, TakeOver
<1>4. RotationBeforeUse'
  BY DEF SessionInv, Types, ServerTypes, RotationBeforeUse, HandTrue, NumbersTrue,
     TakeOver
<1>. QED
  BY <1>1, <1>2, <1>3, <1>4 DEF SessionInv

\* Then the row (adopt_token).
LEMMA WriteRowKeeps ==
  ASSUME SessionInv, NEW t \in Tasks, WriteRow(t)
  PROVE  SessionInv'
<1>1. Types'
  BY DEF SessionInv, Types, DiskTypes, TaskTypes, ServerTypes, GhostTypes,
     WriteRow, Leaves, Drops
<1>2. NoReuse' /\ RotationBeforeUse' /\ OutTrue'
  BY DEF SessionInv, NoReuse, RotationBeforeUse, OutTrue, WriteRow
<1>3. LockTrue'
  BY SessionAssumption DEF SessionInv, Types, TaskTypes, LockTrue, WriteRow, Leaves
<1>4. NumbersTrue'
  BY DEF SessionInv, Types, TaskTypes, NumbersTrue, WriteRow, Leaves, Drops
<1>5. HandTrue'
  BY DEF SessionInv, HandTrue, WriteRow, Leaves, Drops
<1>6. VaultTrue'
  BY DEF SessionInv, VaultTrue, WriteRow, Leaves, Drops
<1>7. ValidTrue'
  BY DEF SessionInv, ValidTrue, WriteRow, Leaves, Drops
<1>. QED
  BY <1>1, <1>2, <1>3, <1>4, <1>5, <1>6, <1>7 DEF SessionInv

\* What is not stored is lost (adopt_token).
LEMMA AdoptionFailsKeeps ==
  ASSUME SessionInv, NEW t \in Tasks, AdoptionFails(t)
  PROVE  SessionInv'
<1>1. Types'
  BY SessionAssumption DEF SessionInv, Types, DiskTypes, TaskTypes, ServerTypes,
     GhostTypes, AdoptionFails, Leaves, Drops
<1>2. NoReuse' /\ RotationBeforeUse' /\ OutTrue'
  BY DEF SessionInv, NoReuse, RotationBeforeUse, OutTrue, AdoptionFails
<1>3. LockTrue'
  BY SessionAssumption DEF SessionInv, Types, TaskTypes, LockTrue, AdoptionFails,
     Leaves
<1>4. NumbersTrue'
  BY DEF SessionInv, Types, TaskTypes, NumbersTrue, AdoptionFails, Leaves, Drops
<1>5. HandTrue'
  BY DEF SessionInv, HandTrue, AdoptionFails, Leaves, Drops
<1>6. VaultTrue'
  BY DEF SessionInv, VaultTrue, NumbersTrue, AdoptionFails, Leaves, Drops
<1>7. ValidTrue'
  BY DEF SessionInv, ValidTrue, AdoptionFails, Leaves, Drops
<1>. QED
  BY <1>1, <1>2, <1>3, <1>4, <1>5, <1>6, <1>7 DEF SessionInv

\* The user signs out under the lock (sign_out).
LEMMA SignOutKeeps ==
  ASSUME SessionInv, SignOut
  PROVE  SessionInv'
<1>1. Types'
  BY DEF SessionInv, Types, DiskTypes, TaskTypes, ServerTypes, GhostTypes, SignOut,
     Takes
<1>2. NoReuse'
  BY DEF SessionInv, NoReuse, SignOut
<1>3. LockTrue'
  BY SessionAssumption
     DEF SessionInv, Types, TaskTypes, GhostTypes, LockTrue, SignOut, Takes, Free
<1>4. NumbersTrue'
  BY DEF SessionInv, NumbersTrue, SignOut, Takes
<1>5. HandTrue'
  BY DEF SessionInv, Types, GhostTypes, HandTrue, SignOut, Takes
<1>6. VaultTrue'
  BY DEF SessionInv, VaultTrue, SignOut, Takes
<1>7. RotationBeforeUse'
  BY DEF SessionInv, Types, GhostTypes, RotationBeforeUse, SignOut, Takes
<1>8. OutTrue'
  BY SessionAssumption
     DEF SessionInv, Types, TaskTypes, GhostTypes, OutTrue, LockTrue, SignOut, Takes, Free
<1>9. ValidTrue'
  BY DEF SessionInv, Types, GhostTypes, ValidTrue, SignOut, Takes
<1>. QED
  BY <1>1, <1>2, <1>3, <1>4, <1>5, <1>6, <1>7, <1>8, <1>9 DEF SessionInv

\* The server forgets the token, or does not hear of it (sign_out).
LEMMA RevokeKeeps ==
  ASSUME SessionInv, Revoke
  PROVE  SessionInv'
<1>1. Types'
  BY SessionAssumption DEF SessionInv, Types, DiskTypes, TaskTypes, ServerTypes,
     GhostTypes, Revoke
<1>2. /\ LockTrue' /\ HandTrue' /\ VaultTrue' /\ NoReuse'
      /\ RotationBeforeUse' /\ OutTrue' /\ ValidTrue'
  BY DEF SessionInv, LockTrue, HandTrue, VaultTrue, NoReuse, RotationBeforeUse,
     OutTrue, ValidTrue, Revoke
<1>3. NumbersTrue'
  BY DEF SessionInv, Types, ServerTypes, NumbersTrue, Revoke
<1>. QED
  BY <1>1, <1>2, <1>3 DEF SessionInv

\* The order is carried out without the lock (Command::SignOut).
LEMMA OrderKeeps ==
  ASSUME SessionInv, Order
  PROVE  SessionInv'
<1>1. Types'
  BY DEF SessionInv, Types, DiskTypes, TaskTypes, ServerTypes, GhostTypes, Order
<1>2. NumbersTrue' /\ VaultTrue' /\ NoReuse'
  BY DEF SessionInv, NumbersTrue, VaultTrue, NoReuse, Order
<1>3. LockTrue'
  BY SessionAssumption
     DEF SessionInv, Types, TaskTypes, GhostTypes, LockTrue, Order, Free
<1>4. HandTrue'
  BY DEF SessionInv, Types, GhostTypes, HandTrue, Order
<1>5. RotationBeforeUse'
  BY DEF SessionInv, Types, GhostTypes, RotationBeforeUse, Order
<1>6. OutTrue'
  BY DEF SessionInv, Types, GhostTypes, OutTrue, Order
<1>7. ValidTrue'
  BY DEF SessionInv, Types, GhostTypes, ValidTrue, Order
<1>. QED
  BY <1>1, <1>2, <1>3, <1>4, <1>5, <1>6, <1>7 DEF SessionInv

\* Signed out, nobody is left in a renewal (clear_after_sign_out).
LEMMA ClearKeeps ==
  ASSUME SessionInv, NEW t \in Tasks, Clear(t)
  PROVE  SessionInv'
<1>1. Types'
  BY DEF SessionInv, Types, DiskTypes, TaskTypes, ServerTypes, GhostTypes, Clear
<1>2. /\ LockTrue' /\ NumbersTrue' /\ HandTrue' /\ VaultTrue'
      /\ NoReuse' /\ RotationBeforeUse' /\ ValidTrue'
  BY DEF SessionInv, LockTrue, NumbersTrue, HandTrue, VaultTrue, NoReuse,
     RotationBeforeUse, ValidTrue, Clear
<1>3. OutTrue'
  BY SessionAssumption DEF SessionInv, Types, TaskTypes, OutTrue, LockTrue, Clear
<1>. QED
  BY <1>1, <1>2, <1>3 DEF SessionInv

\* Then the secrets go (forget_session).
LEMMA ForgetKeeps ==
  ASSUME SessionInv, NEW t \in Tasks, Forget(t)
  PROVE  SessionInv'
<1>1. Types'
  BY SessionAssumption DEF SessionInv, Types, DiskTypes, TaskTypes, ServerTypes,
     GhostTypes, Forget, Leaves, Drops
<1>2. NoReuse' /\ RotationBeforeUse' /\ ValidTrue'
  BY DEF SessionInv, NoReuse, RotationBeforeUse, ValidTrue, Forget
<1>3. LockTrue'
  BY SessionAssumption DEF SessionInv, Types, TaskTypes, LockTrue, Forget, Leaves
<1>4. NumbersTrue'
  BY DEF SessionInv, Types, TaskTypes, ServerTypes, NumbersTrue, Forget, Leaves,
     Drops
<1>5. HandTrue'
  BY SessionAssumption DEF SessionInv, Types, TaskTypes, HandTrue, LockTrue,
     Forget, Leaves
<1>6. VaultTrue'
  BY DEF SessionInv, Types, TaskTypes, VaultTrue, NumbersTrue, Forget, Leaves,
     Drops
<1>7. OutTrue'
  BY SessionAssumption
     DEF SessionInv, Types, TaskTypes, GhostTypes, OutTrue, LockTrue, Forget, Leaves
<1>. QED
  BY <1>1, <1>2, <1>3, <1>4, <1>5, <1>6, <1>7 DEF SessionInv

\* Time does not touch what matters (force_refresh).
LEMMA ExpiresKeeps ==
  ASSUME SessionInv, Expires
  PROVE  SessionInv'
<1>1. Types'
  BY DEF SessionInv, Types, DiskTypes, TaskTypes, ServerTypes, GhostTypes, Expires
<1>2. /\ LockTrue' /\ NumbersTrue' /\ HandTrue' /\ VaultTrue'
      /\ NoReuse' /\ RotationBeforeUse' /\ OutTrue' /\ ValidTrue'
  BY DEF SessionInv, LockTrue, NumbersTrue, HandTrue, VaultTrue, NoReuse,
     RotationBeforeUse, OutTrue, ValidTrue, Expires
<1>. QED
  BY <1>1, <1>2 DEF SessionInv

\* A revoked session leaves nothing to renew with.
LEMMA ServerRevokesKeeps ==
  ASSUME SessionInv, ServerRevokes
  PROVE  SessionInv'
<1>1. Types'
  BY DEF SessionInv, Types, DiskTypes, TaskTypes, ServerTypes, GhostTypes,
     ServerRevokes
<1>2. /\ LockTrue' /\ HandTrue' /\ VaultTrue' /\ NoReuse'
      /\ RotationBeforeUse' /\ OutTrue' /\ ValidTrue'
  BY DEF SessionInv, LockTrue, HandTrue, VaultTrue, NoReuse, RotationBeforeUse,
     OutTrue, ValidTrue, ServerRevokes
<1>3. NumbersTrue'
  BY DEF SessionInv, Types, ServerTypes, NumbersTrue, ServerRevokes
<1>. QED
  BY <1>1, <1>2, <1>3 DEF SessionInv

\* A stop forgets what is in flight (Engine::stop).
LEMMA RestartKeeps ==
  ASSUME SessionInv, Restart
  PROVE  SessionInv'
<1>1. Types'
  <2>1. DiskTypes' /\ TaskTypes' /\ ServerTypes'
    BY DEF SessionInv, Types, DiskTypes, TaskTypes, ServerTypes, Restart
  <2>2. GhostTypes'
    <3>1. ASSUME NEW u \in Tasks
          PROVE  {hand[u], reply[u]} \ {None} \subseteq Tokens
      BY DEF SessionInv, Types, TaskTypes
    <3>2. doubtful' \subseteq Tokens
      BY <3>1 DEF SessionInv, Types, GhostTypes, Restart
    <3>. QED
      BY <3>2 DEF SessionInv, Types, GhostTypes, Restart, IsOut
  <2>. QED
    BY <2>1, <2>2 DEF Types
<1>2. HandTrue' /\ NoReuse' /\ RotationBeforeUse'
  BY DEF SessionInv, HandTrue, NoReuse, RotationBeforeUse, Restart
<1>3. LockTrue'
  BY SessionAssumption DEF SessionInv, LockTrue, Restart
<1>4. NumbersTrue'
  BY DEF SessionInv, Types, ServerTypes, NumbersTrue, Restart
<1>5. VaultTrue'
  BY DEF SessionInv, VaultTrue, NumbersTrue, Restart
<1>6. OutTrue'
  BY DEF SessionInv, Types, GhostTypes, OutTrue, Restart, IsOut
<1>7. ValidTrue'
  BY DEF SessionInv, GhostTypes, ValidTrue, Restart
<1>. QED
  BY <1>1, <1>2, <1>3, <1>4, <1>5, <1>6, <1>7 DEF SessionInv

-----------------------------------------------------------------------------
\* Nobody has signed in yet (state_on_start).
LEMMA InitSessionInv == Init => SessionInv
<1>1. Init => Types
  BY SessionAssumption DEF Init, Types, DiskTypes, TaskTypes, ServerTypes, GhostTypes
<1>2. Init => LockTrue /\ NumbersTrue /\ HandTrue
  BY SessionAssumption DEF Init, LockTrue, NumbersTrue, HandTrue
<1>3. Init => VaultTrue /\ NoReuse /\ RotationBeforeUse /\ OutTrue /\ ValidTrue
  BY DEF Init, VaultTrue, NoReuse, RotationBeforeUse, OutTrue, ValidTrue
<1>. QED
  BY <1>1, <1>2, <1>3 DEF SessionInv

\* Every step, or none, keeps the invariant.
LEMMA NextSessionInv == SessionInv /\ [Next]_vars => SessionInv'
<1>. SUFFICES ASSUME SessionInv, [Next]_vars
              PROVE  SessionInv'
  OBVIOUS
<1>1. ASSUME NEW t \in Workers, Ask(t) \/ Enter(t)
      PROVE  SessionInv'
  BY <1>1, AskKeeps, EnterKeeps
<1>2. ASSUME NEW t \in Tasks, GoesOn(t)
      PROVE  SessionInv'
  BY <1>2, RedeemKeeps, NothingHappenedKeeps, StopsSessionKeeps, StoreKeeps, TakeOverKeeps,
     WriteRowKeeps, ClearKeeps, ForgetKeeps, LoginDecidedKeeps, RevokeKeeps DEF GoesOn
<1>3. ASSUME NEW t \in Tasks, BreaksOff(t) \/ AdoptionFails(t)
      PROVE  SessionInv'
  BY <1>3, BreaksOffKeeps, AdoptionFailsKeeps
<1>4. CASE SignIn \/ SignOut \/ Order
  BY <1>4, SignInKeeps, SignOutKeeps, OrderKeeps
<1>5. CASE Expires \/ ServerRevokes \/ Restart
  BY <1>5, ExpiresKeeps, ServerRevokesKeeps, RestartKeeps
<1>6. CASE UNCHANGED vars
  BY <1>6 DEF vars, SessionInv, Types, DiskTypes, TaskTypes, ServerTypes, GhostTypes, LockTrue,
     NumbersTrue, HandTrue, VaultTrue, NoReuse, RotationBeforeUse, OutTrue, ValidTrue
<1>. QED
  BY <1>1, <1>2, <1>3, <1>4, <1>5, <1>6 DEF Next

\* SessionInv holds at every time.
THEOREM SessionInvariant == Spec => []SessionInv
<1>. QED
  BY InitSessionInv, NextSessionInv, PTL DEF Spec

\* Type correctness, and the lock belongs to whoever is past it.
THEOREM SessionTypeCorrect == Spec => []TypeOK
<1>1. SessionInv => TypeOK
  BY DEF SessionInv, Types, DiskTypes, TaskTypes, ServerTypes, GhostTypes, LockTrue, TypeOK
<1>. QED
  BY <1>1, SessionInvariant, PTL

\* No refresh token whose fate is known is redeemed twice (ensure_for_token).
THEOREM TokensUsedOnce == Spec => []NoReuse
<1>1. SessionInv => NoReuse
  BY DEF SessionInv
<1>. QED
  BY <1>1, SessionInvariant, PTL

\* The rotation is stored before the access token is used (adopt_token).
THEOREM RotationFirst == Spec => []RotationBeforeUse
<1>1. SessionInv => RotationBeforeUse
  BY DEF SessionInv
<1>. QED
  BY <1>1, SessionInvariant, PTL

\* Without a fault the vault holds what the server would renew (adopt_token).
THEOREM ValidTokenKept == Spec => []ValidIsKept
<1>1. SessionInv => ValidIsKept
  <2>. SUFFICES ASSUME SessionInv, Free, ~overlapped, valid # None, doubtful = {}
                PROVE  vault = valid
    BY DEF ValidIsKept
  <2>1. \A t \in Tasks : at[t] # "answered"
    BY SessionAssumption DEF SessionInv, LockTrue, Free
  <2>. QED
    BY <2>1 DEF SessionInv, ValidTrue
<1>. QED
  BY <1>1, SessionInvariant, PTL

\* A sign-out stays one (clear_after_sign_out).
THEOREM SignOutStays == Spec => []SignedOutStaysOut
<1>1. SessionInv => SignedOutStaysOut
  BY DEF SessionInv, OutTrue, SignedOutStaysOut, IsOut
<1>. QED
  BY <1>1, SessionInvariant, PTL
=============================================================================
