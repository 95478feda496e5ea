---------------------------- MODULE Counterpart ----------------------------
(***************************************************************************)
(* Which server a workstation belongs to.  An address comes from the       *)
(* environment or from the set-up; at every start it is compared with the  *)
(* one the device was enrolled against (the seal), and a device that has   *)
(* been pointed elsewhere signs out from the old server and forgets what   *)
(* belonged to it before it speaks to the new one.  Everything is written  *)
(* step by step, and the process can end between any two.                  *)
(*                                                                         *)
(* The three addresses of a server change together (one question in the    *)
(* set-up, one policy for the environment), but they are sealed one by     *)
(* one.  What the session does while nothing moves is in module Session.   *)
(***************************************************************************)
EXTENDS Naturals, FiniteSets

CONSTANTS Servers,      \* the servers a workstation can be pointed at
          Nowhere,      \* no address, no token, no document
          MaxMoves,     \* how often it is pointed elsewhere
          MaxFaults     \* stops, a jammed vault, a store that refuses, no folder, no network

ASSUME CounterpartAssumption ==
    /\ Nowhere \notin Servers
    /\ MaxMoves \in Nat /\ MaxFaults \in Nat

VARIABLES
    env,        \* the address the administrator set
    setting,    \* the address typed in the set-up
    enrolled,   \* the mark device.enrolled
    seal,       \* the three stored addresses of the counterpart
    note,       \* "this device was pointed away from ...", until the page has said so
    completed,  \* the set-up was walked to its last page
    anchor,     \* whose key set is anchored
    token,      \* whose refresh token lies in the vault
    login,      \* whose login the session row carries
    names,      \* whose documents the namespace holds
    folder,     \* whose documents lie in the folder
    at,         \* where the process stands
    here,       \* the server the running process is configured for
    old,        \* the counterpart the comparison found
    connected,  \* whether the folder is connected
    moves, faults,
    (* not in the code *)
    home,       \* the server the device really enrolled with
    shown,      \* <<issuer, server>>: refresh tokens that were presented
    moved,      \* the move nobody has been told of yet
    blind,      \* pointed elsewhere before there was a seal to notice it
    jammed,     \* a refresh token outlived the sign-out of a move
    spared,     \* documents outlived it in the folder
    kept,       \* what outlived it in the store, or came without an enrolment: login, names
    cut         \* what ended between the key set and the mark, or behind the mark

addresses == <<env, setting>>
process   == <<at, here, old, connected>>
secrets   == <<token, login>>
documents == <<names, folder>>
told      == <<note, completed, moved>>
ghosts    == <<home, shown, blind, jammed, spared, kept, cut>>
vars == <<addresses, enrolled, seal, anchor, secrets, documents, process, told, moves, faults,
          ghosts>>

Place == Servers \cup {Nowhere}
Moving    == {"Build", "Revoke", "Clear", "Empty", "SignOut", "Forget", "DropMark",
              "DropKeys", "Note", "Reopen"}
Starting  == Moving \cup {"Compare", "Seal1", "Seal2", "Seal3", "Start"}
SigningIn == {"Enrol", "Mark", "Token", "Session"}
Running   == SigningIn \cup {"Rest"}

(* The environment decides; only where it is silent the set-up does. *)
Pointed == IF env # Nowhere THEN env ELSE setting

(* Three stored addresses are a counterpart only when all three stand. *)
Sealed == \A i \in 1..3 : seal[i] # Nowhere

(* Mutant: as long as a move has not been shown no other one is looked for. *)
HasMovedOnce ==
    /\ note = Nowhere
    /\ enrolled /\ Sealed /\ \E i \in 1..3 : seal[i] # here

(* The device is enrolled, and the seal names another server than this start. *)
HasMoved == enrolled /\ Sealed /\ \E i \in 1..3 : seal[i] # here

(* A fresh workstation, or one that was enrolled before there was a seal. *)
Init ==
    /\ \/ home = Nowhere /\ env \in Place /\ completed = FALSE
       \/ home \in Servers /\ env = home /\ completed = TRUE
    /\ setting = Nowhere
    /\ enrolled = (home # Nowhere)
    /\ seal = [i \in 1..3 |-> Nowhere]
    /\ anchor = home /\ token = home /\ login = home
    /\ names = {home} \ {Nowhere} /\ folder = names
    /\ at = "Off" /\ here = Nowhere /\ old = Nowhere /\ connected = FALSE
    /\ note = Nowhere /\ moved = Nowhere
    /\ moves = 0 /\ faults = 0
    /\ shown = {} /\ blind = FALSE /\ jammed = FALSE
    /\ spared = FALSE /\ kept = {} /\ cut = {}

Goes(p) == at' = p /\ UNCHANGED <<here, old, connected>>
Ends == at' = "Off" /\ here' = Nowhere /\ old' = Nowhere /\ connected' = FALSE
Fault == faults < MaxFaults /\ faults' = faults + 1

-----------------------------------------------------------------------------
(* The administrator sets another address, or takes it away.  A process    *)
(* keeps the environment it was started with.                              *)
Repoint(s) ==
    /\ at = "Off" /\ s # env /\ moves < MaxMoves
    /\ env' = s /\ moves' = moves + 1
    /\ UNCHANGED <<setting, enrolled, seal, anchor, secrets, documents, process, told, faults,
                   ghosts>>

(* The user types an address; what the environment has fixed is not his. *)
Type(s) ==
    /\ at \in Running \cup {"Asked"}
    /\ env = Nowhere /\ s # setting /\ moves < MaxMoves
    /\ setting' = s /\ moves' = moves + 1
    /\ UNCHANGED <<env, enrolled, seal, anchor, secrets, documents, process, told, faults, ghosts>>

(* The last page of the set-up while an engine runs: it has said what the note says. *)
WalkedThrough ==
    /\ at \in Running
    /\ completed' = TRUE /\ note' = Nowhere /\ moved' = Nowhere
    /\ UNCHANGED <<addresses, enrolled, seal, anchor, secrets, documents, process, moves, faults,
                   ghosts>>

(* The last page on a workstation without an engine: the start follows, if *)
(* there is an address now.                                                *)
WalkedThroughWaiting ==
    /\ at = "Asked"
    /\ completed' = TRUE
    /\ IF Pointed = Nowhere THEN UNCHANGED process
       ELSE at' = "Compare" /\ here' = Pointed /\ UNCHANGED <<old, connected>>
    /\ UNCHANGED <<addresses, enrolled, seal, anchor, secrets, documents, note, moved, moves,
                   faults, ghosts>>

(* A start; with no address anywhere the window asks for one. *)
Launch ==
    /\ at = "Off"
    /\ IF Pointed = Nowhere THEN Goes("Asked")
       ELSE at' = "Compare" /\ here' = Pointed /\ UNCHANGED <<old, connected>>
    /\ UNCHANGED <<addresses, enrolled, seal, anchor, secrets, documents, told, moves, faults,
                   ghosts>>

Compare ==
    /\ at = "Compare"
    /\ IF HasMoved THEN at' = "Build" /\ old' = seal[1] ELSE at' = "Seal1" /\ UNCHANGED old
    /\ blind' = (blind \/ (enrolled /\ ~Sealed /\ home # here))
    /\ UNCHANGED <<addresses, enrolled, seal, anchor, secrets, documents, here, connected, told,
                   moves, faults, home, shown, jammed, spared, kept, cut>>

-----------------------------------------------------------------------------
(* start_afresh: an engine for the old addresses, with the folder connected *)
(* if it can be.                                                            *)
BuildOld ==
    /\ at = "Build"
    /\ at' = "Revoke"
    /\ \/ connected' = TRUE /\ UNCHANGED faults
       \/ connected' = FALSE /\ Fault
    /\ UNCHANGED <<addresses, enrolled, seal, anchor, secrets, documents, here, old, told, moves,
                   ghosts>>

(* Mutant: the engine of the move is built for the new addresses. *)
RevokeHere ==
    /\ at = "Revoke"
    /\ Goes("Clear")
    /\ shown' = IF token = Nowhere THEN shown ELSE shown \cup {<<token, here>>}
    /\ UNCHANGED <<addresses, enrolled, seal, anchor, secrets, documents, told, moves, faults, home,
                   blind, jammed, spared, kept, cut>>

(* The refresh token goes back to where it came from; no answer is fine. *)
RevokeOld ==
    /\ at = "Revoke"
    /\ Goes("Clear")
    /\ shown' = IF token = Nowhere THEN shown ELSE shown \cup {<<token, old>>}
    /\ UNCHANGED <<addresses, enrolled, seal, anchor, secrets, documents, told, moves, faults, home,
                   blind, jammed, spared, kept, cut>>

(* Every step of the sign-out is tried; one that fails is remembered, and the *)
(* move goes on (clear_after_sign_out, start_afresh).                         *)
ClearFolder ==
    /\ at = "Clear"
    /\ Goes("Empty")
    /\ \/ connected /\ folder' = {} /\ UNCHANGED faults
       \/ connected /\ UNCHANGED folder /\ Fault
       \/ ~connected /\ UNCHANGED <<folder, faults>>
    /\ spared' = (folder' # {})
    /\ UNCHANGED <<addresses, enrolled, seal, anchor, secrets, names, told, moves, home, shown,
                   blind, jammed, kept, cut>>

EmptyNames ==
    /\ at = "Empty"
    /\ Goes("SignOut")
    /\ \/ names' = {} /\ kept' = kept \ {"names"} /\ UNCHANGED faults
       \/ Fault /\ names # {} /\ kept' = kept \cup {"names"} /\ UNCHANGED names
    /\ UNCHANGED <<addresses, enrolled, seal, anchor, secrets, folder, told, moves, home, shown,
                   blind, jammed, spared, cut>>

ClearRow ==
    /\ at = "SignOut"
    /\ Goes("Forget")
    /\ \/ login' = Nowhere /\ kept' = kept \ {"login"} /\ UNCHANGED faults
       \/ Fault /\ login # Nowhere /\ kept' = kept \cup {"login"} /\ UNCHANGED login
    /\ UNCHANGED <<addresses, enrolled, seal, anchor, token, documents, told, moves, home, shown,
                   blind, jammed, spared, cut>>

(* A vault that does not answer is logged, and the move goes on. *)
ForgetSecrets ==
    /\ at = "Forget"
    /\ Goes("DropMark")
    /\ \/ token' = Nowhere /\ UNCHANGED <<jammed, faults>>
       \/ Fault /\ jammed' = (jammed \/ token # Nowhere) /\ UNCHANGED token
    /\ UNCHANGED <<addresses, enrolled, seal, anchor, login, documents, told, moves, home, shown,
                   blind, spared, kept, cut>>

(* The mark goes before the key set: a stop in between leaves the key set. *)
DropMark ==
    /\ at = "DropMark"
    /\ Goes("DropKeys")
    /\ enrolled' = FALSE
    /\ home' = Nowhere /\ moved' = old /\ cut' = {}
    /\ UNCHANGED <<addresses, seal, anchor, secrets, documents, note, completed, moves, faults,
                   shown, blind, jammed, spared, kept>>

(* Mutant: the key set of the old server stays. *)
KeepKeys ==
    /\ at = "DropKeys"
    /\ Goes("Note")
    /\ UNCHANGED <<addresses, enrolled, seal, anchor, secrets, documents, told, moves, faults,
                   ghosts>>

DropKeys ==
    /\ at = "DropKeys"
    /\ Goes("Note")
    /\ anchor' = Nowhere
    /\ UNCHANGED <<addresses, enrolled, seal, secrets, documents, told, moves, faults, ghosts>>

NoteMove ==
    /\ at = "Note"
    /\ Goes("Reopen")
    /\ note' = old
    /\ UNCHANGED <<addresses, enrolled, seal, anchor, secrets, documents, completed, moved, moves,
                   faults, ghosts>>

(* The set-up is owed again. *)
ReopenSetup ==
    /\ at = "Reopen"
    /\ Goes("Seal1")
    /\ completed' = FALSE
    /\ UNCHANGED <<addresses, enrolled, seal, anchor, secrets, documents, note, moved, moves,
                   faults, ghosts>>

SealStep == [Seal1 |-> 1, Seal2 |-> 2, Seal3 |-> 3]

(* Mutant: a seal that stands is not written again. *)
SealOnce ==
    /\ at \in DOMAIN SealStep
    /\ LET i == SealStep[at] IN
         /\ seal' = IF seal[i] = Nowhere THEN [seal EXCEPT ![i] = here] ELSE seal
         /\ Goes(<<"Seal2", "Seal3", "Start">>[i])
    /\ UNCHANGED <<addresses, enrolled, anchor, secrets, documents, told, moves, faults, ghosts>>

(* At every start the three addresses are written one after the other. *)
WriteSeal ==
    /\ at \in DOMAIN SealStep
    /\ LET i == SealStep[at] IN
         /\ seal' = [seal EXCEPT ![i] = here]
         /\ Goes(<<"Seal2", "Seal3", "Start">>[i])
    /\ UNCHANGED <<addresses, enrolled, anchor, secrets, documents, told, moves, faults, ghosts>>

(* The engine, the folder if there is one, and the sign-in by itself. *)
StartEngine ==
    /\ at = "Start"
    /\ at' = "Enrol"
    /\ \/ connected' = TRUE /\ UNCHANGED faults
       \/ connected' = FALSE /\ Fault
    /\ UNCHANGED <<addresses, enrolled, seal, anchor, secrets, documents, here, old, told, moves,
                   ghosts>>

-----------------------------------------------------------------------------
(* The sign-in: enrolment, device token, session. *)
AlreadyEnrolled ==
    /\ at = "Enrol" /\ enrolled
    /\ Goes("Token")
    /\ UNCHANGED <<addresses, enrolled, seal, anchor, secrets, documents, told, moves, faults,
                   ghosts>>

(* Without a code the device waits for one; and any call can fail. *)
GivesUp ==
    /\ \/ at = "Enrol" /\ ~enrolled /\ UNCHANGED faults
       \/ at \in {"Enrol", "Token", "Session"} /\ Fault
    /\ Goes("Rest")
    /\ UNCHANGED <<addresses, enrolled, seal, anchor, secrets, documents, told, moves, ghosts>>

(* The answer carries the key set of the server or none at all.  A key set *)
(* that is anchored is not replaced: another one refuses the enrolment.    *)
Enrol(carries) ==
    /\ at = "Enrol" /\ ~enrolled
    /\ IF carries
       THEN IF anchor \in {Nowhere, here}
            THEN anchor' = here /\ Goes("Mark")
            ELSE UNCHANGED anchor /\ Goes("Rest")
       ELSE UNCHANGED anchor /\ Goes("Mark")
    /\ UNCHANGED <<addresses, enrolled, seal, secrets, documents, told, moves, faults, ghosts>>

(* The key set is written, the mark follows, and its write can fail. *)
MarkEnrolled ==
    /\ at = "Mark"
    /\ \/ Goes("Token") /\ enrolled' = TRUE /\ home' = here /\ UNCHANGED <<cut, faults>>
       \/ Goes("Rest") /\ Fault /\ cut' = cut \cup {"keys"} /\ UNCHANGED <<enrolled, home>>
    /\ UNCHANGED <<addresses, seal, anchor, secrets, documents, told, moves, shown, blind, jammed,
                   spared, kept>>

(* A server the device is not enrolled with refuses it; the own one gives  *)
(* a token, or lets it wait for its approval: then nobody is signed in.    *)
FetchDeviceToken ==
    /\ at = "Token"
    /\ \/ home = here /\ Goes("Session") /\ UNCHANGED <<login, kept>>
       \/ home = here /\ Goes("Rest") /\ login' = Nowhere /\ kept' = kept \ {"login"}
       \/ Goes("Rest") /\ UNCHANGED <<login, kept>>
    /\ UNCHANGED <<addresses, enrolled, seal, anchor, token, documents, told, moves, faults, home,
                   shown, blind, jammed, spared, cut>>

(* The stored token is presented to the server of this run.  One that was  *)
(* issued elsewhere is refused, and then forgotten; the login stays.       *)
Renew ==
    /\ at \in {"Session", "Rest"}
    /\ at = "Rest" => login # Nowhere
    /\ token # Nowhere
    /\ shown' = shown \cup {<<token, here>>}
    /\ IF token = here THEN login' = here /\ UNCHANGED token /\ Goes("Rest")
       ELSE token' = Nowhere /\ UNCHANGED <<login, process>>
    /\ UNCHANGED <<addresses, enrolled, seal, anchor, documents, told, moves, faults, home, blind,
                   jammed, spared, kept, cut>>

(* The token is stored first, the session row after it. *)
DeviceLogin ==
    /\ at = "Session" /\ token = Nowhere
    /\ Goes("Rest")
    /\ \/ token' = here /\ login' = here /\ kept' = kept \ {"login"} /\ UNCHANGED faults
       \/ token' = here /\ Fault /\ UNCHANGED <<login, kept>>
       \/ UNCHANGED <<secrets, kept, faults>>
    /\ UNCHANGED <<addresses, enrolled, seal, anchor, documents, told, moves, home, shown, blind,
                   jammed, spared, cut>>

SignInAgain ==
    /\ at = "Rest" /\ (login = Nowhere \/ token = Nowhere)
    /\ Goes("Enrol")
    /\ UNCHANGED <<addresses, enrolled, seal, anchor, secrets, documents, told, moves, faults,
                   ghosts>>

(* The beat: what the server offers replaces what was stored, container by *)
(* container and perhaps not in all of them.                               *)
Reconcile ==
    /\ at = "Rest" /\ login # Nowhere /\ token = here
    /\ names' \in {{here}, names \cup {here}}
    /\ folder' = IF connected THEN (folder \ names) \cup names' ELSE folder
    /\ kept' = IF home = here THEN kept ELSE kept \cup {"names"}
    /\ UNCHANGED <<addresses, enrolled, seal, anchor, secrets, process, told, moves, faults, home,
                   shown, blind, jammed, spared, cut>>

(* The platform shows what is stored, whoever is signed in. *)
Children ==
    /\ at \in Running /\ connected
    /\ folder' = folder \cup names
    /\ UNCHANGED <<addresses, enrolled, seal, anchor, secrets, names, process, told, moves, faults,
                   ghosts>>

(* The user signs out: the same steps, each of which can fail. *)
SignOut ==
    /\ at = "Rest" /\ login # Nowhere
    /\ shown' = IF token = Nowhere THEN shown ELSE shown \cup {<<token, here>>}
    /\ \E failed \in SUBSET {"folder", "names", "login", "token"} :
         /\ IF failed = {} THEN UNCHANGED faults ELSE Fault
         /\ folder' = IF connected /\ "folder" \notin failed THEN {} ELSE folder
         /\ names' = IF "names" \in failed THEN names ELSE {}
         /\ login' = IF "login" \in failed THEN login ELSE Nowhere
         /\ token' = IF "token" \in failed THEN token ELSE Nowhere
         /\ kept' = kept \cap failed
    /\ spared' = (folder' # {} /\ (spared \/ "names" \in kept))
    /\ UNCHANGED <<addresses, enrolled, seal, anchor, process, told, moves, home, blind, jammed,
                   cut>>

-----------------------------------------------------------------------------
(* The process ends in the middle of a start, or is refused: a store, a    *)
(* vault or a thread fails, or the machine goes down.                      *)
Stop ==
    /\ at \in Starting /\ Fault
    /\ Ends
    /\ cut' = cut \cup CASE at = "DropKeys" -> {"keys", "note"}
                        [] at = "Note" -> {"note"}
                        [] OTHER -> {}
    /\ UNCHANGED <<addresses, enrolled, seal, anchor, secrets, documents, told, moves, home, shown,
                   blind, jammed, spared, kept>>

Quit ==
    /\ at \in Running \cup {"Asked"}
    /\ Ends
    /\ cut' = IF at = "Mark" THEN cut \cup {"keys"} ELSE cut
    /\ UNCHANGED <<addresses, enrolled, seal, anchor, secrets, documents, told, moves, faults,
                   home, shown, blind, jammed, spared, kept>>

Move == \/ BuildOld \/ RevokeOld \/ ClearFolder \/ EmptyNames \/ ClearRow \/ ForgetSecrets
        \/ DropMark \/ DropKeys \/ NoteMove \/ ReopenSetup

Next ==
    \/ \E s \in Place : Repoint(s)
    \/ \E s \in Servers : Type(s)
    \/ WalkedThrough \/ WalkedThroughWaiting
    \/ Launch \/ Compare \/ Move \/ WriteSeal \/ StartEngine
    \/ AlreadyEnrolled \/ GivesUp \/ (\E c \in BOOLEAN : Enrol(c)) \/ MarkEnrolled
    \/ FetchDeviceToken \/ Renew \/ DeviceLogin \/ SignInAgain
    \/ Reconcile \/ Children \/ SignOut
    \/ Stop \/ Quit

(* The start runs by itself; the app is started with the session of the    *)
(* operating system and ends with it.                                      *)
Fairness == /\ WF_vars(Launch) /\ WF_vars(Compare) /\ WF_vars(Move) /\ WF_vars(WriteSeal)
            /\ WF_vars(StartEngine) /\ WF_vars(Quit)

Spec == Init /\ [][Next]_vars /\ Fairness
-----------------------------------------------------------------------------
(* The variables have their types. *)
TypeOK ==
    /\ env \in Place /\ setting \in Place
    /\ enrolled \in BOOLEAN /\ seal \in [1..3 -> Place]
    /\ note \in Place /\ completed \in BOOLEAN
    /\ anchor \in Place /\ token \in Place /\ login \in Place
    /\ names \subseteq Servers /\ folder \subseteq Servers
    /\ at \in Starting \cup Running \cup {"Off", "Asked"}
    /\ here \in Place /\ old \in Place /\ connected \in BOOLEAN
    /\ moves \in 0..MaxMoves /\ faults \in 0..MaxFaults
    /\ home \in Place /\ shown \subseteq Servers \X Servers /\ moved \in Place
    /\ blind \in BOOLEAN /\ jammed \in BOOLEAN /\ spared \in BOOLEAN
    /\ kept \subseteq {"login", "names"} /\ cut \subseteq {"keys", "note"}

(* Only a device that has really been pointed elsewhere is signed out and  *)
(* cleared: a seal that was written in part, or before the device was      *)
(* enrolled, raises no alarm (setup.rs, same_server: a false alarm costs   *)
(* every managed device its session and its local copy).                   *)
NoFalseAlarm == at \in Moving => home # here \/ blind

(* While an engine runs for a server the whole seal names it. *)
SealTrue == at \in Running => \A i \in 1..3 : seal[i] = here

(* After a move the note stands until a page has shown it, however often   *)
(* the app was started in between; unless the process ended behind the     *)
(* enrolled mark and before the note.                                      *)
MoveIsTold == at \in Running /\ moved # Nowhere => note = moved \/ "note" \in cut

(* What every start leaves true. *)
MoveInv == TypeOK /\ NoFalseAlarm /\ SealTrue /\ MoveIsTold

(* A refresh token is presented to the server that issued it and to no     *)
(* other, wherever the move was interrupted: only a vault that did not let *)
(* go of it, or a move nobody could notice, brings it elsewhere.           *)
TokensStayHome == \A p \in shown : p[1] = p[2] \/ jammed \/ blind

(* While the engine runs for one server nothing of another is left: no     *)
(* login, no document in store or folder, no key set.  The exceptions are  *)
(* what a failed step of the sign-out left, until a later one succeeds     *)
(* (the folder, and with the names of the store what it shows of them),    *)
(* and a stop or a failed write between the mark and the key set, be it    *)
(* when both are written or when both are dropped.                         *)
KeepsToItsOwn ==
    at \in Running /\ ~blind =>
        /\ login \in {here, Nowhere} \/ "login" \in kept
        /\ names \subseteq {here} \/ "names" \in kept
        /\ folder \subseteq {here} \/ spared \/ "names" \in kept
        /\ anchor \in {here, Nowhere} \/ "keys" \in cut

(* The same without the last exception, as start_afresh says of the key    *)
(* set: the anchor belongs to the old server, and one from another tenant  *)
(* would silently discard every command of the new one.                    *)
NoForeignAnchor == at \in Running /\ ~blind => anchor \in {here, Nowhere}

(* A device that points elsewhere leaves its old server in the end, however *)
(* often the start is cut off, unless it is pointed back.                   *)
LeavesAtLast ==
    \A s \in Servers :
        enrolled /\ home = s /\ Pointed \notin {s, Nowhere} /\ ~blind
            ~> home # s \/ Pointed \in {s, Nowhere} \/ blind
=============================================================================
