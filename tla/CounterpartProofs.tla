-------------------------- MODULE CounterpartProofs --------------------------
(***************************************************************************)
(* Counterpart for any set of servers, any number of moves and of faults.  *)
(***************************************************************************)
EXTENDS Counterpart, TLAPS

\* TypeOK, taken apart.
PlaceTypes ==
    /\ env \in Place /\ setting \in Place /\ note \in Place /\ moved \in Place
    /\ anchor \in Place /\ token \in Place /\ login \in Place
    /\ here \in Place /\ old \in Place /\ home \in Place
FlagTypes ==
    /\ enrolled \in BOOLEAN /\ completed \in BOOLEAN /\ connected \in BOOLEAN
    /\ blind \in BOOLEAN /\ jammed \in BOOLEAN /\ spared \in BOOLEAN
StepTypes ==
    /\ at \in Starting \cup Running \cup {"Off", "Asked"}
    /\ moves \in 0..MaxMoves /\ faults \in 0..MaxFaults
SetTypes ==
    /\ seal \in [1..3 -> Place]
    /\ names \subseteq Servers /\ folder \subseteq Servers
    /\ shown \subseteq Servers \X Servers
    /\ kept \subseteq {"login", "names"} /\ cut \subseteq {"keys", "note"}

\* Where the old server is being left, where it has been, and where the new one begins.
Leaving == {"Build", "Revoke", "Clear", "Empty", "SignOut", "Forget", "DropMark"}
Left == {"DropKeys", "Note", "Reopen"}
Beginning == {"Seal1", "Seal2", "Seal3", "Start"}

\* The mark and the address of the start, against the server the device really belongs to.
HomeTrue ==
    /\ enrolled <=> home # Nowhere
    /\ at \notin {"Off", "Asked"} => here # Nowhere
    /\ at \in Leaving => enrolled /\ old # Nowhere /\ (blind \/ (home = old /\ home # here))
    /\ at \in Left => ~enrolled /\ old # Nowhere
    /\ at \in Beginning \cup Running /\ enrolled /\ ~blind => home = here
    /\ at = "Mark" => ~enrolled
    /\ at = "Session" => home = here

\* The seal names no server but that one, and what this start has written of it stands.
SealFits ==
    /\ enrolled /\ ~blind => \A i \in 1..3 : seal[i] \in {Nowhere, home}
    /\ at \in {"Seal2", "Seal3"} => seal[1] = here
    /\ at = "Seal3" => seal[2] = here
    /\ at \in {"Start"} \cup Running => \A i \in 1..3 : seal[i] = here

\* MoveIsTold, wherever the process stands.
ToldTrue ==
    IF at \in {"DropKeys", "Note"} THEN moved = old
    ELSE moved # Nowhere => note = moved \/ "note" \in cut

\* What belongs to a server belongs to that of the device, and goes before the mark does.
TokenTrue ==
    ~blind /\ ~jammed =>
        token \in {Nowhere, home} /\ (at = "DropMark" => token = Nowhere)
LoginTrue ==
    ~blind /\ "login" \notin kept =>
        login \in {Nowhere, home} /\ (at \in {"Forget", "DropMark"} => login = Nowhere)
NamesTrue ==
    ~blind /\ "names" \notin kept =>
        names \subseteq {home} /\ (at \in {"SignOut", "Forget", "DropMark"} => names = {})
\* What the folder shows comes from the store, so it may be foreign where that is.
FolderTrue ==
    ~blind /\ ~spared =>
        /\ "names" \notin kept => folder \subseteq {home}
        /\ at \in {"Empty", "SignOut", "Forget", "DropMark"} => folder = {}

\* So does the key set, but for the two moments between it and the mark.
AnchorTrue ==
    ~blind /\ "keys" \notin cut /\ at # "DropKeys" =>
        IF at = "Mark" THEN anchor \in {Nowhere, here} ELSE anchor \in {Nowhere, home}

BelongsInv ==
    /\ PlaceTypes /\ FlagTypes /\ StepTypes /\ SetTypes
    /\ HomeTrue /\ SealFits /\ ToldTrue
    /\ TokenTrue /\ LoginTrue /\ NamesTrue /\ FolderTrue /\ AnchorTrue
    /\ TokensStayHome

-----------------------------------------------------------------------------
USE DEF addresses, process, secrets, documents, told, ghosts, vars,
        Place, Moving, Starting, SigningIn, Running, Leaving, Left, Beginning

\* The administrator points the workstation elsewhere while no process runs.
LEMMA RepointKeeps ==
  ASSUME BelongsInv, NEW s \in Place, Repoint(s)
  PROVE  BelongsInv'
<1>1. /\ PlaceTypes' /\ FlagTypes' /\ SetTypes' /\ HomeTrue' /\ SealFits' /\ ToldTrue'
      /\ TokenTrue' /\ LoginTrue' /\ NamesTrue' /\ FolderTrue' /\ AnchorTrue'
      /\ TokensStayHome'
  BY DEF BelongsInv, PlaceTypes, FlagTypes, SetTypes, HomeTrue, SealFits, ToldTrue,
     TokenTrue, LoginTrue, NamesTrue, FolderTrue, AnchorTrue, TokensStayHome, Repoint
<1>2. StepTypes'
  BY CounterpartAssumption DEF BelongsInv, StepTypes, Repoint
<1>. QED
  BY <1>1, <1>2 DEF BelongsInv

\* So does the user in the set-up, where the environment is silent.
LEMMA TypeKeeps ==
  ASSUME BelongsInv, NEW s \in Servers, Type(s)
  PROVE  BelongsInv'
<1>1. /\ PlaceTypes' /\ FlagTypes' /\ SetTypes' /\ HomeTrue' /\ SealFits' /\ ToldTrue'
      /\ TokenTrue' /\ LoginTrue' /\ NamesTrue' /\ FolderTrue' /\ AnchorTrue'
      /\ TokensStayHome'
  BY DEF BelongsInv, PlaceTypes, FlagTypes, SetTypes, HomeTrue, SealFits, ToldTrue,
     TokenTrue, LoginTrue, NamesTrue, FolderTrue, AnchorTrue, TokensStayHome, Type
<1>2. StepTypes'
  BY CounterpartAssumption DEF BelongsInv, StepTypes, Type
<1>. QED
  BY <1>1, <1>2 DEF BelongsInv

\* The last page has told of the move.
LEMMA WalkedThroughKeeps ==
  ASSUME BelongsInv, WalkedThrough
  PROVE  BelongsInv'
<1>1. /\ PlaceTypes' /\ FlagTypes' /\ StepTypes' /\ SetTypes' /\ HomeTrue' /\ SealFits'
      /\ ToldTrue' /\ TokenTrue' /\ LoginTrue' /\ NamesTrue' /\ FolderTrue' /\ AnchorTrue'
      /\ TokensStayHome'
  BY DEF BelongsInv, PlaceTypes, FlagTypes, StepTypes, SetTypes, HomeTrue, SealFits,
     ToldTrue, TokenTrue, LoginTrue, NamesTrue, FolderTrue, AnchorTrue, TokensStayHome,
     WalkedThrough
<1>. QED
  BY <1>1 DEF BelongsInv

\* The last page without an engine, and the start that follows.
LEMMA WalkedThroughWaitingKeeps ==
  ASSUME BelongsInv, WalkedThroughWaiting
  PROVE  BelongsInv'
<1>1. /\ PlaceTypes' /\ FlagTypes' /\ StepTypes' /\ SetTypes' /\ HomeTrue' /\ SealFits'
      /\ ToldTrue' /\ TokenTrue' /\ LoginTrue' /\ NamesTrue' /\ FolderTrue' /\ AnchorTrue'
      /\ TokensStayHome'
  BY DEF BelongsInv, PlaceTypes, FlagTypes, StepTypes, SetTypes, HomeTrue, SealFits,
     ToldTrue, TokenTrue, LoginTrue, NamesTrue, FolderTrue, AnchorTrue, TokensStayHome,
     WalkedThroughWaiting, Pointed
<1>. QED
  BY <1>1 DEF BelongsInv

\* A start takes the address there is.
LEMMA LaunchKeeps ==
  ASSUME BelongsInv, Launch
  PROVE  BelongsInv'
<1>1. /\ PlaceTypes' /\ FlagTypes' /\ StepTypes' /\ SetTypes' /\ HomeTrue' /\ SealFits'
      /\ ToldTrue' /\ TokenTrue' /\ LoginTrue' /\ NamesTrue' /\ FolderTrue' /\ AnchorTrue'
      /\ TokensStayHome'
  BY DEF BelongsInv, PlaceTypes, FlagTypes, StepTypes, SetTypes, HomeTrue, SealFits,
     ToldTrue, TokenTrue, LoginTrue, NamesTrue, FolderTrue, AnchorTrue, TokensStayHome,
     Launch, Pointed, Goes
<1>. QED
  BY <1>1 DEF BelongsInv

\* The start compares its address with the seal (has_moved).
LEMMA CompareKeeps ==
  ASSUME BelongsInv, Compare
  PROVE  BelongsInv'
<1>1. FlagTypes' /\ StepTypes' /\ SetTypes' /\ ToldTrue'
  BY DEF BelongsInv, FlagTypes, StepTypes, SetTypes, ToldTrue, Compare, HasMoved, Sealed
<1>2. PlaceTypes'
  BY DEF BelongsInv, PlaceTypes, SetTypes, Compare, HasMoved, Sealed
\* A complete seal names the server the device belongs to, so one that differs is a move; a
\* seal that is not complete cannot tell, and then blind says so.
<1>3. HomeTrue'
  BY DEF BelongsInv, FlagTypes, HomeTrue, SealFits, Compare, HasMoved, Sealed
<1>4. SealFits'
  BY DEF BelongsInv, FlagTypes, SealFits, Compare, HasMoved, Sealed
<1>5. TokenTrue'
  BY DEF BelongsInv, FlagTypes, TokenTrue, Compare, HasMoved, Sealed
<1>6. LoginTrue'
  BY DEF BelongsInv, FlagTypes, LoginTrue, Compare, HasMoved, Sealed
<1>7. NamesTrue'
  BY DEF BelongsInv, FlagTypes, NamesTrue, Compare, HasMoved, Sealed
<1>8. FolderTrue'
  BY DEF BelongsInv, FlagTypes, FolderTrue, Compare, HasMoved, Sealed
<1>9. AnchorTrue'
  BY DEF BelongsInv, FlagTypes, AnchorTrue, Compare, HasMoved, Sealed
<1>10. TokensStayHome'
  BY DEF BelongsInv, FlagTypes, TokensStayHome, Compare, HasMoved, Sealed
<1>. QED
  BY <1>1, <1>2, <1>3, <1>4, <1>5, <1>6, <1>7, <1>8, <1>9, <1>10 DEF BelongsInv

\* An engine for the old addresses (start_afresh).
LEMMA BuildOldKeeps ==
  ASSUME BelongsInv, BuildOld
  PROVE  BelongsInv'
<1>1. /\ PlaceTypes' /\ SetTypes' /\ HomeTrue' /\ SealFits' /\ ToldTrue' /\ TokenTrue'
      /\ LoginTrue' /\ NamesTrue' /\ FolderTrue' /\ AnchorTrue' /\ TokensStayHome'
  BY DEF BelongsInv, PlaceTypes, SetTypes, HomeTrue, SealFits, ToldTrue, TokenTrue,
     LoginTrue, NamesTrue, FolderTrue, AnchorTrue, TokensStayHome, BuildOld, Fault
<1>2. FlagTypes'
  BY Zenon DEF BelongsInv, FlagTypes, BuildOld, Fault
<1>3. StepTypes'
  BY CounterpartAssumption DEF BelongsInv, StepTypes, BuildOld, Fault
<1>. QED
  BY <1>1, <1>2, <1>3 DEF BelongsInv

\* The refresh token goes back to the server of the seal.
LEMMA RevokeOldKeeps ==
  ASSUME BelongsInv, RevokeOld
  PROVE  BelongsInv'
<1>1. /\ PlaceTypes' /\ FlagTypes' /\ StepTypes' /\ HomeTrue' /\ SealFits' /\ ToldTrue'
      /\ TokenTrue' /\ LoginTrue' /\ NamesTrue' /\ FolderTrue' /\ AnchorTrue'
  BY DEF BelongsInv, PlaceTypes, FlagTypes, StepTypes, HomeTrue, SealFits, ToldTrue,
     TokenTrue, LoginTrue, NamesTrue, FolderTrue, AnchorTrue, RevokeOld, Goes
<1>2. SetTypes'
  BY DEF BelongsInv, PlaceTypes, HomeTrue, SetTypes, RevokeOld, Goes
\* The seal names the server the token came from.
<1>3. TokensStayHome'
  BY DEF BelongsInv, HomeTrue, TokenTrue, TokensStayHome, RevokeOld, Goes
<1>. QED
  BY <1>1, <1>2, <1>3 DEF BelongsInv

\* The folder is emptied, or remembered as spared.
LEMMA ClearFolderKeeps ==
  ASSUME BelongsInv, ClearFolder
  PROVE  BelongsInv'
<1>1. /\ PlaceTypes' /\ SetTypes' /\ HomeTrue' /\ SealFits' /\ ToldTrue' /\ TokenTrue'
      /\ LoginTrue' /\ NamesTrue' /\ AnchorTrue' /\ TokensStayHome'
  BY DEF BelongsInv, PlaceTypes, SetTypes, HomeTrue, SealFits, ToldTrue, TokenTrue,
     LoginTrue, NamesTrue, AnchorTrue, TokensStayHome, ClearFolder, Goes, Fault
<1>2. FlagTypes'
  BY Zenon DEF BelongsInv, FlagTypes, ClearFolder, Goes, Fault
<1>3. StepTypes'
  BY CounterpartAssumption DEF BelongsInv, StepTypes, ClearFolder, Goes, Fault
<1>4. FolderTrue'
  BY DEF BelongsInv, FolderTrue, ClearFolder, Goes, Fault
<1>. QED
  BY <1>1, <1>2, <1>3, <1>4 DEF BelongsInv

\* The namespace of the old server goes, or is remembered as kept.
LEMMA EmptyNamesKeeps ==
  ASSUME BelongsInv, EmptyNames
  PROVE  BelongsInv'
<1>1. /\ PlaceTypes' /\ FlagTypes' /\ HomeTrue' /\ SealFits' /\ ToldTrue' /\ TokenTrue'
      /\ AnchorTrue' /\ TokensStayHome'
  BY DEF BelongsInv, PlaceTypes, FlagTypes, HomeTrue, SealFits, ToldTrue, TokenTrue,
     AnchorTrue, TokensStayHome, EmptyNames, Goes, Fault
<1>2. StepTypes'
  BY CounterpartAssumption DEF BelongsInv, StepTypes, EmptyNames, Goes, Fault
<1>3. SetTypes'
  BY DEF BelongsInv, SetTypes, EmptyNames, Goes, Fault
<1>4. NamesTrue'
  BY DEF BelongsInv, NamesTrue, EmptyNames, Goes, Fault
<1>5. LoginTrue'
  BY DEF BelongsInv, LoginTrue, EmptyNames, Goes, Fault
<1>6. FolderTrue'
  BY DEF BelongsInv, FolderTrue, EmptyNames, Goes, Fault
<1>. QED
  BY <1>1, <1>2, <1>3, <1>4, <1>5, <1>6 DEF BelongsInv

\* And so does its login.
LEMMA ClearRowKeeps ==
  ASSUME BelongsInv, ClearRow
  PROVE  BelongsInv'
<1>1. /\ PlaceTypes' /\ FlagTypes' /\ HomeTrue' /\ SealFits' /\ ToldTrue' /\ TokenTrue'
      /\ AnchorTrue' /\ TokensStayHome'
  BY DEF BelongsInv, PlaceTypes, FlagTypes, HomeTrue, SealFits, ToldTrue, TokenTrue,
     AnchorTrue, TokensStayHome, ClearRow, Goes, Fault
<1>2. StepTypes'
  BY CounterpartAssumption DEF BelongsInv, StepTypes, ClearRow, Goes, Fault
<1>3. SetTypes'
  BY DEF BelongsInv, SetTypes, ClearRow, Goes, Fault
<1>4. NamesTrue'
  BY DEF BelongsInv, NamesTrue, ClearRow, Goes, Fault
<1>5. LoginTrue'
  BY DEF BelongsInv, LoginTrue, ClearRow, Goes, Fault
<1>6. FolderTrue'
  BY DEF BelongsInv, FolderTrue, ClearRow, Goes, Fault
<1>. QED
  BY <1>1, <1>2, <1>3, <1>4, <1>5, <1>6 DEF BelongsInv

\* The vault lets go of the token, or is remembered as jammed.
LEMMA ForgetSecretsKeeps ==
  ASSUME BelongsInv, ForgetSecrets
  PROVE  BelongsInv'
<1>1. /\ PlaceTypes' /\ SetTypes' /\ HomeTrue' /\ SealFits' /\ ToldTrue' /\ LoginTrue'
      /\ NamesTrue' /\ FolderTrue' /\ AnchorTrue'
  BY DEF BelongsInv, PlaceTypes, SetTypes, HomeTrue, SealFits, ToldTrue, LoginTrue,
     NamesTrue, FolderTrue, AnchorTrue, ForgetSecrets, Goes, Fault
<1>2. FlagTypes'
  BY Zenon DEF BelongsInv, FlagTypes, ForgetSecrets, Goes, Fault
<1>3. StepTypes'
  BY CounterpartAssumption DEF BelongsInv, StepTypes, ForgetSecrets, Goes, Fault
<1>4. TokenTrue'
  <2>1. CASE token' = Nowhere /\ UNCHANGED jammed
    BY <2>1 DEF BelongsInv, TokenTrue, ForgetSecrets, Goes
  <2>2. CASE jammed' = (jammed \/ token # Nowhere) /\ UNCHANGED token
    BY <2>2 DEF BelongsInv, TokenTrue, ForgetSecrets, Goes
  <2>. QED
    BY <2>1, <2>2 DEF ForgetSecrets
<1>5. TokensStayHome'
  BY DEF BelongsInv, FlagTypes, TokensStayHome, ForgetSecrets, Goes, Fault
<1>. QED
  BY <1>1, <1>2, <1>3, <1>4, <1>5 DEF BelongsInv

\* With the mark the device leaves the old server.
LEMMA DropMarkKeeps ==
  ASSUME BelongsInv, DropMark
  PROVE  BelongsInv'
<1>1. /\ PlaceTypes' /\ StepTypes' /\ SetTypes' /\ HomeTrue' /\ SealFits' /\ ToldTrue'
      /\ TokenTrue' /\ LoginTrue' /\ NamesTrue' /\ FolderTrue' /\ AnchorTrue'
      /\ TokensStayHome'
  BY DEF BelongsInv, PlaceTypes, StepTypes, SetTypes, HomeTrue, SealFits, ToldTrue,
     TokenTrue, LoginTrue, NamesTrue, FolderTrue, AnchorTrue, TokensStayHome, DropMark, Goes
<1>2. FlagTypes'
  BY Zenon DEF BelongsInv, FlagTypes, DropMark, Goes
<1>. QED
  BY <1>1, <1>2 DEF BelongsInv

\* The key set follows the mark.
LEMMA DropKeysKeeps ==
  ASSUME BelongsInv, DropKeys
  PROVE  BelongsInv'
<1>1. /\ PlaceTypes' /\ FlagTypes' /\ StepTypes' /\ SetTypes' /\ HomeTrue' /\ SealFits'
      /\ ToldTrue' /\ TokenTrue' /\ LoginTrue' /\ NamesTrue' /\ FolderTrue' /\ AnchorTrue'
      /\ TokensStayHome'
  BY DEF BelongsInv, PlaceTypes, FlagTypes, StepTypes, SetTypes, HomeTrue, SealFits,
     ToldTrue, TokenTrue, LoginTrue, NamesTrue, FolderTrue, AnchorTrue, TokensStayHome,
     DropKeys, Goes
<1>. QED
  BY <1>1 DEF BelongsInv

\* The note of the move.
LEMMA NoteMoveKeeps ==
  ASSUME BelongsInv, NoteMove
  PROVE  BelongsInv'
<1>1. /\ PlaceTypes' /\ FlagTypes' /\ StepTypes' /\ SetTypes' /\ HomeTrue' /\ SealFits'
      /\ ToldTrue' /\ TokenTrue' /\ LoginTrue' /\ NamesTrue' /\ FolderTrue' /\ AnchorTrue'
      /\ TokensStayHome'
  BY DEF BelongsInv, PlaceTypes, FlagTypes, StepTypes, SetTypes, HomeTrue, SealFits,
     ToldTrue, TokenTrue, LoginTrue, NamesTrue, FolderTrue, AnchorTrue, TokensStayHome,
     NoteMove, Goes
<1>. QED
  BY <1>1 DEF BelongsInv

\* The set-up is owed again.
LEMMA ReopenSetupKeeps ==
  ASSUME BelongsInv, ReopenSetup
  PROVE  BelongsInv'
<1>1. /\ PlaceTypes' /\ StepTypes' /\ SetTypes' /\ HomeTrue' /\ SealFits' /\ ToldTrue'
      /\ TokenTrue' /\ LoginTrue' /\ NamesTrue' /\ FolderTrue' /\ AnchorTrue'
      /\ TokensStayHome'
  BY DEF BelongsInv, PlaceTypes, StepTypes, SetTypes, HomeTrue, SealFits, ToldTrue,
     TokenTrue, LoginTrue, NamesTrue, FolderTrue, AnchorTrue, TokensStayHome, ReopenSetup,
     Goes
<1>2. FlagTypes'
  BY Zenon DEF BelongsInv, FlagTypes, ReopenSetup, Goes
<1>. QED
  BY <1>1, <1>2 DEF BelongsInv

\* The addresses are sealed one after the other.
LEMMA WriteSealKeeps ==
  ASSUME BelongsInv, WriteSeal
  PROVE  BelongsInv'
<1>1. /\ PlaceTypes' /\ FlagTypes' /\ StepTypes' /\ HomeTrue' /\ ToldTrue' /\ TokenTrue'
      /\ LoginTrue' /\ NamesTrue' /\ FolderTrue' /\ AnchorTrue' /\ TokensStayHome'
  BY DEF BelongsInv, PlaceTypes, FlagTypes, StepTypes, HomeTrue, ToldTrue, TokenTrue,
     LoginTrue, NamesTrue, FolderTrue, AnchorTrue, TokensStayHome, WriteSeal, Goes, SealStep
<1>2. SetTypes'
  BY DEF BelongsInv, PlaceTypes, SetTypes, WriteSeal, Goes, SealStep
\* An enrolled device that did not move starts at the server it belongs to.
<1>3. SealFits'
  BY DEF BelongsInv, SetTypes, HomeTrue, SealFits, WriteSeal, Goes, SealStep
<1>. QED
  BY <1>1, <1>2, <1>3 DEF BelongsInv

\* The engine runs once all three are sealed.
LEMMA StartEngineKeeps ==
  ASSUME BelongsInv, StartEngine
  PROVE  BelongsInv'
<1>1. /\ PlaceTypes' /\ SetTypes' /\ HomeTrue' /\ SealFits' /\ ToldTrue' /\ TokenTrue'
      /\ LoginTrue' /\ NamesTrue' /\ FolderTrue' /\ AnchorTrue' /\ TokensStayHome'
  BY DEF BelongsInv, PlaceTypes, SetTypes, HomeTrue, SealFits, ToldTrue, TokenTrue,
     LoginTrue, NamesTrue, FolderTrue, AnchorTrue, TokensStayHome, StartEngine, Fault
<1>2. FlagTypes'
  BY Zenon DEF BelongsInv, FlagTypes, StartEngine, Fault
<1>3. StepTypes'
  BY CounterpartAssumption DEF BelongsInv, StepTypes, StartEngine, Fault
<1>. QED
  BY <1>1, <1>2, <1>3 DEF BelongsInv

\* An enrolled device asks for its token at once.
LEMMA AlreadyEnrolledKeeps ==
  ASSUME BelongsInv, AlreadyEnrolled
  PROVE  BelongsInv'
<1>1. /\ PlaceTypes' /\ FlagTypes' /\ StepTypes' /\ SetTypes' /\ HomeTrue' /\ SealFits'
      /\ ToldTrue' /\ TokenTrue' /\ LoginTrue' /\ NamesTrue' /\ FolderTrue' /\ AnchorTrue'
      /\ TokensStayHome'
  BY DEF BelongsInv, PlaceTypes, FlagTypes, StepTypes, SetTypes, HomeTrue, SealFits,
     ToldTrue, TokenTrue, LoginTrue, NamesTrue, FolderTrue, AnchorTrue, TokensStayHome,
     AlreadyEnrolled, Goes
<1>. QED
  BY <1>1 DEF BelongsInv

\* A call of the sign-in fails.
LEMMA GivesUpKeeps ==
  ASSUME BelongsInv, GivesUp
  PROVE  BelongsInv'
<1>1. /\ PlaceTypes' /\ FlagTypes' /\ SetTypes' /\ HomeTrue' /\ SealFits' /\ ToldTrue'
      /\ TokenTrue' /\ LoginTrue' /\ NamesTrue' /\ FolderTrue' /\ AnchorTrue'
      /\ TokensStayHome'
  BY DEF BelongsInv, PlaceTypes, FlagTypes, SetTypes, HomeTrue, SealFits, ToldTrue,
     TokenTrue, LoginTrue, NamesTrue, FolderTrue, AnchorTrue, TokensStayHome, GivesUp, Goes,
     Fault
<1>2. StepTypes'
  BY CounterpartAssumption DEF BelongsInv, StepTypes, GivesUp, Goes, Fault
<1>. QED
  BY <1>1, <1>2 DEF BelongsInv

\* The answer to the enrolment anchors the key set of this server, if any.
LEMMA EnrolKeeps ==
  ASSUME BelongsInv, NEW c \in BOOLEAN, Enrol(c)
  PROVE  BelongsInv'
<1>1. /\ PlaceTypes' /\ FlagTypes' /\ StepTypes' /\ SetTypes' /\ HomeTrue' /\ SealFits'
      /\ ToldTrue' /\ TokenTrue' /\ LoginTrue' /\ NamesTrue' /\ FolderTrue'
      /\ TokensStayHome'
  BY DEF BelongsInv, PlaceTypes, FlagTypes, StepTypes, SetTypes, HomeTrue, SealFits,
     ToldTrue, TokenTrue, LoginTrue, NamesTrue, FolderTrue, TokensStayHome, Enrol, Goes
\* An answer with another key set than the anchored one is refused.
<1>2. AnchorTrue'
  BY DEF BelongsInv, HomeTrue, AnchorTrue, Enrol, Goes
<1>. QED
  BY <1>1, <1>2 DEF BelongsInv

\* From here on the device belongs to this server; a mark that is not written leaves the
\* key set, and the process goes on.
LEMMA MarkEnrolledKeeps ==
  ASSUME BelongsInv, MarkEnrolled
  PROVE  BelongsInv'
<1>1. /\ PlaceTypes' /\ SealFits' /\ TokensStayHome'
  BY DEF BelongsInv, PlaceTypes, SealFits, TokensStayHome, MarkEnrolled, Goes, Fault
<1>2. FlagTypes'
  BY Zenon DEF BelongsInv, FlagTypes, MarkEnrolled, Goes, Fault
<1>3. StepTypes'
  BY CounterpartAssumption DEF BelongsInv, StepTypes, MarkEnrolled, Goes, Fault
<1>4. SetTypes'
  BY DEF BelongsInv, SetTypes, MarkEnrolled, Goes, Fault
<1>5. HomeTrue'
  BY DEF BelongsInv, HomeTrue, MarkEnrolled, Goes, Fault
<1>6. TokenTrue'
  BY DEF BelongsInv, HomeTrue, TokenTrue, MarkEnrolled, Goes, Fault
<1>7. LoginTrue'
  BY DEF BelongsInv, HomeTrue, LoginTrue, MarkEnrolled, Goes, Fault
<1>8. NamesTrue'
  BY CounterpartAssumption DEF BelongsInv, SetTypes, HomeTrue, NamesTrue, MarkEnrolled,
     Goes, Fault
<1>9. FolderTrue'
  BY CounterpartAssumption DEF BelongsInv, SetTypes, HomeTrue, FolderTrue, MarkEnrolled,
     Goes, Fault
<1>10. AnchorTrue'
  BY DEF BelongsInv, HomeTrue, AnchorTrue, MarkEnrolled, Goes, Fault
<1>11. ToldTrue'
  BY DEF BelongsInv, ToldTrue, MarkEnrolled, Goes, Fault
<1>. QED
  BY <1>1, <1>2, <1>3, <1>4, <1>5, <1>6, <1>7, <1>8, <1>9, <1>10, <1>11 DEF BelongsInv

\* Only the own server gives a device token.
LEMMA FetchDeviceTokenKeeps ==
  ASSUME BelongsInv, FetchDeviceToken
  PROVE  BelongsInv'
<1>1. /\ PlaceTypes' /\ FlagTypes' /\ StepTypes' /\ SealFits' /\ ToldTrue' /\ TokenTrue'
      /\ AnchorTrue' /\ TokensStayHome'
  BY DEF BelongsInv, PlaceTypes, FlagTypes, StepTypes, SealFits, ToldTrue, TokenTrue,
     AnchorTrue, TokensStayHome, FetchDeviceToken, Goes
<1>2. SetTypes'
  BY DEF BelongsInv, SetTypes, FetchDeviceToken, Goes
<1>3. HomeTrue'
  BY DEF BelongsInv, HomeTrue, FetchDeviceToken, Goes
<1>4. LoginTrue'
  BY DEF BelongsInv, LoginTrue, FetchDeviceToken, Goes
<1>5. NamesTrue'
  BY DEF BelongsInv, NamesTrue, FetchDeviceToken, Goes
<1>6. FolderTrue'
  BY DEF BelongsInv, FolderTrue, FetchDeviceToken, Goes
<1>. QED
  BY <1>1, <1>2, <1>3, <1>4, <1>5, <1>6 DEF BelongsInv

\* The stored token is presented to the server of this run.
LEMMA RenewKeeps ==
  ASSUME BelongsInv, Renew
  PROVE  BelongsInv'
<1>1. /\ PlaceTypes' /\ FlagTypes' /\ StepTypes' /\ HomeTrue' /\ SealFits' /\ ToldTrue'
      /\ TokenTrue' /\ NamesTrue' /\ FolderTrue' /\ AnchorTrue'
  BY DEF BelongsInv, PlaceTypes, FlagTypes, StepTypes, HomeTrue, SealFits, ToldTrue,
     TokenTrue, NamesTrue, FolderTrue, AnchorTrue, Renew, Goes
<1>2. SetTypes'
  BY DEF BelongsInv, PlaceTypes, HomeTrue, SetTypes, Renew, Goes
\* A login that is renewed belongs to a device that is enrolled, here.
<1>3. LoginTrue'
  BY DEF BelongsInv, HomeTrue, LoginTrue, Renew, Goes
\* An engine runs only for the server the device belongs to.
<1>4. TokensStayHome'
  BY DEF BelongsInv, HomeTrue, TokenTrue, TokensStayHome, Renew, Goes
<1>. QED
  BY <1>1, <1>2, <1>3, <1>4 DEF BelongsInv

\* A login brings token and session of this server, or the token alone.
LEMMA DeviceLoginKeeps ==
  ASSUME BelongsInv, DeviceLogin
  PROVE  BelongsInv'
<1>1. /\ PlaceTypes' /\ FlagTypes' /\ HomeTrue' /\ SealFits' /\ ToldTrue' /\ AnchorTrue'
      /\ TokensStayHome'
  BY DEF BelongsInv, PlaceTypes, FlagTypes, HomeTrue, SealFits, ToldTrue, AnchorTrue,
     TokensStayHome, DeviceLogin, Goes, Fault
<1>2. StepTypes'
  BY CounterpartAssumption DEF BelongsInv, StepTypes, DeviceLogin, Goes, Fault
<1>3. SetTypes'
  BY DEF BelongsInv, SetTypes, DeviceLogin, Goes, Fault
<1>4. TokenTrue'
  BY DEF BelongsInv, HomeTrue, TokenTrue, DeviceLogin, Goes, Fault
<1>5. LoginTrue'
  BY DEF BelongsInv, HomeTrue, LoginTrue, DeviceLogin, Goes, Fault
<1>6. NamesTrue'
  BY DEF BelongsInv, NamesTrue, DeviceLogin, Goes, Fault
<1>7. FolderTrue'
  BY DEF BelongsInv, FolderTrue, DeviceLogin, Goes, Fault
<1>. QED
  BY <1>1, <1>2, <1>3, <1>4, <1>5, <1>6, <1>7 DEF BelongsInv

\* The sign-in begins again.
LEMMA SignInAgainKeeps ==
  ASSUME BelongsInv, SignInAgain
  PROVE  BelongsInv'
<1>1. /\ PlaceTypes' /\ FlagTypes' /\ StepTypes' /\ SetTypes' /\ HomeTrue' /\ SealFits'
      /\ ToldTrue' /\ TokenTrue' /\ LoginTrue' /\ NamesTrue' /\ FolderTrue' /\ AnchorTrue'
      /\ TokensStayHome'
  BY DEF BelongsInv, PlaceTypes, FlagTypes, StepTypes, SetTypes, HomeTrue, SealFits,
     ToldTrue, TokenTrue, LoginTrue, NamesTrue, FolderTrue, AnchorTrue, TokensStayHome,
     SignInAgain, Goes
<1>. QED
  BY <1>1 DEF BelongsInv

\* The beat stores what the server of this run offers.
LEMMA ReconcileKeeps ==
  ASSUME BelongsInv, Reconcile
  PROVE  BelongsInv'
<1>1. /\ PlaceTypes' /\ FlagTypes' /\ StepTypes' /\ HomeTrue' /\ SealFits' /\ ToldTrue'
      /\ TokenTrue' /\ AnchorTrue' /\ TokensStayHome'
  BY DEF BelongsInv, PlaceTypes, FlagTypes, StepTypes, HomeTrue, SealFits, ToldTrue,
     TokenTrue, AnchorTrue, TokensStayHome, Reconcile
<1>2. SetTypes'
  BY DEF BelongsInv, PlaceTypes, HomeTrue, SetTypes, Reconcile
<1>3. LoginTrue'
  BY DEF BelongsInv, LoginTrue, Reconcile
<1>4. NamesTrue'
  BY DEF BelongsInv, HomeTrue, NamesTrue, Reconcile
<1>5. FolderTrue'
  BY DEF BelongsInv, HomeTrue, NamesTrue, FolderTrue, Reconcile
<1>. QED
  BY <1>1, <1>2, <1>3, <1>4, <1>5 DEF BelongsInv

\* The folder shows what the store holds.
LEMMA ChildrenKeeps ==
  ASSUME BelongsInv, Children
  PROVE  BelongsInv'
<1>1. /\ PlaceTypes' /\ FlagTypes' /\ StepTypes' /\ SetTypes' /\ HomeTrue' /\ SealFits'
      /\ ToldTrue' /\ TokenTrue' /\ LoginTrue' /\ NamesTrue' /\ AnchorTrue' /\ TokensStayHome'
  BY DEF BelongsInv, PlaceTypes, FlagTypes, StepTypes, SetTypes, HomeTrue, SealFits,
     ToldTrue, TokenTrue, LoginTrue, NamesTrue, AnchorTrue, TokensStayHome, Children
<1>2. FolderTrue'
  BY DEF BelongsInv, NamesTrue, FolderTrue, Children
<1>. QED
  BY <1>1, <1>2 DEF BelongsInv

\* A sign-out hands back the token and clears what it can.
LEMMA SignOutKeeps ==
  ASSUME BelongsInv, SignOut
  PROVE  BelongsInv'
<1>1. PICK failed \in SUBSET {"folder", "names", "login", "token"} :
        /\ IF failed = {} THEN UNCHANGED faults ELSE Fault
        /\ folder' = IF connected /\ "folder" \notin failed THEN {} ELSE folder
        /\ names' = IF "names" \in failed THEN names ELSE {}
        /\ login' = IF "login" \in failed THEN login ELSE Nowhere
        /\ token' = IF "token" \in failed THEN token ELSE Nowhere
        /\ kept' = kept \cap failed
  BY Zenon DEF SignOut
<1>2. PlaceTypes' /\ HomeTrue' /\ SealFits' /\ ToldTrue' /\ TokenTrue' /\ AnchorTrue'
  BY <1>1 DEF BelongsInv, PlaceTypes, HomeTrue, SealFits, ToldTrue, TokenTrue, AnchorTrue, SignOut
<1>3. FlagTypes'
  BY Zenon DEF BelongsInv, FlagTypes, SignOut
<1>4. StepTypes'
  BY <1>1, CounterpartAssumption DEF BelongsInv, StepTypes, SignOut, Fault
<1>5. SetTypes'
  BY <1>1 DEF BelongsInv, PlaceTypes, HomeTrue, SetTypes, SignOut
\* What is not cleared belongs where it did.
<1>6. LoginTrue'
  BY <1>1 DEF BelongsInv, LoginTrue, SignOut
<1>7. NamesTrue'
  BY <1>1 DEF BelongsInv, NamesTrue, SignOut
<1>8. FolderTrue'
  BY <1>1 DEF BelongsInv, FlagTypes, FolderTrue, SignOut
<1>9. TokensStayHome'
  BY DEF BelongsInv, HomeTrue, TokenTrue, TokensStayHome, SignOut
<1>. QED
  BY <1>2, <1>3, <1>4, <1>5, <1>6, <1>7, <1>8, <1>9 DEF BelongsInv

\* A start that is cut off remembers what it left undone.
LEMMA StopKeeps ==
  ASSUME BelongsInv, Stop
  PROVE  BelongsInv'
<1>1. /\ PlaceTypes' /\ SetTypes' /\ HomeTrue' /\ SealFits' /\ ToldTrue' /\ TokenTrue'
      /\ LoginTrue' /\ NamesTrue' /\ FolderTrue' /\ AnchorTrue' /\ TokensStayHome'
  BY DEF BelongsInv, PlaceTypes, SetTypes, HomeTrue, SealFits, ToldTrue, TokenTrue,
     LoginTrue, NamesTrue, FolderTrue, AnchorTrue, TokensStayHome, Stop, Ends, Fault
<1>2. FlagTypes'
  BY Zenon DEF BelongsInv, FlagTypes, Stop, Ends, Fault
<1>3. StepTypes'
  BY CounterpartAssumption DEF BelongsInv, StepTypes, Stop, Ends, Fault
<1>. QED
  BY <1>1, <1>2, <1>3 DEF BelongsInv

\* And so does a process that ends between key set and mark.
LEMMA QuitKeeps ==
  ASSUME BelongsInv, Quit
  PROVE  BelongsInv'
<1>1. /\ PlaceTypes' /\ StepTypes' /\ SetTypes' /\ HomeTrue' /\ SealFits' /\ ToldTrue'
      /\ TokenTrue' /\ LoginTrue' /\ NamesTrue' /\ FolderTrue' /\ AnchorTrue'
      /\ TokensStayHome'
  BY DEF BelongsInv, PlaceTypes, StepTypes, SetTypes, HomeTrue, SealFits, ToldTrue,
     TokenTrue, LoginTrue, NamesTrue, FolderTrue, AnchorTrue, TokensStayHome, Quit, Ends
<1>2. FlagTypes'
  BY Zenon DEF BelongsInv, FlagTypes, Quit, Ends
<1>. QED
  BY <1>1, <1>2 DEF BelongsInv

-----------------------------------------------------------------------------
\* A fresh workstation owns nothing; one that was enrolled before there was a seal owns what
\* came from its server.
LEMMA InitBelongs == Init => BelongsInv
<1> SUFFICES ASSUME Init PROVE BelongsInv
  OBVIOUS
<1>1. PlaceTypes /\ FlagTypes
  BY DEF Init, PlaceTypes, FlagTypes
<1>2. StepTypes /\ SetTypes
  BY CounterpartAssumption DEF Init, StepTypes, SetTypes
<1>3. HomeTrue /\ SealFits /\ ToldTrue
  BY DEF Init, HomeTrue, SealFits, ToldTrue
<1>4. TokenTrue /\ LoginTrue /\ NamesTrue /\ FolderTrue /\ AnchorTrue /\ TokensStayHome
  BY DEF Init, TokenTrue, LoginTrue, NamesTrue, FolderTrue, AnchorTrue, TokensStayHome
<1>. QED
  BY <1>1, <1>2, <1>3, <1>4 DEF BelongsInv

\* Every step keeps the invariant.
LEMMA NextBelongs == BelongsInv /\ [Next]_vars => BelongsInv'
<1> SUFFICES ASSUME BelongsInv, [Next]_vars PROVE BelongsInv'
  OBVIOUS
<1>1. CASE (\E s \in Place : Repoint(s)) \/ (\E s \in Servers : Type(s))
  BY <1>1, RepointKeeps, TypeKeeps
<1>2. CASE WalkedThrough \/ WalkedThroughWaiting \/ Launch \/ Compare
  BY <1>2, WalkedThroughKeeps, WalkedThroughWaitingKeeps, LaunchKeeps, CompareKeeps
<1>3. CASE Move
  BY <1>3, BuildOldKeeps, RevokeOldKeeps, ClearFolderKeeps, EmptyNamesKeeps, ClearRowKeeps,
     ForgetSecretsKeeps, DropMarkKeeps, DropKeysKeeps, NoteMoveKeeps, ReopenSetupKeeps DEF Move
<1>4. CASE WriteSeal \/ StartEngine
  BY <1>4, WriteSealKeeps, StartEngineKeeps
<1>5. CASE AlreadyEnrolled \/ GivesUp \/ (\E c \in BOOLEAN : Enrol(c)) \/ MarkEnrolled
  BY <1>5, AlreadyEnrolledKeeps, GivesUpKeeps, EnrolKeeps, MarkEnrolledKeeps
<1>6. CASE FetchDeviceToken \/ Renew \/ DeviceLogin \/ SignInAgain
  BY <1>6, FetchDeviceTokenKeeps, RenewKeeps, DeviceLoginKeeps, SignInAgainKeeps
<1>7. CASE Reconcile \/ Children \/ SignOut \/ Stop \/ Quit
  BY <1>7, ReconcileKeeps, ChildrenKeeps, SignOutKeeps, StopKeeps, QuitKeeps
<1>8. CASE UNCHANGED vars
  <2>1. PlaceTypes' /\ FlagTypes' /\ StepTypes' /\ SetTypes'
    BY <1>8 DEF BelongsInv, PlaceTypes, FlagTypes, StepTypes, SetTypes
  <2>2. HomeTrue' /\ SealFits' /\ ToldTrue' /\ TokenTrue' /\ LoginTrue'
    BY <1>8 DEF BelongsInv, HomeTrue, SealFits, ToldTrue, TokenTrue, LoginTrue
  <2>3. NamesTrue' /\ FolderTrue' /\ AnchorTrue' /\ TokensStayHome'
    BY <1>8 DEF BelongsInv, NamesTrue, FolderTrue, AnchorTrue, TokensStayHome
  <2>. QED
    BY <2>1, <2>2, <2>3 DEF BelongsInv
<1>. QED
  BY <1>1, <1>2, <1>3, <1>4, <1>5, <1>6, <1>7, <1>8 DEF Next

\* The invariant holds in every state.
THEOREM BelongsInvariant == Spec => []BelongsInv
BY InitBelongs, NextBelongs, PTL DEF Spec

\* No start raises a false alarm, an engine runs under the whole seal, and a move is told of
\* (same_server and has_moved in setup.rs).
THEOREM MoveHolds == Spec => []MoveInv
<1>1. BelongsInv => MoveInv
  <2> SUFFICES ASSUME BelongsInv PROVE MoveInv
    OBVIOUS
  <2>1. TypeOK
    BY DEF BelongsInv, PlaceTypes, FlagTypes, StepTypes, SetTypes, TypeOK
  <2>2. NoFalseAlarm
    BY DEF BelongsInv, HomeTrue, NoFalseAlarm
  <2>3. SealTrue
    BY DEF BelongsInv, SealFits, SealTrue
  <2>4. MoveIsTold
    BY DEF BelongsInv, ToldTrue, MoveIsTold
  <2>. QED
    BY <2>1, <2>2, <2>3, <2>4 DEF MoveInv
<1>. QED
  BY <1>1, BelongsInvariant, PTL

\* A refresh token is presented only where it came from (start_afresh, sign_out).
THEOREM TokensAtHome == Spec => []TokensStayHome
<1>1. BelongsInv => TokensStayHome
  BY DEF BelongsInv
<1>. QED
  BY <1>1, BelongsInvariant, PTL

\* While an engine runs for one server nothing of another is left but what a failed step or
\* a stop has left (start_afresh, clear_after_sign_out, place_device_safe).
THEOREM NothingForeign == Spec => []KeepsToItsOwn
<1>1. BelongsInv => KeepsToItsOwn
  <2> SUFFICES ASSUME BelongsInv, at \in Running, ~blind
               PROVE  /\ login \in {here, Nowhere} \/ "login" \in kept
                      /\ names \subseteq {here} \/ "names" \in kept
                      /\ folder \subseteq {here} \/ spared \/ "names" \in kept
                      /\ anchor \in {here, Nowhere} \/ "keys" \in cut
    BY DEF KeepsToItsOwn
  <2>1. home \in {here, Nowhere}
    BY DEF BelongsInv, HomeTrue
  <2>2. login \in {here, Nowhere} \/ "login" \in kept
    BY <2>1 DEF BelongsInv, LoginTrue
  <2>3. names \subseteq {here} \/ "names" \in kept
    BY <2>1, CounterpartAssumption DEF BelongsInv, NamesTrue, SetTypes
  <2>4. folder \subseteq {here} \/ spared \/ "names" \in kept
    BY <2>1, CounterpartAssumption DEF BelongsInv, FolderTrue, SetTypes
  <2>5. anchor \in {here, Nowhere} \/ "keys" \in cut
    BY <2>1 DEF BelongsInv, AnchorTrue
  <2>. QED
    BY <2>2, <2>3, <2>4, <2>5
<1>. QED
  BY <1>1, BelongsInvariant, PTL
=============================================================================
