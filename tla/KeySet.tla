-------------------------------- MODULE KeySet --------------------------------
(***************************************************************************)
(* The anchored key set of a device (crypto/src/key_set.rs), from the      *)
(* enrolment that anchors it (engine/src/session.rs) over the approval that*)
(* confirms it to the REFRESH_KEYS commands that carry it on               *)
(* (engine/src/delivery.rs).                                               *)
(*                                                                         *)
(* The server publishes keys, anchors and revocations one after another;   *)
(* the number of its publications is its keySetVersion and its clock.  An  *)
(* answer may be an older one, or leave something out.  A command is known *)
(* by the key it was signed with and the time of its signature; it may     *)
(* come at any later time, in any order.                                   *)
(*                                                                         *)
(* Left out: statements of another tenant, of the wrong role or with a     *)
(* thumbprint or signature that does not hold (each is refused for itself),*)
(* the anchors that wait for a counter-signature (they have no effect),    *)
(* the hints about the next refresh.                                       *)
(***************************************************************************)
EXTENDS Naturals, Sequences, FiniteSets

CONSTANTS Anchors,     \* kids of trust anchors
          First,       \* the anchors the server begins with
          Keys,        \* kids of evidence keys
          FirstKey,    \* the evidence key the server begins with
          Nobody,      \* no signer: serverSignature is null
          Life,        \* how long an evidence key is valid
          MaxVersion,  \* bound: publications
          MaxFaults    \* bound: lost answers and stops

ASSUME KeySetAssumption ==
  /\ First \subseteq Anchors /\ First # {} /\ IsFiniteSet(Anchors)
  /\ FirstKey \in Keys
  /\ Anchors \cap Keys = {}
  /\ Nobody \notin Anchors
  /\ Life \in Nat \ {0} /\ MaxVersion \in Nat \ {0} /\ MaxFaults \in Nat

VARIABLES
  offers,     \* server: what it has published, by keySetVersion
  registered, \* server: it knows the device
  approved,   \* server: a human has approved the device
  set,        \* the stored key set
  enrolled,   \* the setting "enrolled"
  step,       \* how far the sign-in is
  answer,     \* the answer to the enrolment that is being worked on: a version, 0 without a block
  faults

publisherVars == <<offers, registered, approved>>
signInVars == <<enrolled, step, answer>>
keySetVars == <<publisherVars, set, signInVars, faults>>

AnchorEntry == [kid : Anchors, by : Anchors \cup {Nobody}]
KeyEntry == [kid : Keys, by : Anchors, from : Nat]
Revocation == [kid : Anchors \cup Keys, by : Anchors, retroactive : BOOLEAN, since : Nat]
KeyOffer == [anchors : SUBSET AnchorEntry, keys : SUBSET KeyEntry, revoke : SUBSET Revocation]
AnchorState == {"none", "pending_confirmation", "confirmed", "revoked"}

Version == Len(offers)
Kids(entries) == {e.kid : e \in entries}

KeySetTypeOK ==
  /\ offers \in Seq(KeyOffer) /\ Version \in 1 .. MaxVersion
  /\ registered \in BOOLEAN /\ approved \in BOOLEAN
  /\ set \in [state : AnchorState, version : 0 .. Version, anchors : SUBSET AnchorEntry,
              keys : SUBSET KeyEntry, revoke : SUBSET Revocation]
  /\ enrolled \in BOOLEAN
  /\ step \in {"idle", "answered", "anchored", "token"}
  /\ answer \in 0 .. Version
  /\ faults \in 0 .. MaxFaults

KeySetInit ==
  /\ \E a \in First :
       offers = << [anchors |-> {[kid |-> b, by |-> Nobody] : b \in First},
                    keys |-> {[kid |-> FirstKey, by |-> a, from |-> 1]},
                    revoke |-> {}] >>
  /\ registered = FALSE /\ approved = FALSE
  /\ set = [state |-> "none", version |-> 0, anchors |-> {}, keys |-> {}, revoke |-> {}]
  /\ enrolled = FALSE
  /\ step = "idle"
  /\ answer = 0
  /\ faults = 0

Fault == faults < MaxFaults /\ faults' = faults + 1

-------------------------------------------------------------------------------
(***************************************************************************)
(* The rules of the set.                                                   *)
(***************************************************************************)
RevokedIn(revoke, kid) == \E r \in revoke : r.kid = kid /\ r.retroactive

\* AnchorVerifier::check_statement: a stored anchor signed, not the key itself, and it is not
\* revoked on suspicion
Vouches(anchors, revoke, entry) ==
  /\ entry.by # entry.kid
  /\ entry.by \in Kids(anchors)
  /\ ~RevokedIn(revoke, entry.by)

\* what of the offered entries is new and holds
Accepted(stored, offered, anchors, revoke) ==
  {e \in offered : e.kid \notin Kids(stored) /\ Vouches(anchors, revoke, e)}

\* merge: what is stored stays, what is new is added by kid
Merge(stored, new) == stored \cup {e \in new : e.kid \notin Kids(stored)}

anchor_applies(s, kid) == kid \in Kids(s.anchors) /\ ~RevokedIn(s.revoke, kid)
NoneApplies(s) == \A a \in Kids(s.anchors) : ~anchor_applies(s, a)

with_revocation_state(s) ==
  IF s.anchors # {} /\ NoneApplies(s) THEN [s EXCEPT !.state = "revoked"] ELSE s

carries(s) == s.state = "confirmed" /\ ~NoneApplies(s)

\* anchor: an anchored set takes only the same anchors again
Anchorable(s, o) == s.anchors = {} \/ Kids(s.anchors) = Kids(o.anchors)

Larger(a, b) == IF a > b THEN a ELSE b

Anchored(s, o, version) ==
  with_revocation_state(
    [state |-> IF s.anchors = {} THEN "pending_confirmation" ELSE s.state,
     version |-> Larger(s.version, version),
     anchors |-> IF s.anchors = {} THEN o.anchors ELSE s.anchors,
     keys |-> Merge(s.keys, Accepted(s.keys, o.keys, o.anchors, {})),
     revoke |-> Merge(s.revoke, Accepted(s.revoke, o.revoke, o.anchors, {}))])

\* Mutant: what the answer does not name any more goes
Adopted_Replaced(s, o, version) ==
  with_revocation_state(
    [s EXCEPT !.version = version,
              !.anchors = Merge(@, Accepted(@, o.anchors, s.anchors, s.revoke)),
              !.keys = Merge(@, Accepted(@, o.keys, s.anchors, s.revoke)),
              !.revoke = Accepted({}, o.revoke, s.anchors, s.revoke)])

\* adopt, of an answer that is not refused as a whole
Adopted(s, o, version) ==
  with_revocation_state(
    [s EXCEPT !.version = version,
              !.anchors = Merge(@, Accepted(@, o.anchors, s.anchors, s.revoke)),
              !.keys = Merge(@, Accepted(@, o.keys, s.anchors, s.revoke)),
              !.revoke = Merge(@, Accepted(@, o.revoke, s.anchors, s.revoke))])

InWindow(e, at) == e.from <= at /\ at < e.from + Life

voided(r, at) == r.retroactive /\ at >= r.since

\* check_carrier: the whole chain, as of the time of the signature
Holds(s, kid, at) ==
  /\ carries(s)
  /\ \E e \in s.keys : /\ e.kid = kid
                       /\ Vouches(s.anchors, s.revoke, e)
                       /\ InWindow(e, at)
  /\ ~\E r \in s.revoke : r.kid = kid /\ voided(r, at)

-------------------------------------------------------------------------------
(***************************************************************************)
(* The server.  It signs, publishes and revokes with what it has published *)
(* and not revoked itself; the latest revocation of a key is the one it    *)
(* names.                                                                  *)
(***************************************************************************)
Now == offers[Version]
InForce(o, kid) == ~\E r \in o.revoke : r.kid = kid
Signing(o) == {a \in Kids(o.anchors) : InForce(o, a)}

Publishes(o) ==
  /\ Version < MaxVersion
  /\ offers' = Append(offers, o)
  /\ UNCHANGED <<registered, approved, set, signInVars, faults>>

PublishesKey(k, a) ==
  /\ k \notin Kids(Now.keys) /\ a \in Signing(Now)
  /\ Publishes([Now EXCEPT !.keys = @ \cup {[kid |-> k, by |-> a, from |-> Version + 1]}])

\* a new anchor, counter-signed or not, or the counter-signature for one that waits
PublishesAnchor(b, a) ==
  /\ a \in Signing(Now) \cup {Nobody} /\ a # b
  /\ b \in Kids(Now.anchors) => a # Nobody /\ [kid |-> b, by |-> Nobody] \in Now.anchors
  /\ b \notin First
  /\ Publishes([Now EXCEPT !.anchors = {e \in @ : e.kid # b} \cup {[kid |-> b, by |-> a]}])

\* since: the time of the compromise, 0 if it is not known or nothing is suspected
Revokes(kid, a, retroactive, since) ==
  /\ kid \in Kids(Now.anchors) \cup Kids(Now.keys)
  /\ ~RevokedIn(Now.revoke, kid)
  /\ a \in Signing(Now) \ {kid}
  /\ since <= Version /\ (retroactive \/ since = 0)
  /\ Publishes([Now EXCEPT !.revoke = {r \in @ : r.kid # kid} \cup
                  {[kid |-> kid, by |-> a, retroactive |-> retroactive, since |-> since]}])

\* the last two anchors by each other, in one publication: the only way to revoke them all
RevokesAll(a, b) ==
  /\ a # b /\ Signing(Now) = {a, b}
  /\ Publishes([Now EXCEPT !.revoke = {r \in @ : r.kid \notin {a, b}} \cup
                  {[kid |-> kid, by |-> IF kid = a THEN b ELSE a, retroactive |-> TRUE, since |-> 0] :
                     kid \in {a, b}}])

\* what the server can have signed a command with at a time of its clock
Signed(kid, at) ==
  LET o == offers[at] IN
  \E e \in o.keys : /\ e.kid = kid /\ InWindow(e, at)
                    /\ InForce(o, kid) /\ InForce(o, e.by)

\* a human compares the fingerprint and approves the device
Approves ==
  /\ registered /\ ~approved
  /\ approved' = TRUE
  /\ UNCHANGED <<offers, registered, set, signInVars, faults>>

-------------------------------------------------------------------------------
(***************************************************************************)
(* sign_in, up to the point where the session begins.                      *)
(***************************************************************************)
\* place_device_safe: PUT /v1/devices/{id}; the answer brings the block, and a 412 may leave it out
Registers ==
  /\ step = "idle" /\ ~enrolled
  /\ registered' = TRUE
  /\ \/ /\ step' = "answered"
        /\ answer' = Version \/ (registered /\ answer' = 0)
        /\ UNCHANGED faults
     \/ Fault /\ UNCHANGED <<step, answer>>
  /\ UNCHANGED <<offers, approved, set, enrolled>>

\* anchor_from_device_object: the set is stored; without a block nothing is
TakesBlock ==
  /\ step = "answered"
  /\ IF answer = 0 THEN step' = "anchored" /\ UNCHANGED set
     ELSE IF Anchorable(set, offers[answer])
     THEN step' = "anchored" /\ set' = Anchored(set, offers[answer], answer)
     ELSE step' = "idle" /\ UNCHANGED set
  /\ UNCHANGED <<publisherVars, enrolled, answer, faults>>

MarksEnrolled ==
  /\ step = "anchored"
  /\ enrolled' = TRUE
  /\ step' = "idle"
  /\ UNCHANGED <<publisherVars, set, answer, faults>>

\* fetch_device_token: the server gives one to an approved device
FetchesToken ==
  /\ step = "idle" /\ enrolled /\ approved
  /\ step' = "token"
  /\ UNCHANGED <<publisherVars, set, enrolled, answer, faults>>

\* Mutant: whatever there is counts as confirmed
Confirmable_Any(s) == s.anchors # {} /\ ~carries(s)

\* confirm refuses a set whose anchors are all revoked
Confirmable(s) == s.anchors # {} /\ ~carries(s) /\ s.state # "revoked"

\* confirm_anchor
Confirms ==
  /\ step = "token"
  /\ set' = IF Confirmable(set) THEN [set EXCEPT !.state = "confirmed"] ELSE set
  /\ step' = "idle"
  /\ UNCHANGED <<publisherVars, enrolled, answer, faults>>

Stops ==
  /\ step # "idle"
  /\ Fault
  /\ step' = "idle"
  /\ UNCHANGED <<publisherVars, set, enrolled, answer>>

-------------------------------------------------------------------------------
(***************************************************************************)
(* REFRESH_KEYS.                                                           *)
(***************************************************************************)
\* a command the server can have signed and the device believes
Reaches(kid, at) == Signed(kid, at) /\ Holds(set, kid, at)
Reachable == \E kid \in Keys : \E at \in 1 .. Version : Reaches(kid, at)

\* the answer of a version, whole or without its keys or its revocations
Answers(v) ==
  LET o == offers[v] IN {o, [o EXCEPT !.keys = {}], [o EXCEPT !.revoke = {}]}

\* Mutant: the version that is stored is refused as well
Refreshes_Newer(v, o) ==
  /\ Reachable
  /\ v > set.version
  /\ set' = Adopted(set, o, v)
  /\ UNCHANGED <<publisherVars, signInVars, faults>>

\* reconcile_keys; a smaller version is refused
Refreshes(v, o) ==
  /\ Reachable
  /\ v >= set.version
  /\ set' = Adopted(set, o, v)
  /\ UNCHANGED <<publisherVars, signInVars, faults>>

KeySetNext ==
  \/ \E k \in Keys, a \in Anchors : PublishesKey(k, a)
  \/ \E b \in Anchors, a \in Anchors \cup {Nobody} : PublishesAnchor(b, a)
  \/ \E kid \in Anchors \cup Keys, a \in Anchors, retroactive \in BOOLEAN, since \in 0 .. Version :
       Revokes(kid, a, retroactive, since)
  \/ \E a \in Anchors, b \in Anchors : RevokesAll(a, b)
  \/ Approves
  \/ Registers \/ TakesBlock \/ MarksEnrolled \/ FetchesToken \/ Confirms \/ Stops
  \/ \E v \in 1 .. Version : \E o \in Answers(v) : Refreshes(v, o)

(***************************************************************************)
(* The server delivers REFRESH_KEYS until it is acknowledged (Delivery)    *)
(* and answers the request that follows with its newest state at last.     *)
(* Nothing is assumed of the user who signs in.                            *)
(***************************************************************************)
KeySetFairness == WF_keySetVars(Refreshes(Version, Now))

KeySetSpec == KeySetInit /\ [][KeySetNext]_keySetVars /\ KeySetFairness

-------------------------------------------------------------------------------
(***************************************************************************)
(* What the key set promises.                                              *)
(***************************************************************************)
\* Trust arises only in the enrolment answer: whatever else the set holds was signed by an anchor
\* the set holds; an anchor that comes along with an answer vouches for nothing in it (key_set.rs,
\* adopt: "a new anchor without the counter-signature of a stored one waits and has no effect").
Rooted ==
  \A e \in set.anchors \cup set.keys \cup set.revoke : e.by \in Kids(set.anchors) \cup {Nobody}

\* The state that is shown and reported is the state of the anchors: revoked exactly when none of
\* them counts any more, whatever the sign-in does afterwards (AnchorState::Revoked: "there is no
\* way back online"), and confirmed only after a human has approved the device.
StateTrue ==
  /\ set.state = "none" <=> set.anchors = {}
  /\ set.state = "revoked" <=> set.anchors # {} /\ NoneApplies(set)
  /\ set.state = "confirmed" => approved

\* What the set itself is: its types, nothing in it that no anchor of it vouches for, and a state
\* that is the state of its anchors.
KeySetInv == KeySetTypeOK /\ Rooted /\ StateTrue

\* A signature that has lost its force never gets it back: once the set is confirmed, no answer,
\* stale or with parts left out, makes a signature count again that a known key has given (P9:
\* "nothing is removed").
NeverBack ==
  [][carries(set) =>
       \A k \in Kids(set.keys) : \A when \in 1 .. Version : Holds(set', k, when) => Holds(set, k, when)]_keySetVars

\* the anchors that unbroken counter-signatures join to an anchor the device holds
Closed(S) ==
  \A e \in Now.anchors : e.by \in S /\ ~RevokedIn(Now.revoke, e.by) => e.kid \in S
Trusted ==
  LET standing == {a \in Kids(set.anchors) : ~RevokedIn(Now.revoke, a)} IN
  {a \in Anchors : \A S \in SUBSET Anchors : standing \subseteq S /\ Closed(S) => a \in S}
Vouched(k) ==
  \E e \in Now.keys : e.kid = k /\ e.by \in Trusted /\ ~RevokedIn(Now.revoke, e.by)

\* A device the server can still reach learns every key its anchors vouch for, also one whose
\* anchor came in the same answer and had to be taken in first (reconcile_keys).
CatchesUp ==
  \A k \in Keys : <>[](Reachable /\ Vouched(k)) => <>(k \in Kids(set.keys))

===============================================================================
