--------------------------- MODULE NamespaceProofs ---------------------------
(***************************************************************************)
(* What the extension on macOS works with.                                 *)
(* Namespace for any tree, documents and looks, any size of the journal    *)
(* and of a page, and any number of changes; and, in the second part,      *)
(* Bridge for any requests, loads, places and runs of the app.             *)
(***************************************************************************)
EXTENDS Namespace, Bridge, FiniteSetTheorems, TLAPS

\* What NamespaceInv says of the types, taken apart.
StoreTypes ==
    /\ entry \in [Entries -> Shown]
    /\ fetched \subseteq Containers
    /\ erased \subseteq Documents
    /\ last \in Nat /\ lower \in Nat
    /\ journal \in [DOMAIN journal -> JournalRow]
PlatformTypes ==
    /\ phase \in Phases
    /\ anchor \in Nat
    /\ view \in [Entries -> Shown]
    /\ marker \in Marker
    /\ marker.open \subseteq marker.found

\* The bounds of the journal are in order, and nobody has seen more than there is.
BoundsTrue == lower <= last /\ anchor <= last

StoreInv ==
    /\ StoreTypes
    /\ PlatformTypes
    /\ BoundsTrue
    /\ JournalComplete
    /\ NoOrphans
    /\ ErasedNameless
    /\ RowsTell
    /\ ChildrenLeaveFirst
    /\ EnumerationIsTrue
    /\ AnsweredAnchorIsTrue

USE DEF Entries, Root, storeVars, platformVars, vars

-----------------------------------------------------------------------------
(* The tree *)

\* A container is a number, and the root is none of the entries.
LEMMA ContainerNumbers ==
  /\ Size \in Nat
  /\ Containers \subseteq Nat /\ Folders \subseteq Containers
  /\ \A c \in Containers : c <= Root /\ (c = Root \/ c \in Folders)
  /\ \A c \in Folders : c \in Entries /\ DocOf[c] = NoDoc
BY NamespaceAssumption DEF Containers, Folders

\* What stands above an entry are containers, and they come after it.
LEMMA AboveEntry ==
  ASSUME NEW e \in Entries
  PROVE  /\ Parent[e] \in Containers /\ Parent[e] > e
         /\ \A f \in Above(e) : f \in Containers /\ f > e
<1>1. Parent[e] \in Containers /\ Parent[e] > e
  BY NamespaceAssumption
<1>2. \A c \in Containers : c \in 1 .. Root /\ Parent[c] \in Containers /\ Parent[c] >= c
  <2>1. \A c \in Containers : c \in 1 .. Root /\ (c = Root \/ c \in Entries)
    BY ContainerNumbers DEF Containers, Folders
  <2>2. \A c \in Containers : Parent[c] \in Containers
    BY <2>1, NamespaceAssumption
  <2>. QED
    BY <2>1, <2>2, NamespaceAssumption
<1>3. Parent[Parent[e]] \in Containers /\ Parent[Parent[e]] >= Parent[e]
  BY <1>1, <1>2
<1>4. /\ Parent[Parent[Parent[e]]] \in Containers
      /\ Parent[Parent[Parent[e]]] >= Parent[Parent[e]]
  BY <1>2, <1>3
<1>5. /\ e \in Nat /\ Parent[e] \in Nat /\ Parent[Parent[e]] \in Nat
      /\ Parent[Parent[Parent[e]]] \in Nat
  <2>1. Containers \subseteq Nat /\ e \in Nat
    BY ContainerNumbers
  <2>. QED
    BY <1>1, <1>3, <1>4, <2>1
<1>6. Parent[Parent[e]] > e /\ Parent[Parent[Parent[e]]] > e
  BY <1>1, <1>3, <1>4, <1>5
<1>. QED
  BY <1>1, <1>3, <1>4, <1>6 DEF Above

\* What stands above the container of an entry stands above the entry, or is the root.
LEMMA AboveParent ==
  ASSUME NEW e \in Entries
  PROVE  /\ Parent[e] \in Above(e)
         /\ Above(Parent[e]) \subseteq Above(e) \cup {Root}
BY NamespaceAssumption DEF Above

\* Every entry of a tree has its container in it.
Closed(tree) ==
    \A e \in Entries : tree[e] # Absent => Parent[e] = Root \/ tree[Parent[e]] # Absent

\* So everything above an entry that is there is there.
LEMMA AbovePresent ==
  ASSUME NEW tree, Closed(tree), NEW e \in Entries, tree[e] # Absent,
         NEW f \in Above(e), f # Root
  PROVE  tree[f] # Absent
<1> DEFINE p == Parent[e]
           q == Parent[p]
<1>1. \A c \in Containers : c = Root \/ c \in Entries
  BY ContainerNumbers
<1>2. p = Root \/ (p \in Entries /\ tree[p] # Absent)
  BY <1>1, AboveEntry DEF Closed
<1>3. p = Root => q = Root
  BY NamespaceAssumption
<1>4. q = Root \/ (q \in Entries /\ tree[q] # Absent)
  BY <1>1, <1>2, <1>3, AboveEntry DEF Closed
<1>5. Parent[q] = Root \/ tree[Parent[q]] # Absent
  BY <1>1, <1>4, AboveEntry, NamespaceAssumption DEF Closed
<1>. QED
  BY <1>2, <1>4, <1>5 DEF Above

-----------------------------------------------------------------------------
(* The order of the rows *)

\* Of two changes exactly one is journalled first.
LEMMA PrecedesOrder ==
  ASSUME NEW new, NEW d \in Entries, NEW e \in Entries, NEW g \in Entries
  PROVE  /\ ~Precedes(e, e, new)
         /\ d # e => Precedes(d, e, new) \/ Precedes(e, d, new)
         /\ Precedes(d, e, new) /\ Precedes(e, g, new) => Precedes(d, g, new)
BY NamespaceAssumption DEF Precedes, Stage

\* Only entries change, and of those there are finitely many.
LEMMA ChangedFinite ==
  ASSUME NEW new
  PROVE  /\ Changed(new) \subseteq Entries
         /\ IsFiniteSet(Changed(new)) /\ Cardinality(Changed(new)) \in Nat
<1>1. IsFiniteSet(Entries)
  BY FS_Interval, NamespaceAssumption
<1>2. Changed(new) \in SUBSET Entries
  BY DEF Changed
<1>. QED
  BY <1>1, <1>2, FS_Subset, FS_CardinalityType

\* A place is a number up to the number of changes.
LEMMA PlaceRange ==
  ASSUME NEW new, NEW e \in Changed(new)
  PROVE  Place(e, new) \in 1 .. Cardinality(Changed(new))
<1> DEFINE C == Changed(new)
           B == {d \in C : Precedes(d, e, new)}
<1>1. IsFiniteSet(C) /\ Cardinality(C) \in Nat /\ e \in Entries
  BY ChangedFinite
<1>2. IsFiniteSet(C \ {e}) /\ Cardinality(C \ {e}) = Cardinality(C) - 1
  BY <1>1, FS_RemoveElement
<1>3. B \in SUBSET (C \ {e})
  BY <1>1, PrecedesOrder
<1>4. IsFiniteSet(B) /\ Cardinality(B) <= Cardinality(C \ {e}) /\ Cardinality(B) \in Nat
  BY <1>2, <1>3, FS_Subset, FS_CardinalityType
<1>. QED
  BY <1>1, <1>2, <1>4 DEF Place

\* What is journalled first has the smaller place.
LEMMA PlaceOrder ==
  ASSUME NEW new, NEW d \in Changed(new), NEW e \in Changed(new), Precedes(d, e, new)
  PROVE  Place(d, new) < Place(e, new)
<1> DEFINE C == Changed(new)
           A == {g \in C : Precedes(g, d, new)}
           B == {g \in C : Precedes(g, e, new)}
<1>1. C \subseteq Entries /\ IsFiniteSet(C)
  BY ChangedFinite
<1>2. A \in SUBSET C /\ B \in SUBSET C /\ d \notin A
  BY <1>1, PrecedesOrder
<1>3. A \cup {d} \in SUBSET B
  BY <1>1, PrecedesOrder
<1>4. IsFiniteSet(A) /\ IsFiniteSet(B)
  BY <1>1, <1>2, FS_Subset
<1>5. Cardinality(A) \in Nat /\ Cardinality(B) \in Nat
  BY <1>4, FS_CardinalityType
<1>6. Cardinality(A \cup {d}) = Cardinality(A) + 1
  BY <1>2, <1>4, FS_AddElement
<1>7. Cardinality(A \cup {d}) <= Cardinality(B)
  BY <1>3, <1>4, FS_Subset
<1>. QED
  BY <1>5, <1>6, <1>7 DEF Place

\* Every place is the place of exactly one change.
LEMMA PlaceOfOne ==
  ASSUME NEW new
  PROVE  /\ \A d, e \in Changed(new) : Place(d, new) = Place(e, new) => d = e
         /\ \A n \in 1 .. Cardinality(Changed(new)) :
                \E e \in Changed(new) : Place(e, new) = n
<1> DEFINE C == Changed(new)
           N == Cardinality(C)
           f == [e \in C |-> Place(e, new)]
<1>1. C \subseteq Entries /\ IsFiniteSet(C) /\ N \in Nat
  BY ChangedFinite
<1>2. \A d, e \in C : Place(d, new) = Place(e, new) => d = e
  <2> SUFFICES ASSUME NEW d \in C, NEW e \in C, d # e
               PROVE  Place(d, new) # Place(e, new)
    OBVIOUS
  <2>1. Place(d, new) \in Nat /\ Place(e, new) \in Nat
    BY <1>1, PlaceRange
  <2>2. Precedes(d, e, new) \/ Precedes(e, d, new)
    BY <1>1, PrecedesOrder
  <2>. QED
    BY <2>1, <2>2, PlaceOrder
<1>3. f \in Injection(C, 1 .. N)
  BY <1>2, PlaceRange DEF Injection, IsInjective
<1>4. IsFiniteSet(1 .. N) /\ Cardinality(1 .. N) = N
  BY <1>1, FS_Interval
<1>5. f \in Surjection(C, 1 .. N)
  BY <1>3, <1>4, FS_Injection
<1>. QED
  BY <1>2, <1>5 DEF Surjection

\* Some row of a page is its last.
LEMMA LastOf ==
  ASSUME NEW S \in SUBSET Nat, S # {}, NEW n \in Nat, \A s \in S : s <= n
  PROVE  \E s \in S : \A t \in S : t <= s
<1> DEFINE T == {n - s : s \in S}
<1>1. T \subseteq Nat /\ T # {}
  <2>1. \A s \in S : n - s \in Nat
    OBVIOUS
  <2>. QED
    BY <2>1
<1>2. PICK x \in T : \A y \in T : ~(<<y, x>> \in OpToRel(<, Nat))
  BY <1>1, NatLessThanWellFounded, WFMin
<1>3. \A y \in T : ~(y < x)
  BY <1>1, <1>2 DEF OpToRel
<1>4. PICK s \in S : x = n - s
  OBVIOUS
<1>5. \A t \in S : t <= s
  BY <1>3, <1>4
<1>. QED
  BY <1>5

-----------------------------------------------------------------------------
(* The rows that are written *)

\* truncate_journal takes nothing of what may stay, and never more than there is.
LEMMA TrimmedRange ==
  ASSUME StoreInv, NEW top \in Nat, last <= top
  PROVE  /\ Trimmed(top) \in Nat
         /\ lower <= Trimmed(top) /\ Trimmed(top) <= top
         /\ top - Trimmed(top) <= JournalMax
BY NamespaceAssumption DEF StoreInv, StoreTypes, BoundsTrue, Trimmed

\* journal(): the old rows stay as they are, and the changes follow, each with the number of
\* its place.
LEMMA AppendedRows ==
  ASSUME StoreInv, NEW new, NEW named, NEW rows, DOMAIN rows = DOMAIN journal
  PROVE  LET top == last + Cardinality(Changed(new))
             all == Appended(rows, new, named)
         IN  /\ top \in Nat /\ last <= top
             /\ DOMAIN all = Trimmed(top) + 1 .. top
             /\ \A s \in DOMAIN all : s <= last => s \in DOMAIN journal /\ all[s] = rows[s]
             /\ \A s \in DOMAIN all : s > last =>
                    /\ all[s].entry \in Changed(new)
                    /\ s = last + Place(all[s].entry, new)
                    /\ all[s].after = new[all[s].entry] /\ all[s].named = named
             /\ \A e \in Changed(new) :
                    /\ last + Place(e, new) \in last + 1 .. top
                    /\ last + Place(e, new) \in DOMAIN all => all[last + Place(e, new)].entry = e
<1> DEFINE C == Changed(new)
           top == last + Cardinality(C)
           all == Appended(rows, new, named)
           chosen(s) == CHOOSE e \in C : Place(e, new) = s - last
<1>1. /\ last \in Nat /\ lower \in Nat /\ lower <= last
      /\ DOMAIN rows = lower + 1 .. last
  BY DEF StoreInv, StoreTypes, BoundsTrue, JournalComplete
<1>2. Cardinality(C) \in Nat
  BY ChangedFinite
<1>3. top \in Nat /\ last <= top
  BY <1>1, <1>2
<1>4. Trimmed(top) \in Nat /\ lower <= Trimmed(top) /\ Trimmed(top) <= top
  BY <1>3, TrimmedRange
<1>5. all = [s \in {t \in DOMAIN rows \cup (last + 1 .. top) : t > Trimmed(top)} |->
                IF s <= last THEN rows[s]
                ELSE [entry |-> chosen(s), after |-> new[chosen(s)], named |-> named]]
  BY DEF Appended
<1>6. {t \in DOMAIN rows \cup (last + 1 .. top) : t > Trimmed(top)} = Trimmed(top) + 1 .. top
  BY <1>1, <1>3, <1>4
<1>7. DOMAIN all = Trimmed(top) + 1 .. top
  BY <1>5, <1>6
<1>8. \A s \in DOMAIN all : s <= last => s \in DOMAIN journal /\ all[s] = rows[s]
  BY <1>1, <1>4, <1>5, <1>7
<1>9. ASSUME NEW s \in DOMAIN all, s > last
      PROVE  /\ all[s] = [entry |-> chosen(s), after |-> new[chosen(s)], named |-> named]
             /\ chosen(s) \in C /\ Place(chosen(s), new) = s - last
             /\ s = last + Place(chosen(s), new)
  <2>1. s \in Nat /\ s - last \in 1 .. Cardinality(C)
    BY <1>1, <1>2, <1>4, <1>7, <1>9
  <2>2. \E e \in C : Place(e, new) = s - last
    BY <2>1, PlaceOfOne
  <2>3. chosen(s) \in C /\ Place(chosen(s), new) = s - last
    BY <2>2
  <2>4. all[s] = [entry |-> chosen(s), after |-> new[chosen(s)], named |-> named]
    BY <1>1, <1>5, <1>9, <2>1
  <2>. QED
    BY <1>1, <2>1, <2>3, <2>4
<1>10. ASSUME NEW e \in C
       PROVE  /\ last + Place(e, new) \in last + 1 .. top
              /\ last + Place(e, new) \in DOMAIN all => all[last + Place(e, new)].entry = e
  <2>1. Place(e, new) \in 1 .. Cardinality(C)
    BY PlaceRange
  <2>2. last + Place(e, new) \in last + 1 .. top
    BY <1>1, <1>2, <2>1
  <2>3. ASSUME last + Place(e, new) \in DOMAIN all
        PROVE  all[last + Place(e, new)].entry = e
    <3> DEFINE s == last + Place(e, new)
    <3>1. s > last /\ s - last = Place(e, new)
      BY <1>1, <1>2, <2>1
    <3>2. all[s].entry = chosen(s) /\ chosen(s) \in C /\ Place(chosen(s), new) = Place(e, new)
      BY <1>9, <2>3, <3>1
    <3>. QED
      BY <3>2, PlaceOfOne
  <2>. QED
    BY <2>2, <2>3
<1>11. ASSUME NEW s \in DOMAIN all, s > last
       PROVE  /\ all[s].entry \in Changed(new)
              /\ s = last + Place(all[s].entry, new)
              /\ all[s].after = new[all[s].entry] /\ all[s].named = named
  BY <1>9, <1>11
<1>. QED
  BY <1>3, <1>7, <1>8, <1>10, <1>11

\* Rows that tell the same of a tree that has become `new`: only what is Absent in it may be
\* told of otherwise than before, and of a container nothing.
Follows(rows, new) ==
    /\ rows \in [DOMAIN journal -> JournalRow]
    /\ \A s \in DOMAIN journal :
        /\ rows[s].entry = journal[s].entry
        /\ rows[s].after \in {journal[s].after, new[journal[s].entry]}
        /\ journal[s].entry \in Folders => rows[s].after = journal[s].after

\* A tree that grows and shrinks only below what was there.
Grows(new) ==
    /\ new \in [Entries -> Shown]
    /\ Closed(new)
    /\ \A e \in Changed(new) : \A f \in Above(e) : f # Root => entry[f] # Absent

\* What a transaction leaves in the journal.
LEMMA WrittenRows ==
  ASSUME StoreInv, NEW rows, NEW new, NEW named, Follows(rows, new), Write(rows, new, named)
  PROVE  /\ entry' = new
         /\ lower \in Nat /\ last \in Nat /\ lower' \in Nat /\ last' \in Nat
         /\ lower <= lower' /\ last <= last' /\ lower' <= last' /\ last' - lower' <= JournalMax
         /\ DOMAIN journal = lower + 1 .. last /\ DOMAIN journal' = lower' + 1 .. last'
         /\ \A s \in DOMAIN journal' : s <= last => s \in DOMAIN journal /\ journal'[s] = rows[s]
         /\ \A s \in DOMAIN journal' : s > last =>
                /\ journal'[s].entry \in Changed(new)
                /\ s = last + Place(journal'[s].entry, new)
                /\ journal'[s].after = new[journal'[s].entry] /\ journal'[s].named = named
         /\ \A e \in Changed(new) :
                /\ last + Place(e, new) \in last + 1 .. last'
                /\ last + Place(e, new) \in DOMAIN journal' =>
                       journal'[last + Place(e, new)].entry = e
<1> DEFINE top == last + Cardinality(Changed(new))
<1>1. /\ entry' = new /\ last' = top /\ lower' = Trimmed(top)
      /\ journal' = Appended(rows, new, named)
  BY DEF Write
<1>2. DOMAIN rows = DOMAIN journal
  BY DEF Follows
<1>3. top \in Nat /\ last <= top
  BY <1>2, AppendedRows
<1>4. /\ lower \in Nat /\ last \in Nat
      /\ DOMAIN journal = lower + 1 .. last
  BY DEF StoreInv, StoreTypes, JournalComplete
<1>5. /\ Trimmed(top) \in Nat /\ lower <= Trimmed(top) /\ Trimmed(top) <= top
      /\ top - Trimmed(top) <= JournalMax
  BY <1>3, TrimmedRange
<1>. QED
  BY <1>1, <1>2, <1>3, <1>4, <1>5, AppendedRows

\* The journal stays without a gap and within its size (journal, truncate_journal).
LEMMA WriteBounds ==
  ASSUME StoreInv, NEW rows, NEW new, NEW named \in BOOLEAN,
         Follows(rows, new), Grows(new), Write(rows, new, named), UNCHANGED platformVars
  PROVE  /\ BoundsTrue' /\ JournalComplete' /\ PlatformTypes'
         /\ entry' \in [Entries -> Shown] /\ last' \in Nat /\ lower' \in Nat
         /\ journal' \in [DOMAIN journal' -> JournalRow]
<1>1. BoundsTrue' /\ JournalComplete'
  BY WrittenRows DEF StoreInv, BoundsTrue, JournalComplete, PlatformTypes
<1>2. PlatformTypes'
  BY DEF StoreInv, PlatformTypes
<1>3. entry' \in [Entries -> Shown] /\ last' \in Nat /\ lower' \in Nat
  BY WrittenRows DEF Grows
<1>4. journal' = Appended(rows, new, named)
  BY DEF Write
<1>5. ASSUME NEW s \in DOMAIN journal'
      PROVE  journal'[s] \in JournalRow
  <2>1. s \in Nat /\ last \in Nat
    BY WrittenRows
  <2>2. CASE s <= last
    BY <2>2, WrittenRows DEF Follows
  <2>3. CASE s > last
    <3> DEFINE top == last + Cardinality(Changed(new))
               e == journal'[s].entry
               chosen == CHOOSE d \in Changed(new) : Place(d, new) = s - last
    <3>1. e \in Changed(new) /\ e \in Entries
      BY <2>3, WrittenRows, ChangedFinite
    <3>2. journal'[s] = [entry |-> chosen, after |-> new[chosen], named |-> named]
      BY <1>4, <2>1, <2>3 DEF Appended
    <3>3. chosen \in Entries
      BY <3>1, <3>2
    <3>. QED
      BY <3>2, <3>3 DEF JournalRow, Grows
  <2>. QED
    BY <2>1, <2>2, <2>3
<1>6. journal' = [s \in DOMAIN journal' |-> journal'[s]]
  BY <1>4 DEF Appended
<1>. QED
  BY <1>1, <1>2, <1>3, <1>5, <1>6

\* The last row about an entry tells what the table holds of it.
LEMMA WriteTells ==
  ASSUME StoreInv, NEW rows, NEW new, NEW named, Follows(rows, new), Write(rows, new, named)
  PROVE  RowsTell'
<1> SUFFICES ASSUME NEW e \in Entries
             PROVE  \/ \A s \in DOMAIN journal' : journal'[s].entry # e
                    \/ \E s \in DOMAIN journal' :
                        /\ journal'[s].entry = e /\ journal'[s].after = new[e]
                        /\ \A t \in DOMAIN journal' : t > s => journal'[t].entry # e
  BY WrittenRows DEF RowsTell
<1>1. CASE e \in Changed(new)
  <2> DEFINE n == last + Place(e, new)
  <2>1. n \in last + 1 .. last' /\ (n \in DOMAIN journal' => journal'[n].entry = e)
    BY <1>1, WrittenRows
  <2>2. \A t \in DOMAIN journal' : t > last /\ journal'[t].entry = e => t = n
    BY WrittenRows
  <2>3. CASE n \in DOMAIN journal'
    BY <2>1, <2>2, <2>3, WrittenRows
  <2>4. CASE n \notin DOMAIN journal'
    <3>1. \A t \in DOMAIN journal' : t > n /\ t > last
      BY <2>1, <2>4, WrittenRows
    <3>. QED
      BY <2>1, <2>2, <2>4, <3>1
  <2>. QED
    BY <2>3, <2>4
<1>2. CASE e \notin Changed(new)
  <2>1. new[e] = entry[e]
    BY <1>2 DEF Changed
  <2>2. \A t \in DOMAIN journal' : journal'[t].entry = e =>
            t <= last /\ t \in DOMAIN journal /\ journal[t].entry = e
    BY <1>2, WrittenRows DEF Follows
  <2>3. CASE \A s \in DOMAIN journal : journal[s].entry # e
    BY <2>2, <2>3
  <2>4. ASSUME NEW s \in DOMAIN journal,
               journal[s].entry = e, journal[s].after = entry[e],
               \A t \in DOMAIN journal : t > s => journal[t].entry # e
        PROVE  \/ \A t \in DOMAIN journal' : journal'[t].entry # e
               \/ /\ s \in DOMAIN journal'
                  /\ journal'[s].entry = e /\ journal'[s].after = new[e]
                  /\ \A t \in DOMAIN journal' : t > s => journal'[t].entry # e
    <3>1. CASE s \in DOMAIN journal'
      <4>1. s <= last /\ journal'[s] = rows[s]
        BY <3>1, WrittenRows
      <4>. QED
        BY <2>1, <2>2, <2>4, <3>1, <4>1 DEF Follows
    <3>2. CASE s \notin DOMAIN journal'
      <4>1. \A t \in DOMAIN journal' : t > s
        BY <3>2, WrittenRows
      <4>. QED
        BY <2>2, <2>4, <4>1
    <3>. QED
      BY <3>1, <3>2
  <2>. QED
    BY <2>3, <2>4 DEF StoreInv, RowsTell
<1>. QED
  BY <1>1, <1>2

\* A folder's removal comes after those of everything below it (journal()'s order of rows).
LEMMA WriteChildrenFirst ==
  ASSUME StoreInv, NEW rows, NEW new, NEW named,
         Follows(rows, new), Grows(new), Write(rows, new, named)
  PROVE  ChildrenLeaveFirst'
<1> SUFFICES ASSUME NEW s \in DOMAIN journal', NEW t \in DOMAIN journal', s < t,
                    journal'[s].after = Absent,
                    journal'[s].entry \in Above(journal'[t].entry)
             PROVE  \E u \in s + 1 .. t - 1 : /\ journal'[u].entry = journal'[s].entry
                                              /\ journal'[u].after # Absent
  BY DEF ChildrenLeaveFirst
<1> DEFINE f == journal'[s].entry
           e == journal'[t].entry
<1>1. s \in Nat /\ t \in Nat /\ last \in Nat
  BY WrittenRows
<1>2. \A r \in DOMAIN journal' : journal'[r].entry \in Entries
  <2>1. \A r \in DOMAIN journal : journal[r].entry \in Entries
    BY DEF StoreInv, StoreTypes, JournalRow
  <2>2. \A r \in DOMAIN journal' : r <= last \/ r > last
    BY WrittenRows
  <2>3. \A r \in DOMAIN journal' : r <= last => journal'[r].entry \in Entries
    BY <2>1, WrittenRows DEF Follows
  <2>4. \A r \in DOMAIN journal' : r > last => journal'[r].entry \in Entries
    BY WrittenRows, ChangedFinite
  <2>. QED
    BY <2>2, <2>3, <2>4
<1>3. f \in Folders /\ f > e /\ f # Root /\ e \in Entries /\ f \in Entries
  BY <1>2, AboveEntry, ContainerNumbers
\* Rows about the folder are as they were.
<1>4. \A u \in DOMAIN journal' : u <= last /\ journal'[u].entry = f =>
          /\ u \in DOMAIN journal
          /\ journal[u].entry = f /\ journal'[u].after = journal[u].after
  BY <1>3, WrittenRows DEF Follows
<1>5. \A u \in s + 1 .. t - 1 : u \in DOMAIN journal'
  BY WrittenRows
<1>6. CASE t <= last
  <2>1. s <= last /\ s \in DOMAIN journal /\ t \in DOMAIN journal
    BY <1>1, <1>6, WrittenRows
  <2>2. journal[s].entry = f /\ journal[s].after = Absent /\ journal[t].entry = e
    BY <1>4, <1>6, <2>1, WrittenRows DEF Follows
  <2>3. PICK u \in s + 1 .. t - 1 : journal[u].entry = f /\ journal[u].after # Absent
    BY <2>1, <2>2 DEF StoreInv, ChildrenLeaveFirst
  <2>4. u \in DOMAIN journal' /\ u <= last
    BY <1>1, <1>5, <1>6
  <2>5. journal'[u].entry = f
    BY <2>3, <2>4, WrittenRows DEF Follows
  <2>. QED
    BY <1>4, <2>3, <2>4, <2>5
<1>7. CASE s <= last /\ t > last
  \* The row is about a change below a folder that was there: it had come back before.
  <2>1. e \in Changed(new) /\ entry[f] # Absent
    BY <1>3, <1>7, WrittenRows DEF Grows
  <2>2. s \in DOMAIN journal /\ journal[s].entry = f /\ journal[s].after = Absent
    BY <1>4, <1>7
  <2>3. PICK u \in DOMAIN journal :
             /\ journal[u].entry = f /\ journal[u].after = entry[f]
             /\ \A r \in DOMAIN journal : r > u => journal[r].entry # f
    BY <1>3, <2>2 DEF StoreInv, RowsTell
  <2>4. u \in Nat /\ u <= last /\ u # s /\ ~(s > u)
    BY <2>1, <2>2, <2>3, WrittenRows
  <2>5. u \in s + 1 .. t - 1
    BY <1>1, <1>7, <2>4
  <2>6. journal'[u].entry = f /\ journal'[u].after = journal[u].after
    BY <1>3, <1>5, <2>3, <2>4, <2>5, WrittenRows DEF Follows
  <2>. QED
    BY <2>1, <2>3, <2>5, <2>6
<1>8. CASE s > last
  \* Both rows are of this change; the folder goes, so the entry goes, and first.
  <2>1. t > last
    BY <1>1, <1>8
  <2>2. /\ f \in Changed(new) /\ e \in Changed(new) /\ new[f] = Absent
        /\ s = last + Place(f, new) /\ t = last + Place(e, new)
    BY <1>8, <2>1, WrittenRows
  <2>3. new[e] = Absent
    BY <1>3, <2>2, AbovePresent DEF Grows
  <2>4. Precedes(e, f, new)
    BY <1>3, <2>2, <2>3 DEF Precedes, Stage
  <2>5. Place(e, new) < Place(f, new)
    BY <2>2, <2>4, PlaceOrder
  <2>6. Place(e, new) \in Nat /\ Place(f, new) \in Nat
    BY <2>2, PlaceRange, ChangedFinite
  <2>. QED
    BY <1>1, <2>2, <2>5, <2>6
<1>. QED
  BY <1>1, <1>6, <1>7, <1>8

-----------------------------------------------------------------------------
(* What the platform will have caught up with *)

\* In a journal that reaches back to what has been seen, where the last row about an entry
\* tells what is held of it: the entry is caught up with if a row about it is still to come, or
\* it is shown as it is held.
LEMMA Tells ==
  ASSUME NEW rows, NEW trimmed \in Nat, NEW seen \in Nat, NEW top \in Nat,
         DOMAIN rows = trimmed + 1 .. top, trimmed <= seen,
         NEW e, NEW held, NEW shown,
         \/ \A s \in DOMAIN rows : rows[s].entry # e
         \/ \E s \in DOMAIN rows :
             /\ rows[s].entry = e /\ rows[s].after = held
             /\ \A t \in DOMAIN rows : t > s => rows[t].entry # e
  PROVE  (\/ /\ \A s \in seen + 1 .. top : rows[s].entry # e
             /\ shown = held
          \/ \E s \in seen + 1 .. top :
              /\ rows[s].entry = e /\ rows[s].after = held
              /\ \A t \in s + 1 .. top : rows[t].entry # e)
         <=> (\E s \in seen + 1 .. top : rows[s].entry = e) \/ shown = held
<1>1. seen + 1 .. top \subseteq DOMAIN rows
  OBVIOUS
<1>2. ASSUME NEW s \in seen + 1 .. top, rows[s].entry = e
      PROVE  \E u \in seen + 1 .. top :
                 /\ rows[u].entry = e /\ rows[u].after = held
                 /\ \A t \in u + 1 .. top : rows[t].entry # e
  <2>1. PICK u \in DOMAIN rows :
             /\ rows[u].entry = e /\ rows[u].after = held
             /\ \A t \in DOMAIN rows : t > u => rows[t].entry # e
    BY <1>1, <1>2
  <2>2. u \in Nat /\ s \in Nat /\ ~(s > u) /\ u <= top
    BY <1>1, <1>2, <2>1
  <2>3. u \in seen + 1 .. top
    BY <2>2
  <2>4. \A t \in u + 1 .. top : t \in DOMAIN rows /\ t > u
    BY <2>2, <2>3
  <2>. QED
    BY <2>1, <2>3, <2>4
<1>. QED
  BY <1>2

\* So it is of the journal of the store.
LEMMA TellsNow ==
  ASSUME StoreInv, lower <= anchor, NEW e \in Entries
  PROVE  CatchesUp(e) <=> \/ \E s \in anchor + 1 .. last : journal[s].entry = e
                          \/ view[e] = entry[e]
<1>1. /\ last \in Nat /\ lower \in Nat /\ anchor \in Nat
      /\ DOMAIN journal = lower + 1 .. last
      /\ \/ \A s \in DOMAIN journal : journal[s].entry # e
         \/ \E s \in DOMAIN journal :
             /\ journal[s].entry = e /\ journal[s].after = entry[e]
             /\ \A t \in DOMAIN journal : t > s => journal[t].entry # e
  BY DEF StoreInv, StoreTypes, PlatformTypes, JournalComplete, RowsTell
<1>. QED
  BY <1>1, Tells DEF CatchesUp

\* And of the journal after a step.
LEMMA TellsNext ==
  ASSUME RowsTell', JournalComplete', last' \in Nat, lower' \in Nat, anchor' \in Nat,
         lower' <= anchor', NEW e \in Entries
  PROVE  CatchesUp(e)' <=> \/ \E s \in anchor' + 1 .. last' : journal'[s].entry = e
                           \/ view'[e] = entry'[e]
<1>1. \/ \A s \in DOMAIN journal' : journal'[s].entry # e
      \/ \E s \in DOMAIN journal' :
          /\ journal'[s].entry = e /\ journal'[s].after = entry'[e]
          /\ \A t \in DOMAIN journal' : t > s => journal'[t].entry # e
  BY DEF RowsTell
<1>2. DOMAIN journal' = lower' + 1 .. last'
  BY DEF JournalComplete
<1>3. PICK rows, trimmed, seen, top, held, shown :
             /\ rows = journal' /\ trimmed = lower' /\ seen = anchor' /\ top = last'
             /\ held = entry'[e] /\ shown = view'[e]
  OBVIOUS
<1>4. (\/ /\ \A s \in seen + 1 .. top : rows[s].entry # e
          /\ shown = held
       \/ \E s \in seen + 1 .. top :
           /\ rows[s].entry = e /\ rows[s].after = held
           /\ \A t \in s + 1 .. top : rows[t].entry # e)
      <=> (\E s \in seen + 1 .. top : rows[s].entry = e) \/ shown = held
  <2>1. /\ trimmed \in Nat /\ seen \in Nat /\ top \in Nat /\ trimmed <= seen
        /\ DOMAIN rows = trimmed + 1 .. top
    BY <1>2, <1>3
  <2>2. \/ \A s \in DOMAIN rows : rows[s].entry # e
        \/ \E s \in DOMAIN rows :
            /\ rows[s].entry = e /\ rows[s].after = held
            /\ \A t \in DOMAIN rows : t > s => rows[t].entry # e
    BY <1>1, <1>3
  <2>. QED
    BY ONLY <2>1, <2>2, Tells
<1>. QED
  BY <1>3, <1>4 DEF CatchesUp

\* What the platform has still to be told it is told after a write as well, and what the write
\* changes it is told, as long as its anchor is answered (changes_since).
LEMMA WriteCatchesUp ==
  ASSUME StoreInv, NEW rows, NEW new, NEW named \in BOOLEAN,
         Follows(rows, new), Grows(new), Write(rows, new, named), UNCHANGED platformVars
  PROVE  EnumerationIsTrue' /\ AnsweredAnchorIsTrue'
<1>1. /\ last \in Nat /\ lower \in Nat /\ anchor \in Nat /\ last' \in Nat /\ lower' \in Nat
      /\ lower <= lower' /\ last <= last' /\ anchor <= last
  BY WrittenRows DEF StoreInv, PlatformTypes, BoundsTrue
<1>2. ASSUME NEW e \in Entries, lower' <= anchor, CatchesUp(e)
      PROVE  CatchesUp(e)'
  <2>1. CatchesUp(e)' <=> \/ \E s \in anchor + 1 .. last' : journal'[s].entry = e
                          \/ view[e] = new[e]
    BY <1>1, <1>2, WriteBounds, WriteTells, WrittenRows, TellsNext
  <2>2. CASE e \in Changed(new)
    <3>1. last + Place(e, new) \in anchor + 1 .. last'
      BY <1>1, <2>2, WrittenRows
    <3>2. last + Place(e, new) \in DOMAIN journal'
      BY <1>1, <1>2, <3>1, WrittenRows
    <3>. QED
      BY <2>1, <2>2, <3>1, <3>2, WrittenRows
  <2>3. CASE e \notin Changed(new)
    <3>1. \/ \E s \in anchor + 1 .. last : journal[s].entry = e
          \/ view[e] = entry[e]
      BY <1>1, <1>2, TellsNow
    <3>2. new[e] = entry[e]
      BY <2>3 DEF Changed
    <3>3. ASSUME NEW s \in anchor + 1 .. last, journal[s].entry = e
          PROVE  s \in anchor + 1 .. last' /\ journal'[s].entry = e
      <4>1. s \in DOMAIN journal' /\ s \in anchor + 1 .. last' /\ s <= last
        BY <1>1, <1>2, WrittenRows
      <4>. QED
        BY <3>3, <4>1, WrittenRows DEF Follows
    <3>. QED
      BY <2>1, <3>1, <3>2, <3>3
  <2>. QED
    BY <2>2, <2>3
<1>3. EnumerationIsTrue'
  <2> SUFFICES ASSUME phase \in {"plan", "read"}, lower' <= anchor, NEW e \in Entries
               PROVE  CatchesUp(e)' \/ (view[e] = Absent /\ Unread(e)')
    BY DEF EnumerationIsTrue
  <2>1. CatchesUp(e) \/ (view[e] = Absent /\ Unread(e))
    BY <1>1 DEF StoreInv, EnumerationIsTrue
  <2>2. Unread(e)' <=> Unread(e)
    BY DEF Unread
  <2>. QED
    BY <1>2, <2>1, <2>2
<1>4. AnsweredAnchorIsTrue'
  <2> SUFFICES ASSUME phase = "changes", lower' <= anchor, NEW e \in Entries
               PROVE  CatchesUp(e)'
    BY DEF AnsweredAnchorIsTrue, Answerable
  <2>1. CatchesUp(e)
    BY <1>1 DEF StoreInv, AnsweredAnchorIsTrue, Answerable
  <2>. QED
    BY <1>2, <2>1
<1>. QED
  BY <1>3, <1>4

-----------------------------------------------------------------------------
(* The operations of the store *)

\* An entry can look like nothing.
LEMMA AbsentShown == Absent \in Shown
BY DEF Shown

\* NoOrphans says that the table is such a tree.
LEMMA EntryClosed ==
  ASSUME StoreInv
  PROVE  Closed(entry)
BY ContainerNumbers, AboveEntry DEF StoreInv, NoOrphans, Present, Closed

\* And the other way round.
LEMMA NoOrphansNext ==
  ASSUME Closed(entry'), \A c \in fetched' : c # Root => entry'[c] # Absent
  PROVE  NoOrphans'
BY ContainerNumbers, AboveEntry DEF NoOrphans, Present, Closed

\* A listing of a known container changes what stands in it and, of what disappears,
\* everything below (replace_container, remove_descendant).
LEMMA ReplacedGrows ==
  ASSUME StoreInv, NEW c \in Containers, NEW listing \in Listings(c), Present(c)
  PROVE  /\ Grows(Replaced(c, listing))
         /\ c # Root => Replaced(c, listing)[c] # Absent
         /\ \A e \in Entries : DocOf[e] \in erased =>
                Replaced(c, listing)[e] \in {Absent, entry[e]}
<1> DEFINE new == Replaced(c, listing)
           leaves == {e \in Kids(c) : Fresh(e, listing) = Absent}
<1>1. \A e \in Entries :
          new[e] = IF Parent[e] = c THEN Fresh(e, listing)
                   ELSE IF Above(e) \cap leaves # {} THEN Absent ELSE entry[e]
  BY DEF Replaced
<1>2. \A l \in leaves : l \in Entries /\ Parent[l] = c /\ new[l] = Absent
  BY <1>1 DEF Kids, KidsOf
<1>3. new \in [Entries -> Shown]
  <2>1. ASSUME NEW e \in Entries
        PROVE  new[e] \in Shown
    <3>1. Absent \in Shown /\ entry[e] \in Shown
      BY AbsentShown DEF StoreInv, StoreTypes
    <3>2. Parent[e] = c => Fresh(e, listing) \in Shown
      BY <3>1 DEF Fresh, Listings, KidsOf
    <3>. QED
      BY <1>1, <3>1, <3>2
  <2>. QED
    BY <2>1 DEF Replaced
\* The container itself stays: nothing that stands in it stands above it.
<1>4. c # Root => new[c] # Absent
  <2> SUFFICES ASSUME c # Root PROVE new[c] # Absent
    OBVIOUS
  <2>1. c \in Entries /\ entry[c] # Absent
    BY ContainerNumbers DEF Present
  <2>2. Parent[c] # c
    BY <2>1, AboveEntry, ContainerNumbers
  <2>3. \A l \in leaves : l \notin Above(c)
    BY <1>2, <2>1, AboveEntry, ContainerNumbers
  <2>. QED
    BY <1>1, <2>1, <2>2, <2>3
<1>5. Closed(new)
  <2> SUFFICES ASSUME NEW e \in Entries, new[e] # Absent, Parent[e] # Root
               PROVE  new[Parent[e]] # Absent
    BY DEF Closed
  <2> DEFINE p == Parent[e]
  <2>1. CASE p = c
    BY <1>4, <2>1
  <2>2. CASE p # c
    <3>1. p \in Entries
      BY AboveEntry, ContainerNumbers
    <3>2. new[e] = entry[e] /\ Above(e) \cap leaves = {}
      BY <1>1, <2>2
    <3>3. entry[p] # Absent
      BY <3>2, EntryClosed DEF Closed
    <3>4. p \notin leaves /\ Above(p) \cap leaves = {}
      BY <1>2, <3>2, AboveParent, ContainerNumbers
    <3>5. Parent[p] = c => Fresh(p, listing) # Absent
      BY <3>1, <3>3, <3>4 DEF Kids, KidsOf, Present
    <3>. QED
      BY <1>1, <3>1, <3>3, <3>4, <3>5
  <2>. QED
    BY <2>1, <2>2
\* What it brings stands in a container that was there, what it takes had been there.
<1>6. ASSUME NEW e \in Changed(new), NEW f \in Above(e), f # Root
      PROVE  entry[f] # Absent
  <2>1. e \in Entries /\ new[e] # entry[e]
    BY DEF Changed
  <2>2. CASE entry[e] # Absent
    BY <1>6, <2>1, <2>2, AbovePresent, EntryClosed
  <2>3. CASE entry[e] = Absent
    <3>1. Parent[e] = c
      BY <1>1, <2>1, <2>3
    <3>2. CASE f = c
      BY <1>6, <3>2 DEF Present
    <3>3. CASE f # c
      <4>1. c # Root /\ f \in Above(c)
        BY <2>1, <3>1, <3>3, NamespaceAssumption DEF Above
      <4>2. c \in Entries /\ entry[c] # Absent
        BY <4>1, ContainerNumbers DEF Present
      <4>. QED
        BY <1>6, <4>1, <4>2, AbovePresent, EntryClosed
    <3>. QED
      BY <3>2, <3>3
  <2>. QED
    BY <2>2, <2>3
<1>7. \A e \in Entries : DocOf[e] \in erased => new[e] \in {Absent, entry[e]}
  BY <1>1 DEF Fresh
<1>. QED
  BY <1>3, <1>4, <1>5, <1>6, <1>7 DEF Grows

\* Rows that are left alone follow any change.
LEMMA JournalFollows ==
  ASSUME StoreInv, NEW new
  PROVE  Follows(journal, new)
BY DEF StoreInv, StoreTypes, Follows

\* A listing keeps the invariant (replace_container).
LEMMA ReplaceContainerKeeps ==
  ASSUME StoreInv, NEW c \in Containers, NEW listing \in Listings(c),
         ReplaceContainer(c, listing)
  PROVE  StoreInv'
<1> DEFINE new == Replaced(c, listing)
<1>1. /\ Present(c) /\ Write(journal, new, TRUE)
      /\ fetched' = (fetched \cup {c}) \ Forgotten(new)
      /\ erased' = erased /\ UNCHANGED platformVars
  BY DEF ReplaceContainer
<1>2. Grows(new) /\ Follows(journal, new)
  BY <1>1, ReplacedGrows, JournalFollows
<1> HIDE DEF new
<1>3. /\ BoundsTrue' /\ JournalComplete' /\ PlatformTypes'
      /\ entry' \in [Entries -> Shown] /\ last' \in Nat /\ lower' \in Nat
      /\ journal' \in [DOMAIN journal' -> JournalRow]
  BY <1>1, <1>2, WriteBounds
<1>4. RowsTell' /\ ChildrenLeaveFirst'
  BY <1>1, <1>2, WriteTells, WriteChildrenFirst
<1>5. EnumerationIsTrue' /\ AnsweredAnchorIsTrue'
  BY <1>1, <1>2, WriteCatchesUp
<1>6. StoreTypes'
  BY <1>1, <1>3 DEF StoreInv, StoreTypes
<1>7. entry' = new
  BY <1>1, <1>2, WrittenRows
<1>8. NoOrphans'
  <2>1. Closed(entry')
    BY <1>2, <1>7 DEF Grows
  <2>2. ASSUME NEW d \in fetched', d # Root
        PROVE  entry'[d] # Absent
    <3>1. CASE d = c
      BY <1>1, <1>7, <2>2, <3>1, ReplacedGrows DEF new
    <3>2. CASE d # c
      <4>1. d \in fetched /\ d \notin Forgotten(new) /\ d \in Folders
        BY <1>1, <2>2, <3>2, ContainerNumbers DEF StoreInv, StoreTypes
      <4>2. entry[d] # Absent
        BY <2>2, <4>1 DEF StoreInv, NoOrphans, Present
      <4>. QED
        BY <1>7, <4>1, <4>2 DEF Forgotten
    <3>. QED
      BY <3>1, <3>2
  <2>. QED
    BY <2>1, <2>2, NoOrphansNext
<1>9. /\ \A s \in DOMAIN journal' : s <= last \/ s > last
      /\ \A s \in DOMAIN journal' : s <= last => s \in DOMAIN journal /\ journal'[s] = journal[s]
      /\ \A s \in DOMAIN journal' : s > last => journal'[s].entry \in Changed(new)
  <2>1. /\ last \in Nat /\ lower' \in Nat /\ last' \in Nat
        /\ DOMAIN journal' = lower' + 1 .. last'
    BY <1>1, <1>2, WrittenRows
  <2>2. /\ \A s \in DOMAIN journal' : s <= last => s \in DOMAIN journal /\ journal'[s] = journal[s]
        /\ \A s \in DOMAIN journal' : s > last => journal'[s].entry \in Changed(new)
    BY <1>1, <1>2, WrittenRows
  <2>3. \A s \in DOMAIN journal' : s <= last \/ s > last
    BY <2>1
  <2>. QED
    BY <2>2, <2>3
<1>10. ErasedNameless'
  <2> SUFFICES ASSUME NEW d \in erased
               PROVE  /\ \A e \in Entries : DocOf[e] = d => new[e] = Absent
                      /\ \A s \in DOMAIN journal' :
                             DocOf[journal'[s].entry] = d => ~journal'[s].named
    BY <1>1, <1>7 DEF ErasedNameless
  <2>1. \A e \in Entries : DocOf[e] = d => new[e] = Absent /\ entry[e] = Absent
    BY <1>1, ReplacedGrows DEF StoreInv, ErasedNameless, new
  <2>2. ASSUME NEW s \in DOMAIN journal', DocOf[journal'[s].entry] = d
        PROVE  ~journal'[s].named
    <3>1. CASE s <= last
      BY <1>9, <2>2, <3>1 DEF StoreInv, ErasedNameless
    <3>2. CASE s > last
      BY <1>9, <2>1, <2>2, <3>2 DEF Changed
    <3>. QED
      BY <1>9, <3>1, <3>2
  <2>. QED
    BY <2>1, <2>2
<1>. QED
  BY <1>3, <1>4, <1>5, <1>6, <1>8, <1>10 DEF StoreInv

\* An erasure redacts what the journal told and removes what is left
\* (remove_document_everywhere, redact_journal).
LEMMA RemoveDocumentEverywhereKeeps ==
  ASSUME StoreInv, NEW d \in Documents, RemoveDocumentEverywhere(d)
  PROVE  StoreInv'
<1> DEFINE new == [e \in Entries |-> IF DocOf[e] = d THEN Absent ELSE entry[e]]
           rows == Redacted(d)
<1>1. /\ Write(rows, new, FALSE)
      /\ erased' = erased \cup {d}
      /\ fetched' = fetched /\ UNCHANGED platformVars
  BY DEF RemoveDocumentEverywhere
<1>2. \A c \in Containers : c = Root \/ (c \in Entries /\ DocOf[c] # d)
  BY ContainerNumbers, NamespaceAssumption
<1>3. Grows(new)
  <2>1. Absent \in Shown
    BY AbsentShown
  <2>2. new \in [Entries -> Shown]
    BY <2>1 DEF StoreInv, StoreTypes
  <2>3. Closed(new)
    <3> SUFFICES ASSUME NEW e \in Entries, new[e] # Absent, Parent[e] # Root
                 PROVE  new[Parent[e]] # Absent
      BY DEF Closed
    <3>1. Parent[e] \in Entries /\ DocOf[Parent[e]] # d
      BY <1>2, AboveEntry
    <3>. QED
      BY <3>1, EntryClosed DEF Closed
  <2>4. ASSUME NEW e \in Changed(new), NEW f \in Above(e), f # Root
        PROVE  entry[f] # Absent
    <3>1. e \in Entries /\ entry[e] # Absent
      BY DEF Changed
    <3>. QED
      BY <2>4, <3>1, AbovePresent, EntryClosed
  <2>. QED
    BY <2>2, <2>3, <2>4 DEF Grows
<1>4. Follows(rows, new)
  <2>1. ASSUME NEW s \in DOMAIN journal
        PROVE  /\ rows[s] \in JournalRow /\ rows[s].entry = journal[s].entry
               /\ rows[s].after \in {journal[s].after, new[journal[s].entry]}
               /\ journal[s].entry \in Folders => rows[s].after = journal[s].after
    <3>1. journal[s] \in JournalRow /\ journal[s].entry \in Entries
      BY DEF StoreInv, StoreTypes, JournalRow
    <3>2. Absent \in Shown
      BY AbsentShown
    <3>3. CASE DocOf[journal[s].entry] = d
      <4>1. rows[s] = [journal[s] EXCEPT !.after = Absent, !.named = FALSE]
        BY <3>3 DEF Redacted
      <4>2. new[journal[s].entry] = Absent /\ journal[s].entry \notin Folders
        BY <1>2, <3>1, <3>3, ContainerNumbers
      <4>. QED
        BY <3>1, <3>2, <4>1, <4>2 DEF JournalRow
    <3>4. CASE DocOf[journal[s].entry] # d
      BY <3>1, <3>4 DEF Redacted
    <3>. QED
      BY <3>3, <3>4
  <2>2. rows \in [DOMAIN journal -> JournalRow]
    BY <2>1 DEF Redacted
  <2>. QED
    BY <2>1, <2>2 DEF Follows
<1>5. \A s \in DOMAIN journal : IF DocOf[journal[s].entry] = d THEN ~rows[s].named
                                ELSE rows[s] = journal[s]
  BY DEF StoreInv, StoreTypes, JournalRow, Redacted
<1>6. \A e \in Entries : new[e] = IF DocOf[e] = d THEN Absent ELSE entry[e]
  OBVIOUS
<1> HIDE DEF new, rows
<1>7. /\ BoundsTrue' /\ JournalComplete' /\ PlatformTypes'
      /\ entry' \in [Entries -> Shown] /\ last' \in Nat /\ lower' \in Nat
      /\ journal' \in [DOMAIN journal' -> JournalRow]
  BY <1>1, <1>3, <1>4, WriteBounds
<1>8. RowsTell' /\ ChildrenLeaveFirst'
  BY <1>1, <1>3, <1>4, WriteTells, WriteChildrenFirst
<1>9. EnumerationIsTrue' /\ AnsweredAnchorIsTrue'
  BY <1>1, <1>3, <1>4, WriteCatchesUp
<1>10. StoreTypes'
  BY <1>1, <1>7 DEF StoreInv, StoreTypes
<1>11. entry' = new
  BY <1>1, <1>4, WrittenRows
<1>12. NoOrphans'
  <2>1. Closed(entry')
    BY <1>3, <1>11 DEF Grows
  <2>2. \A c \in fetched' : c # Root => entry'[c] # Absent
    BY <1>1, <1>2, <1>6, <1>11 DEF StoreInv, StoreTypes, NoOrphans, Present
  <2>. QED
    BY <2>1, <2>2, NoOrphansNext
<1>13. ErasedNameless'
  <2> SUFFICES ASSUME NEW g \in erased \cup {d}
               PROVE  /\ \A e \in Entries : DocOf[e] = g => new[e] = Absent
                      /\ \A s \in DOMAIN journal' :
                             DocOf[journal'[s].entry] = g => ~journal'[s].named
    BY <1>1, <1>11 DEF ErasedNameless
  <2>1. \A e \in Entries : DocOf[e] = g => new[e] = Absent
    BY <1>6 DEF StoreInv, ErasedNameless
  <2>2. ASSUME NEW s \in DOMAIN journal', DocOf[journal'[s].entry] = g
        PROVE  ~journal'[s].named
    <3>1. s <= last \/ s > last
      <4>1. /\ last \in Nat /\ lower' \in Nat /\ last' \in Nat
            /\ DOMAIN journal' = lower' + 1 .. last'
        BY <1>1, <1>4, WrittenRows
      <4>. QED
        BY <4>1
    <3>2. CASE s <= last
      <4>1. s \in DOMAIN journal /\ journal'[s] = rows[s] /\ rows[s].entry = journal[s].entry
        BY <1>1, <1>4, <3>2, WrittenRows DEF Follows
      <4>. QED
        BY <1>5, <2>2, <4>1 DEF StoreInv, ErasedNameless
    <3>3. CASE s > last
      BY <1>1, <1>4, <3>3, WrittenRows
    <3>. QED
      BY <3>1, <3>2, <3>3
  <2>. QED
    BY <2>1, <2>2
<1>. QED
  BY <1>7, <1>8, <1>9, <1>10, <1>12, <1>13 DEF StoreInv

\* A tombstone without effect protects nothing any more.
LEMMA TombstoneLapsesKeeps ==
  ASSUME StoreInv, NEW d \in Documents, TombstoneLapses(d)
  PROVE  StoreInv'
<1>1. StoreTypes' /\ PlatformTypes' /\ BoundsTrue' /\ JournalComplete'
  BY DEF StoreInv, StoreTypes, PlatformTypes, BoundsTrue, JournalComplete, TombstoneLapses
<1>2. NoOrphans' /\ RowsTell' /\ ChildrenLeaveFirst'
  BY DEF StoreInv, NoOrphans, Present, RowsTell, ChildrenLeaveFirst, TombstoneLapses
<1>3. ErasedNameless'
  BY DEF StoreInv, ErasedNameless, TombstoneLapses
<1>4. EnumerationIsTrue' /\ AnsweredAnchorIsTrue'
  BY DEF StoreInv, EnumerationIsTrue, AnsweredAnchorIsTrue, Answerable, CatchesUp, Unread,
     TombstoneLapses
<1>. QED
  BY <1>1, <1>2, <1>3, <1>4 DEF StoreInv

\* The sign-out takes everything, and a number, so that no anchor is answered any more
\* (empty_namespace).
LEMMA EmptyNamespaceKeeps ==
  ASSUME StoreInv, EmptyNamespace
  PROVE  StoreInv'
<1>1. /\ entry' = [e \in Entries |-> Absent] /\ fetched' = {}
      /\ journal' = [s \in {} |-> 0] /\ last' = last + 1 /\ lower' = last + 1
      /\ erased' = erased /\ UNCHANGED platformVars
  BY DEF EmptyNamespace, AfterEmptying
<1>2. last \in Nat /\ anchor \in Nat /\ anchor <= last /\ DOMAIN journal' = {}
  BY <1>1 DEF StoreInv, StoreTypes, PlatformTypes, BoundsTrue
<1>3. StoreTypes'
  <2>1. Absent \in Shown
    BY AbsentShown
  <2>. QED
    BY <1>1, <1>2, <2>1 DEF StoreInv, StoreTypes
<1>4. PlatformTypes' /\ BoundsTrue'
  BY <1>1, <1>2 DEF StoreInv, PlatformTypes, BoundsTrue
<1>5. JournalComplete'
  BY <1>1, <1>2, NamespaceAssumption DEF JournalComplete
<1>6. NoOrphans'
  BY <1>1, ContainerNumbers DEF NoOrphans, Present
<1>7. RowsTell' /\ ChildrenLeaveFirst' /\ ErasedNameless'
  BY <1>1, <1>2 DEF RowsTell, ChildrenLeaveFirst, ErasedNameless
<1>8. EnumerationIsTrue' /\ AnsweredAnchorIsTrue'
  BY <1>1, <1>2 DEF EnumerationIsTrue, AnsweredAnchorIsTrue, Answerable
<1>. QED
  BY <1>3, <1>4, <1>5, <1>6, <1>7, <1>8 DEF StoreInv

-----------------------------------------------------------------------------
(* The platform *)

\* What the platform does leaves the store alone.
LEMMA StoreRests ==
  ASSUME StoreInv, UNCHANGED storeVars
  PROVE  /\ StoreTypes' /\ JournalComplete' /\ NoOrphans' /\ ErasedNameless' /\ RowsTell'
         /\ ChildrenLeaveFirst'
         /\ last' \in Nat /\ lower' \in Nat
<1>1. StoreTypes' /\ JournalComplete' /\ last' \in Nat /\ lower' \in Nat
  BY DEF StoreInv, StoreTypes, JournalComplete
<1>2. NoOrphans' /\ ErasedNameless' /\ RowsTell' /\ ChildrenLeaveFirst'
  BY DEF StoreInv, NoOrphans, Present, ErasedNameless, RowsTell, ChildrenLeaveFirst
<1>. QED
  BY <1>1, <1>2

\* What is shown as it is held, or has a row to come, is caught up with.
LEMMA CaughtUp ==
  ASSUME StoreInv, UNCHANGED storeVars, PlatformTypes', lower <= anchor', NEW e \in Entries
  PROVE  /\ view'[e] = entry[e] => CatchesUp(e)'
         /\ anchor' = anchor /\ view'[e] = view[e] /\ CatchesUp(e) => CatchesUp(e)'
         /\ (\E s \in anchor' + 1 .. last : journal[s].entry = e) => CatchesUp(e)'
<1>1. CatchesUp(e)' <=> \/ \E s \in anchor' + 1 .. last' : journal'[s].entry = e
                        \/ view'[e] = entry'[e]
  <2>1. lower' <= anchor' /\ anchor' \in Nat
    BY DEF PlatformTypes
  <2>. QED
    BY <2>1, StoreRests, TellsNext
<1>2. lower <= anchor /\ CatchesUp(e) => \/ \E s \in anchor + 1 .. last : journal[s].entry = e
                                         \/ view[e] = entry[e]
  BY TellsNow
<1>. QED
  BY <1>1, <1>2

\* The platform takes the anchor before it reads the first page (currentSyncAnchor).
LEMMA TakeAnchorKeeps ==
  ASSUME StoreInv, TakeAnchor
  PROVE  StoreInv'
<1>1. /\ anchor' = last /\ view' = [e \in Entries |-> Absent] /\ marker' = NoMarker
      /\ phase' = "plan" /\ UNCHANGED storeVars
  BY DEF TakeAnchor
<1>2. PlatformTypes' /\ BoundsTrue'
  <2>1. NoMarker \in Marker /\ NoMarker.open \subseteq NoMarker.found
    BY DEF NoMarker, Marker, Containers
  <2>2. view' \in [Entries -> Shown]
    BY <1>1, AbsentShown
  <2>. QED
    BY <1>1, <2>1, <2>2 DEF StoreInv, StoreTypes, PlatformTypes, BoundsTrue, Phases
<1>3. EnumerationIsTrue'
  <2>1. \A e \in Entries : Parent[e] <= Root
    BY AboveEntry, ContainerNumbers
  <2>. QED
    BY <1>1, <2>1 DEF EnumerationIsTrue, Unread, NoMarker
<1>4. AnsweredAnchorIsTrue'
  BY <1>1 DEF AnsweredAnchorIsTrue
<1>. QED
  BY <1>1, <1>2, <1>3, <1>4, StoreRests DEF StoreInv

\* The enumeration starts over, whatever it had read.
LEMMA BeginsAgain ==
  ASSUME StoreInv, phase' \in {"begin", "gone"}, marker' \in {marker, NoMarker},
         UNCHANGED <<storeVars, anchor, view>>
  PROVE  StoreInv'
<1>1. NoMarker \in Marker /\ NoMarker.open \subseteq NoMarker.found
  BY DEF NoMarker, Marker, Containers
<1>2. PlatformTypes' /\ BoundsTrue' /\ EnumerationIsTrue' /\ AnsweredAnchorIsTrue'
  BY <1>1
     DEF StoreInv, PlatformTypes, BoundsTrue, Phases, EnumerationIsTrue, AnsweredAnchorIsTrue
<1>. QED
  BY <1>2, StoreRests DEF StoreInv

\* Below a folder that is not there, nothing is.
LEMMA NothingBelow ==
  ASSUME StoreInv, NEW e \in Entries, NEW k \in Above(e), ~Present(k)
  PROVE  entry[e] = Absent
<1>1. /\ Parent[e] \in 1 .. Root /\ Parent[Parent[e]] \in 1 .. Root
      /\ k \in {Parent[e], Parent[Parent[e]], Parent[Parent[Parent[e]]]}
  <2>1. Parent[e] \in Containers /\ Parent[Parent[e]] \in Containers
    BY AboveEntry DEF Above
  <2>. QED
    BY <2>1, ContainerNumbers DEF Above, Containers, Folders
<1>2. ASSUME NEW x \in 1 .. Root, ~Present(Parent[x])
      PROVE  ~Present(x)
  <2>1. x # Root
    BY <1>2, NamespaceAssumption DEF Present
  <2>2. x \in Entries
    BY <2>1, NamespaceAssumption
  <2>. QED
    BY <1>2, <2>2 DEF StoreInv, NoOrphans
<1>3. ~Present(Parent[e])
  BY <1>1, <1>2
<1>. QED
  BY <1>3, ContainerNumbers DEF StoreInv, NoOrphans, Present

\* From a container above an entry, one goes down towards it: over a folder that holds folders,
\* or to the folder it stands in.
LEMMA TowardsEntry ==
  ASSUME NEW e \in Entries, NEW c \in Above(e) \cup {Root}, c # Parent[e]
  PROVE  \E k \in Above(e) \cap Folders : Parent[k] = c /\ (k = Parent[e] \/ k \in Branching)
<1> DEFINE p == Parent[e]
           q == Parent[p]
           r == Parent[q]
<1>1. /\ p \in Containers /\ q \in Containers /\ r \in Containers /\ Parent[r] = Root
      /\ Parent[Root] = Root /\ Above(e) = {p, q, r}
      /\ \A x \in Containers : x = Root \/ (x \in Folders /\ Parent[x] \in Containers)
  <2>1. \A x \in Containers : x \in 1 .. Root /\ (x = Root \/ x \in Folders)
    BY ContainerNumbers DEF Containers, Folders
  <2>2. \A x \in Containers : Parent[x] \in Containers
    BY <2>1, NamespaceAssumption
  <2>. QED
    BY <2>1, <2>2, AboveEntry, NamespaceAssumption DEF Above
<1>2. ASSUME NEW x \in Folders, Parent[x] \in Containers
      PROVE  Parent[x] \in Branching
  <2>1. x \in KidsOf(Parent[x])
    BY <1>2, ContainerNumbers DEF KidsOf
  <2>. QED
    BY <1>2, <2>1 DEF Branching
<1> HIDE DEF p, q, r
<1>3. c \in {q, r, Root} /\ c # p
  BY <1>1 DEF p
<1>4. q = Parent[p] /\ r = Parent[q] /\ p = Parent[e]
  BY DEF p, q, r
<1>5. CASE p = Root
  BY <1>1, <1>3, <1>4, <1>5
<1>6. CASE p # Root /\ c = q
  BY <1>1, <1>4, <1>6
<1>7. CASE p # Root /\ q # Root /\ c = r
  BY <1>1, <1>2, <1>4, <1>7
<1>8. CASE p # Root /\ q # Root /\ r # Root /\ c = Root
  BY <1>1, <1>2, <1>4, <1>8
<1>9. (q = Root => r = Root) /\ (p = Root => q = Root)
  BY <1>1, <1>4
<1>. QED
  BY <1>3, <1>5, <1>6, <1>7, <1>8, <1>9

\* A container is asked for its folders; what stands below one that is not among them is not
\* there (folders_in).
LEMMA AskFoldersKeeps ==
  ASSUME StoreInv, NEW c \in Containers, AskFolders(c)
  PROVE  StoreInv'
<1>1. CASE phase' = "gone" /\ marker' = NoMarker
  BY <1>1, BeginsAgain DEF AskFolders
<1>2. CASE /\ Present(c) /\ phase' = phase
           /\ marker' = [marker EXCEPT !.found = @ \cup (Kids(c) \cap Folders),
                                       !.open = (@ \ {c}) \cup (Kids(c) \cap Branching)]
  <2>1. /\ UNCHANGED <<storeVars, anchor, view>> /\ phase = "plan" /\ c \in marker.open
        /\ marker \in Marker /\ marker.open \subseteq marker.found
    BY DEF AskFolders, StoreInv, PlatformTypes
  <2>2. /\ marker' \in Marker
        /\ marker'.found = marker.found \cup (Kids(c) \cap Folders)
        /\ marker'.open = (marker.open \ {c}) \cup (Kids(c) \cap Branching)
        /\ marker'.at = marker.at /\ marker'.given = marker.given
    BY <1>2, <2>1, ContainerNumbers DEF Marker, Branching
  <2>3. marker'.open \subseteq marker'.found
    <3>1. Kids(c) \cap Branching \subseteq Folders
      BY ContainerNumbers DEF Kids, KidsOf, Branching
    <3>. QED
      BY <2>1, <2>2, <3>1
  <2>4. PlatformTypes' /\ BoundsTrue'
    BY <1>2, <2>1, <2>2, <2>3 DEF StoreInv, PlatformTypes, BoundsTrue
  <2>5. EnumerationIsTrue'
    <3> SUFFICES ASSUME lower <= anchor, NEW e \in Entries
                 PROVE  CatchesUp(e)' \/ (view[e] = Absent /\ Unread(e)')
      BY <2>1 DEF EnumerationIsTrue
    <3>1. CatchesUp(e) \/ (view[e] = Absent /\ Unread(e))
      BY <2>1 DEF StoreInv, EnumerationIsTrue
    <3>2. CASE CatchesUp(e)
      BY <2>1, <2>4, <3>2, CaughtUp
    <3>3. CASE view[e] = Absent /\ Unread(e)
      <4>1. /\ Parent[e] <= marker'.at /\ e \notin marker'.given
            /\ phase' = "plan"
        BY <1>2, <2>1, <2>2, <3>3 DEF Unread
      <4>2. CASE Parent[e] \in marker.found
        BY <2>2, <3>3, <4>1, <4>2 DEF Unread
      <4>3. CASE \E a \in (Above(e) \cup {Root}) \cap marker.open : a # c
        BY <2>2, <3>3, <4>1, <4>3 DEF Unread
      <4>4. CASE Parent[e] \notin marker.found /\ c \in Above(e) \cup {Root}
        <5>1. PICK k \in Above(e) \cap Folders :
                      Parent[k] = c /\ (k = Parent[e] \/ k \in Branching)
          BY <2>1, <4>4, TowardsEntry
        <5>2. k \in Entries
          BY <5>1, ContainerNumbers
        <5>3. CASE Present(k)
          <6>1. k \in Kids(c) \cap Folders
            BY <5>1, <5>2, <5>3 DEF Kids, KidsOf
          <6>. QED
            BY <2>2, <3>3, <4>1, <5>1, <6>1 DEF Unread
        <5>4. CASE ~Present(k)
          <6>1. entry[e] = Absent
            BY <5>1, <5>4, NothingBelow
          <6>. QED
            BY <2>1, <2>4, <3>3, <6>1, CaughtUp
        <5>. QED
          BY <5>3, <5>4
      <4>. QED
        BY <2>1, <3>3, <4>2, <4>3, <4>4 DEF Unread
    <3>. QED
      BY <3>1, <3>2, <3>3
  <2>6. AnsweredAnchorIsTrue'
    BY <1>2, <2>1 DEF AnsweredAnchorIsTrue
  <2>. QED
    BY <2>1, <2>4, <2>5, <2>6, StoreRests DEF StoreInv
<1>. QED
  BY <1>1, <1>2 DEF AskFolders

\* The plan is complete: what stands in a container that was not found has been caught up with
\* (read_page).
LEMMA ComputePlanKeeps ==
  ASSUME StoreInv, ComputePlan
  PROVE  StoreInv'
<1>1. CASE phase' = "begin" /\ marker' = NoMarker
  BY <1>1, BeginsAgain DEF ComputePlan
<1>2. CASE phase' = "read" /\ marker' = [marker EXCEPT !.plan = marker.found]
  <2>1. UNCHANGED <<storeVars, anchor, view>> /\ phase = "plan" /\ marker.open = {}
    BY DEF ComputePlan
  <2>2. /\ marker' \in Marker /\ marker'.plan = marker.found
        /\ marker'.at = marker.at /\ marker'.given = marker.given
        /\ marker'.open \subseteq marker'.found
    BY <1>2 DEF StoreInv, PlatformTypes, Marker
  <2>3. PlatformTypes' /\ BoundsTrue'
    BY <1>2, <2>1, <2>2 DEF StoreInv, PlatformTypes, BoundsTrue, Phases
  <2>4. EnumerationIsTrue'
    <3> SUFFICES ASSUME lower <= anchor, NEW e \in Entries
                 PROVE  CatchesUp(e)' \/ (view[e] = Absent /\ Unread(e)')
      BY <2>1 DEF EnumerationIsTrue
    <3>1. CatchesUp(e) \/ (view[e] = Absent /\ Unread(e))
      BY <2>1 DEF StoreInv, EnumerationIsTrue
    <3>2. CASE CatchesUp(e)
      BY <2>1, <2>3, <3>2, CaughtUp
    <3>3. CASE view[e] = Absent /\ Unread(e)
      BY <1>2, <2>1, <2>2, <3>3 DEF Unread
    <3>. QED
      BY <3>1, <3>2, <3>3
  <2>5. AnsweredAnchorIsTrue'
    BY <1>2 DEF AnsweredAnchorIsTrue
  <2>. QED
    BY <2>1, <2>3, <2>4, <2>5, StoreRests DEF StoreInv
<1>. QED
  BY <1>1, <1>2 DEF ComputePlan

\* A page shows what it reads as it is; when a container is read to its end, nothing of it is
\* still ahead but what is not there (read_page).
LEMMA ReadPageKeeps ==
  ASSUME StoreInv, ReadPage
  PROVE  StoreInv'
<1> DEFINE ahead == {c \in marker.plan : c < marker.at}
           done == marker.given \cup Chunk = Kids(marker.at)
<1>1. /\ phase = "read"
      /\ view' = [e \in Entries |-> IF e \in Chunk THEN entry[e] ELSE view[e]]
      /\ UNCHANGED <<storeVars, anchor>>
  BY DEF ReadPage
<1>2. \/ /\ marker' = Turned(marker.at, marker.given \cup Chunk, Kids(marker.at))
         /\ phase' = "plan"
      \/ /\ done
         /\ \E c \in ahead :
               /\ \A d \in ahead : d <= c
               /\ marker' = Turned(c, {}, {})
         /\ phase' = "plan"
      \/ /\ done /\ ahead = {}
         /\ marker' = NoMarker /\ phase' = "changes"
  BY DEF ReadPage
<1>3. /\ Chunk \subseteq Entries /\ Kids(marker.at) \subseteq Entries
      /\ marker \in Marker /\ marker.at \in Containers /\ marker.plan \subseteq Containers
  BY DEF StoreInv, PlatformTypes, Marker, Chunk, Kids, KidsOf
<1>4. marker' \in Marker /\ marker'.open \subseteq marker'.found
  <2>1. NoMarker \in Marker /\ NoMarker.open \subseteq NoMarker.found
    BY DEF NoMarker, Marker, Containers
  <2>2. ASSUME NEW c \in ahead, marker' = Turned(c, {}, {})
        PROVE  marker' \in Marker /\ marker'.open \subseteq marker'.found
    <3>1. c \in Containers /\ {} \in SUBSET Entries
      BY <1>3, <2>2
    <3>. QED
      BY <1>3, <2>2, <3>1 DEF Turned, NoMarker, Marker, Containers
  <2>3. ASSUME marker' = Turned(marker.at, marker.given \cup Chunk, Kids(marker.at))
        PROVE  marker' \in Marker /\ marker'.open \subseteq marker'.found
    <3>1. marker.given \cup Chunk \in SUBSET Entries /\ Kids(marker.at) \in SUBSET Entries
      BY <1>3 DEF Marker
    <3>. QED
      BY <1>3, <2>3, <3>1 DEF Turned, NoMarker, Marker, Containers
  <2>. QED
    BY <1>2, <2>1, <2>2, <2>3
<1>5. PlatformTypes' /\ BoundsTrue'
  <2>1. view' \in [Entries -> Shown]
    BY <1>1 DEF StoreInv, StoreTypes, PlatformTypes
  <2>2. phase' \in Phases
    BY <1>2 DEF Phases
  <2>. QED
    BY <1>1, <1>4, <2>1, <2>2 DEF StoreInv, PlatformTypes, BoundsTrue
\* What has been true of an entry stays true, or the entry is not there.
<1>6. ASSUME NEW e \in Entries, lower <= anchor
      PROVE  \/ CatchesUp(e)'
             \/ /\ view[e] = Absent /\ view'[e] = Absent /\ e \notin Chunk
                /\ Unread(e) /\ Parent[e] \in marker.plan
                /\ done => Parent[e] # marker.at
  <2>1. CatchesUp(e) \/ (view[e] = Absent /\ Unread(e))
    BY <1>1, <1>6 DEF StoreInv, EnumerationIsTrue
  <2>2. CASE e \in Chunk
    BY <1>1, <1>5, <1>6, <2>2, CaughtUp
  <2>3. CASE CatchesUp(e) /\ e \notin Chunk
    BY <1>1, <1>5, <1>6, <2>3, CaughtUp
  <2>4. CASE view[e] = Absent /\ Unread(e) /\ e \notin Chunk
    <3>1. view'[e] = view[e] /\ Parent[e] \in marker.plan /\ e \notin marker.given
      BY <1>1, <2>4 DEF Unread
    <3>2. CASE done /\ Parent[e] = marker.at
      <4>1. entry[e] = Absent
        BY <2>4, <3>1, <3>2 DEF Kids, KidsOf, Present
      <4>. QED
        BY <1>1, <1>5, <1>6, <2>4, <3>1, <4>1, CaughtUp
    <3>. QED
      BY <2>4, <3>1, <3>2
  <2>. QED
    BY <2>1, <2>2, <2>3, <2>4
<1>7. EnumerationIsTrue'
  <2> SUFFICES ASSUME phase' = "plan", lower <= anchor, NEW e \in Entries,
                      view'[e] = Absent, e \notin Chunk, Unread(e), Parent[e] \in marker.plan,
                      done => Parent[e] # marker.at
               PROVE  Parent[e] <= marker'.at /\ e \notin marker'.given /\ marker'.open = {Root}
    BY <1>1, <1>2, <1>6 DEF EnumerationIsTrue, Unread
  <2>1. CASE marker' = Turned(marker.at, marker.given \cup Chunk, Kids(marker.at))
    <3>1. marker.given \cup Chunk \in SUBSET Entries /\ Kids(marker.at) \in SUBSET Entries
      BY <1>3 DEF Marker
    <3>2. /\ marker'.at = marker.at /\ marker'.given = marker.given \cup Chunk
          /\ marker'.open = {Root}
      BY <1>3, <2>1, <3>1 DEF Turned, NoMarker, Marker
    <3>. QED
      BY <3>2 DEF Unread
  <2>2. ASSUME done, NEW c \in ahead, \A d \in ahead : d <= c, marker' = Turned(c, {}, {})
        PROVE  Parent[e] <= marker'.at /\ e \notin marker'.given /\ marker'.open = {Root}
    <3>1. c \in Containers /\ {} \in SUBSET Entries
      BY <1>3, <2>2
    <3>2. marker'.at = c /\ marker'.given = {} /\ marker'.open = {Root}
      BY <1>3, <2>2, <3>1 DEF Turned, NoMarker, Marker
    <3>3. Parent[e] < marker.at
      <4>1. Parent[e] <= marker.at /\ Parent[e] # marker.at
        BY <2>2 DEF Unread
      <4>2. Parent[e] \in Nat /\ marker.at \in Nat
        BY <1>3, AboveEntry, ContainerNumbers
      <4>. QED
        BY <4>1, <4>2
    <3>4. Parent[e] \in ahead
      BY <3>3
    <3>. QED
      BY <2>2, <3>2, <3>4
  <2>. QED
    BY <1>2, <2>1, <2>2
<1>8. AnsweredAnchorIsTrue'
  <2> SUFFICES ASSUME phase' = "changes", lower <= anchor, NEW e \in Entries
               PROVE  CatchesUp(e)'
    BY <1>1 DEF AnsweredAnchorIsTrue, Answerable
  <2>1. done /\ ahead = {}
    BY <1>2
  <2>2. ~(Unread(e) /\ Parent[e] \in marker.plan /\ Parent[e] # marker.at)
    <3>1. Parent[e] \in Nat /\ marker.at \in Nat
      BY <1>3, AboveEntry, ContainerNumbers
    <3>2. Parent[e] \in marker.plan => ~(Parent[e] < marker.at)
      BY <2>1
    <3>. QED
      BY <3>1, <3>2 DEF Unread
  <2>. QED
    BY <1>6, <2>1, <2>2
<1>. QED
  BY <1>1, <1>5, <1>7, <1>8, StoreRests DEF StoreInv

\* A page of changes brings every entry it names to its latest look in the page; if no row is
\* left about it, that is how it is held (changes_since).
LEMMA ReadChangeKeeps ==
  ASSUME StoreInv, ReadChange
  PROVE  StoreInv'
<1> DEFINE until == IF anchor + PageMax < last THEN anchor + PageMax ELSE last
           rows(e) == {s \in DOMAIN journal : anchor < s /\ s <= until /\ journal[s].entry = e}
           latest(e) == CHOOSE s \in rows(e) : \A t \in rows(e) : t <= s
<1>1. /\ phase = "changes" /\ Answerable /\ anchor < last
      /\ anchor' = until
      /\ view' = [e \in Entries |-> IF rows(e) = {} THEN view[e] ELSE journal[latest(e)].after]
      /\ UNCHANGED <<storeVars, phase, marker>>
  BY DEF ReadChange
<1>2. /\ anchor \in Nat /\ last \in Nat /\ lower \in Nat /\ until \in Nat
      /\ lower <= anchor /\ anchor <= until /\ until <= last
      /\ DOMAIN journal = lower + 1 .. last
  BY <1>1, NamespaceAssumption
     DEF StoreInv, StoreTypes, PlatformTypes, Answerable, JournalComplete
<1>3. ASSUME NEW e \in Entries, rows(e) # {}
      PROVE  latest(e) \in rows(e) /\ \A t \in rows(e) : t <= latest(e)
  <2>1. rows(e) \subseteq Nat /\ \A s \in rows(e) : s <= until
    BY <1>2
  <2>2. \E s \in rows(e) : \A t \in rows(e) : t <= s
    BY <1>2, <1>3, <2>1, LastOf
  <2>. QED
    BY <2>2
<1>4. PlatformTypes' /\ BoundsTrue'
  <2>1. ASSUME NEW e \in Entries
        PROVE  view'[e] \in Shown
    <3>1. CASE rows(e) = {}
      BY <1>1, <3>1 DEF StoreInv, PlatformTypes
    <3>2. CASE rows(e) # {}
      <4>1. latest(e) \in DOMAIN journal
        BY <1>3, <3>2
      <4>2. journal[latest(e)].after \in Shown
        BY <4>1 DEF StoreInv, StoreTypes, JournalRow
      <4>. QED
        BY <1>1, <3>2, <4>2
    <3>. QED
      BY <3>1, <3>2
  <2>2. view' \in [Entries -> Shown]
    BY <1>1, <2>1
  <2>. QED
    BY <1>1, <1>2, <2>2 DEF StoreInv, PlatformTypes, BoundsTrue
<1>5. ASSUME NEW e \in Entries
      PROVE  CatchesUp(e)'
  <2>1. CASE \E s \in until + 1 .. last : journal[s].entry = e
    BY <1>1, <1>2, <1>4, <2>1, CaughtUp
  <2>2. CASE /\ \A s \in until + 1 .. last : journal[s].entry # e
             /\ rows(e) = {}
    <3>1. \A s \in anchor + 1 .. last : journal[s].entry # e
      BY <1>2, <2>2
    <3>2. view[e] = entry[e]
      BY <1>1, <1>2, <3>1, TellsNow DEF StoreInv, AnsweredAnchorIsTrue
    <3>. QED
      BY <1>1, <1>2, <1>4, <2>2, <3>2, CaughtUp
  <2>3. CASE /\ \A s \in until + 1 .. last : journal[s].entry # e
             /\ rows(e) # {}
    <3>1. latest(e) \in rows(e) /\ \A t \in rows(e) : t <= latest(e)
      BY <1>3, <2>3
    <3>2. PICK u \in DOMAIN journal :
               /\ journal[u].entry = e /\ journal[u].after = entry[e]
               /\ \A t \in DOMAIN journal : t > u => journal[t].entry # e
      BY <3>1 DEF StoreInv, RowsTell
    <3>3. u \in rows(e) /\ u >= latest(e)
      <4>1. u \in Nat /\ u <= last /\ latest(e) \in Nat /\ anchor < latest(e)
        BY <1>2, <3>1, <3>2
      <4>2. ~(latest(e) > u)
        BY <3>1, <3>2
      <4>3. u <= until
        BY <1>2, <2>3, <3>2, <4>1
      <4>. QED
        BY <1>2, <3>2, <4>1, <4>2, <4>3
    <3>4. u = latest(e)
      BY <1>2, <3>1, <3>3
    <3>5. view'[e] = entry[e]
      BY <1>1, <2>3, <3>2, <3>4
    <3>. QED
      <4>1. UNCHANGED storeVars /\ lower <= anchor'
        BY <1>1, <1>2
      <4>. QED
        BY <1>4, <3>5, <4>1, CaughtUp
  <2>. QED
    BY <2>1, <2>2, <2>3
<1>6. EnumerationIsTrue' /\ AnsweredAnchorIsTrue'
  BY <1>1, <1>5 DEF EnumerationIsTrue, AnsweredAnchorIsTrue
<1>. QED
  BY <1>1, <1>4, <1>6, StoreRests DEF StoreInv

-----------------------------------------------------------------------------
\* An empty store before the platform has asked for anything.
LEMMA InitStore == Init => StoreInv
<1> SUFFICES ASSUME Init PROVE StoreInv
  OBVIOUS
<1>1. StoreTypes /\ PlatformTypes /\ BoundsTrue
  <2>1. NoMarker \in Marker /\ NoMarker.open \subseteq NoMarker.found
    BY DEF NoMarker, Marker, Containers
  <2>. QED
    BY <2>1, AbsentShown DEF Init, StoreTypes, PlatformTypes, BoundsTrue, Phases
<1>2. JournalComplete
  BY NamespaceAssumption DEF Init, JournalComplete
<1>3. NoOrphans /\ ErasedNameless /\ RowsTell /\ ChildrenLeaveFirst
  BY ContainerNumbers
     DEF Init, NoOrphans, Present, ErasedNameless, RowsTell, ChildrenLeaveFirst
<1>4. EnumerationIsTrue /\ AnsweredAnchorIsTrue
  BY DEF Init, EnumerationIsTrue, AnsweredAnchorIsTrue
<1>. QED
  BY <1>1, <1>2, <1>3, <1>4 DEF StoreInv

\* Every step keeps the invariant.
LEMMA NextStore == StoreInv /\ [Next]_vars => StoreInv'
<1> SUFFICES ASSUME StoreInv, [Next]_vars PROVE StoreInv'
  OBVIOUS
<1>1. CASE StoreWrites
  BY <1>1, ReplaceContainerKeeps, RemoveDocumentEverywhereKeeps, TombstoneLapsesKeeps,
     EmptyNamespaceKeeps DEF StoreWrites
<1>2. CASE PlatformFollows
  <2>1. CASE TakeAnchor
    BY <2>1, TakeAnchorKeeps
  <2>2. CASE ComputePlan \/ \E c \in Containers : AskFolders(c)
    BY <2>2, ComputePlanKeeps, AskFoldersKeeps
  <2>3. CASE ReadExpired \/ AnchorExpired
    BY <2>3, BeginsAgain DEF ReadExpired, AnchorExpired
  <2>4. CASE ReadPage
    BY <2>4, ReadPageKeeps
  <2>5. CASE ReadChange
    BY <2>5, ReadChangeKeeps
  <2>. QED
    BY <1>2, <2>1, <2>2, <2>3, <2>4, <2>5 DEF PlatformFollows
<1>3. CASE UNCHANGED vars
  <2>1. PlatformTypes' /\ BoundsTrue'
    BY <1>3 DEF StoreInv, PlatformTypes, BoundsTrue
  <2>2. EnumerationIsTrue' /\ AnsweredAnchorIsTrue'
    BY <1>3 DEF StoreInv, EnumerationIsTrue, AnsweredAnchorIsTrue, Answerable, CatchesUp, Unread
  <2>. QED
    BY <1>3, <2>1, <2>2, StoreRests DEF StoreInv
<1>. QED
  BY <1>1, <1>2, <1>3 DEF Next

\* The invariant holds in every state.
THEOREM StoreInvariant == Spec => []StoreInv
BY InitStore, NextStore, PTL DEF Spec

\* The journal has no gap, the tree no orphan, an erased document no name, and a folder leaves
\* after what stood in it (journal, replace_container, remove_document_everywhere).
THEOREM NamespaceHolds == Spec => []NamespaceInv
<1>1. StoreInv => NamespaceInv
  <2> SUFFICES ASSUME StoreInv PROVE NamespaceInv
    OBVIOUS
  <2>1. DOMAIN journal \subseteq Nat
    BY DEF StoreInv, StoreTypes, JournalComplete
  <2>2. TypeOK
    BY <2>1 DEF StoreInv, StoreTypes, PlatformTypes, TypeOK
  <2>. QED
    BY <2>2 DEF StoreInv, BoundsTrue, NamespaceInv
<1>. QED
  BY <1>1, StoreInvariant, PTL

\* Whatever happens to the store between two pages: a platform whose anchor is answered ends
\* up with the entries of the store (changes_since).
THEOREM AnsweredAnchorHolds == Spec => []AnsweredAnchorIsTrue
<1>1. StoreInv => AnsweredAnchorIsTrue
  BY DEF StoreInv
<1>. QED
  BY <1>1, StoreInvariant, PTL

-----------------------------------------------------------------------------
(***************************************************************************)
(* Bridge: the two ends of a connection.                                   *)
(***************************************************************************)

\* Where a connection has a thread of the app.
Serving == {"hello", "request", "works", "result", "ending"}

\* The app never tells an extension that it has cancelled: it may only find out itself.
Said == Message \ {"cancelled"}

Line == [run : 0 .. MaxRuns, at : Serving \cup {"none", "queued", "hand", "gone"},
         open : BOOLEAN, asked : BOOLEAN, shut : BOOLEAN, out : Seq(Said), sent : 0 .. Chunks,
         torn : BOOLEAN, result : Outcome]

\* How many chunks a connection can bring.
Most(c) == IF c[2] = "content" THEN Chunks ELSE 0

InQueue(c) == \E i \in 1 .. Len(queue) : queue[i] = c
InHand == acceptor \in {"checks", "inserts"}

AppTyped ==
  /\ queue \in Seq(Connection \cup {WakeUp})
  /\ book \subseteq Connection /\ IsFiniteSet(book)
  /\ acceptor \in {"looks", "asleep", "accepts", "checks", "inserts", "ended"}
  /\ hand \in Connection \cup {WakeUp}
  /\ hold \in BOOLEAN
  /\ life \in Lives
  /\ run \in 0 .. MaxRuns /\ file \in 0 .. run

RequestsTyped ==
  /\ req \in [Requests -> [stage : {"opens", "found", "greeting", "answer", "done"},
                           ask : Question, run : 0 .. MaxRuns, got : 0 .. Chunks,
                           result : Outcome]]
  /\ wish \subseteq Loads

\* Where a connection is, the app knows; what it has let go is shut.
LinePlaced(c) ==
  /\ conn[c].at \in Serving <=> c \in book
  /\ conn[c].at = "queued" <=> InQueue(c)
  /\ conn[c].at = "hand" <=> hand = c
  /\ conn[c].at \notin {"none", "gone"} => conn[c].run = run
  /\ conn[c].at = "gone" => conn[c].shut
  /\ conn[c].run <= run

\* A load that ended as cancelled says nothing: its line is torn, or the app goes.
LineTrue(c) ==
  /\ conn[c].sent <= Most(c)
  /\ conn[c].at \in {"queued", "hand", "hello", "request"} => conn[c].sent = 0
  /\ conn[c].at = "result" =>
       /\ conn[c].result \in {"ok", "unreachable", "internal", "cancelled"}
       /\ conn[c].result = "cancelled" => c[2] = "content" /\ (conn[c].torn \/ hold)

QueueOnce == \A i, j \in 1 .. Len(queue) : i # j /\ queue[i] = queue[j] => queue[i] = WakeUp

\* The call that wakes the acceptance thread meets it only when it is to stop.
AcceptorTrue ==
  /\ hand # WakeUp => InHand
  /\ acceptor = "inserts" => hand # WakeUp
  /\ InQueue(WakeUp) \/ (acceptor = "checks" /\ hand = WakeUp) => hold
  /\ Cardinality(book) <= Places
  /\ acceptor \in {"accepts", "checks", "inserts"} => Cardinality(book) < Places
  /\ acceptor = "ended" => queue = <<>>

LifeTrue ==
  /\ life = "down" => acceptor = "ended" /\ book = {}
  /\ life \notin {"down", "starts", "up", "removed"} => hold
  /\ life \in {"joined", "closed", "over"} => acceptor = "ended"
  /\ life \in {"closed", "over"} => \A c \in book : conn[c].shut

AppTrue == AppTyped /\ QueueOnce /\ AcceptorTrue /\ LifeTrue

\* What is on the way to an extension that waits to be greeted.
Greeting(c) ==
  /\ ~conn[c].asked /\ conn[c].at \notin {"none", "works", "result"}
  /\ conn[c].at \in {"queued", "hand", "hello"} => conn[c].out = <<>>
  /\ conn[c].out \in {<<>>, <<"welcome">>}

\* What has arrived and what is on the way is no more than was sent: chunks, and one end.
Told(c, got) ==
  LET out == conn[c].out IN
  /\ conn[c].at \notin {"none", "queued", "hand", "hello"}
  /\ conn[c].at \in {"request", "works", "result"} => Len(out) + got <= conn[c].sent
  /\ conn[c].at \in {"ending", "gone"} =>
        \/ Len(out) + got <= Most(c)
        \/ out # <<>> /\ out[Len(out)] # "data" /\ Len(out) + got <= Most(c) + 1

RequestTrue(r) ==
  /\ req[r].result = "cancelled" => r \in wish
  /\ req[r].stage \in {"opens", "found"} => conn[Current(r)].at = "none" /\ req[r].got = 0
  /\ req[r].stage = "greeting" => Greeting(Current(r)) /\ req[r].got = 0
  /\ req[r].stage = "answer" => Told(Current(r), req[r].got)
  /\ r \in Loads /\ req[r].ask = "entry" /\ req[r].stage # "done" =>
       conn[<<r, "content">>].at = "none"
  /\ req[r].ask = "content" => r \in Loads

LinesTrue == conn \in [Connection -> Line] /\ \A c \in Connection : LinePlaced(c) /\ LineTrue(c)
RequestsTrue == RequestsTyped /\ \A r \in Requests : RequestTrue(r)

BridgeBooks == AppTrue /\ LinesTrue /\ RequestsTrue

-----------------------------------------------------------------------------
\* Every request has a connection of its own for each of its questions (BridgeClient::open).
LEMMA Connections ==
  /\ WakeUp \notin Connection
  /\ \A c \in Connection : c = <<c[1], c[2]>> /\ c[1] \in Requests /\ c[2] \in Question
  /\ \A r \in Requests : <<r, "entry">> \in Connection
  /\ \A r \in Loads : <<r, "content">> \in Connection /\ r \in Requests
  BY BridgeAssumption DEF Connection, Question

\* The connection a request is at.
LEMMA CurrentIs ==
  ASSUME RequestsTrue, NEW r \in Requests
  PROVE  /\ Current(r) \in Connection /\ Current(r) = <<r, req[r].ask>>
         /\ Current(r)[2] = req[r].ask
  BY Connections DEF RequestsTrue, RequestsTyped, RequestTrue, Current, Question

\* A connection before it is made.
LEMMA NoneTyped == None \in Line
  BY BridgeAssumption DEF None, Line, Outcome

\* The app is down, and every request is about to begin.
LEMMA BridgeInitBooks == BridgeInit => BridgeBooks
<1> SUFFICES ASSUME BridgeInit PROVE BridgeBooks
    OBVIOUS
<1> USE BridgeAssumption
<1>1. AppTyped
  <2>1. book \subseteq Connection /\ IsFiniteSet(book)
    BY FS_EmptySet DEF BridgeInit
  <2>2. queue \in Seq(Connection \cup {WakeUp})
    BY DEF BridgeInit
  <2>3. run \in 0 .. MaxRuns /\ file \in 0 .. run
    BY DEF BridgeInit
  <2>4. hand \in Connection \cup {WakeUp} /\ hold \in BOOLEAN
    BY DEF BridgeInit
  <2>5. /\ acceptor \in {"looks", "asleep", "accepts", "checks", "inserts", "ended"}
        /\ life \in Lives
    BY DEF BridgeInit, Lives
  <2> QED
    BY <2>1, <2>2, <2>3, <2>4, <2>5 DEF AppTyped
<1>2. QueueOnce /\ AcceptorTrue /\ LifeTrue
  BY FS_EmptySet DEF BridgeInit, QueueOnce, AcceptorTrue, LifeTrue, InQueue, InHand
<1>3. None \in Line
  BY NoneTyped
<1>4. LinesTrue
  <2>1. conn = [c \in Connection |-> None] /\ queue = <<>> /\ hand = WakeUp /\ book = {} /\ run = 0
    BY DEF BridgeInit
  <2>2. \A c \in Connection : LinePlaced(c) /\ LineTrue(c)
    BY <2>1, Connections DEF LinePlaced, LineTrue, InQueue, None, Serving, Most
  <2> QED
    BY <1>3, <2>1, <2>2 DEF LinesTrue
<1>5. RequestsTrue
  <2>1. Begun \in [stage : {"opens", "found", "greeting", "answer", "done"}, ask : Question,
                   run : 0 .. MaxRuns, got : 0 .. Chunks, result : Outcome]
    BY DEF Begun, Question, Outcome
  <2>2. RequestsTyped
    BY <2>1 DEF BridgeInit, RequestsTyped
  <2>3. \A r \in Requests : RequestTrue(r)
    BY Connections DEF BridgeInit, RequestTrue, Begun, Current, None
  <2> QED
    BY <2>2, <2>3 DEF RequestsTrue
<1> QED
  BY <1>1, <1>2, <1>4, <1>5 DEF BridgeBooks, AppTrue

-----------------------------------------------------------------------------
\* The extension reads, asks or closes: the app's end of its connection stays as it is,
\* and so does every other request.
LEMMA ClientKeeps ==
  ASSUME BridgeBooks, NEW r \in Requests, NEW c \in Connection, c = Current(r),
         UNCHANGED <<wish, queue, serverVars, appVars>>,
         RequestsTyped', \A q \in Requests \ {r} : req'[q] = req[q],
         conn' \in [Connection -> Line], \A d \in Connection \ {c} : conn'[d] = conn[d],
         /\ conn'[c].run = conn[c].run /\ conn'[c].at = conn[c].at
         /\ conn'[c].shut = conn[c].shut /\ conn'[c].sent = conn[c].sent
         /\ conn'[c].torn = conn[c].torn /\ conn'[c].result = conn[c].result,
         RequestTrue(r)'
  PROVE  BridgeBooks'
<1>1. /\ \A d \in Connection : /\ conn'[d].run = conn[d].run /\ conn'[d].at = conn[d].at
                               /\ conn'[d].shut = conn[d].shut /\ conn'[d].sent = conn[d].sent
                               /\ conn'[d].torn = conn[d].torn /\ conn'[d].result = conn[d].result
      /\ UNCHANGED <<queue, book, acceptor, hand, hold, life, run, file, wish>>
  BY DEF serverVars, appVars
<1>2. AppTrue'
  <2>1. AppTyped' /\ QueueOnce'
    BY <1>1 DEF BridgeBooks, AppTrue, AppTyped, QueueOnce
  <2>2. AcceptorTrue'
    BY <1>1 DEF BridgeBooks, AppTrue, AcceptorTrue, InHand, InQueue
  <2>3. LifeTrue'
    BY <1>1 DEF BridgeBooks, AppTrue, AppTyped, LifeTrue
  <2> QED
    BY <2>1, <2>2, <2>3 DEF AppTrue
<1>3. LinesTrue'
  <2>1. ASSUME NEW d \in Connection PROVE LinePlaced(d)' /\ LineTrue(d)'
    BY <1>1 DEF BridgeBooks, LinesTrue, LinePlaced, LineTrue, InQueue
  <2> QED
    BY <2>1 DEF LinesTrue
<1>4. ASSUME NEW q \in Requests \ {r} PROVE RequestTrue(q)'
  <2>1. /\ req'[q] = req[q] /\ Current(q)' = Current(q)
        /\ conn'[Current(q)] = conn[Current(q)]
    BY Connections, CurrentIs DEF BridgeBooks, Current
  <2>2. q \in Loads => conn'[<<q, "content">>] = conn[<<q, "content">>]
    BY Connections, CurrentIs DEF BridgeBooks
  <2>3. RequestTrue(q)
    BY DEF BridgeBooks, RequestsTrue
  <2>4. Greeting(Current(q)) => Greeting(Current(q))'
    BY <2>1 DEF Greeting
  <2>5. Told(Current(q), req[q].got) => Told(Current(q), req[q].got)'
    BY <2>1 DEF Told
  <2> QED
    BY <1>1, <2>1, <2>2, <2>3, <2>4, <2>5 DEF RequestTrue
<1> QED
  BY <1>2, <1>3, <1>4 DEF BridgeBooks, RequestsTrue

\* The extension closes its end; what the app writes from now on gets lost.
LEMMA ClosedLine ==
  ASSUME conn \in [Connection -> Line], NEW c \in Connection,
         conn' = [conn EXCEPT ![c].open = FALSE, ![c].out = <<>>]
  PROVE  /\ conn' \in [Connection -> Line] /\ \A d \in Connection \ {c} : conn'[d] = conn[d]
         /\ conn'[c].run = conn[c].run /\ conn'[c].at = conn[c].at
         /\ conn'[c].shut = conn[c].shut /\ conn'[c].sent = conn[c].sent
         /\ conn'[c].torn = conn[c].torn /\ conn'[c].result = conn[c].result
         /\ conn'[c].out = <<>>
<1>1. conn[c] \in Line
  OBVIOUS
<1>2. conn'[c] = [conn[c] EXCEPT !.open = FALSE, !.out = <<>>]
  OBVIOUS
<1>3. conn'[c] \in Line
  <2>1. <<>> \in Seq(Said)
    OBVIOUS
  <2> QED
    BY <1>1, <1>2, <2>1 DEF Line
<1>4. /\ conn'[c].run = conn[c].run /\ conn'[c].at = conn[c].at
      /\ conn'[c].shut = conn[c].shut /\ conn'[c].sent = conn[c].sent
      /\ conn'[c].torn = conn[c].torn /\ conn'[c].result = conn[c].result
      /\ conn'[c].out = <<>>
  BY <1>1, <1>2 DEF Line
<1> QED
  BY <1>3, <1>4

\* The extension takes a message from its end, and may have asked its question.
LEMMA ReadLine ==
  ASSUME conn \in [Connection -> Line], NEW c \in Connection, conn[c].out # <<>>,
         \/ conn' = [conn EXCEPT ![c].out = Tail(@)]
         \/ conn' = [conn EXCEPT ![c].out = Tail(@), ![c].asked = TRUE]
  PROVE  /\ conn' \in [Connection -> Line] /\ \A d \in Connection \ {c} : conn'[d] = conn[d]
         /\ conn'[c].run = conn[c].run /\ conn'[c].at = conn[c].at
         /\ conn'[c].shut = conn[c].shut /\ conn'[c].sent = conn[c].sent
         /\ conn'[c].torn = conn[c].torn /\ conn'[c].result = conn[c].result
         /\ conn'[c].out = Tail(conn[c].out)
<1>1. conn[c] \in Line
  OBVIOUS
<1>2. Tail(conn[c].out) \in Seq(Said)
  BY <1>1 DEF Line
<1>3. \/ conn'[c] = [conn[c] EXCEPT !.out = Tail(conn[c].out)]
      \/ conn'[c] = [conn[c] EXCEPT !.out = Tail(conn[c].out), !.asked = TRUE]
  OBVIOUS
<1>4. conn'[c] \in Line
  BY <1>1, <1>2, <1>3 DEF Line
<1>5. /\ conn'[c].run = conn[c].run /\ conn'[c].at = conn[c].at
      /\ conn'[c].shut = conn[c].shut /\ conn'[c].sent = conn[c].sent
      /\ conn'[c].torn = conn[c].torn /\ conn'[c].result = conn[c].result
      /\ conn'[c].out = Tail(conn[c].out)
  BY <1>1, <1>3 DEF Line
<1>6. \A d \in Connection \ {c} : conn'[d] = conn[d]
  OBVIOUS
<1>7. conn' \in [Connection -> Line]
  BY <1>4, <1>6
<1> QED
  BY <1>5, <1>6, <1>7

\* What a request can become: it goes on, or is done.
LEMMA RequestStep ==
  ASSUME RequestsTyped, NEW r \in Requests, wish' = wish
  PROVE  /\ \A stage \in {"opens", "found", "greeting", "answer", "done"} : Goes(r, stage) =>
              /\ RequestsTyped' /\ req'[r].stage = stage /\ req'[r].ask = req[r].ask
              /\ req'[r].got = req[r].got /\ req'[r].result = req[r].result
              /\ \A q \in Requests \ {r} : req'[q] = req[q]
         /\ \A result \in Outcome : Done(r, result) =>
              /\ RequestsTyped' /\ req'[r].stage = "done" /\ req'[r].ask = "entry"
              /\ req'[r].result = result
              /\ \A q \in Requests \ {r} : req'[q] = req[q]
<1> USE BridgeAssumption
<1>1. ASSUME NEW stage \in {"opens", "found", "greeting", "answer", "done"}, Goes(r, stage)
      PROVE  /\ RequestsTyped' /\ req'[r].stage = stage /\ req'[r].ask = req[r].ask
             /\ req'[r].got = req[r].got /\ req'[r].result = req[r].result
             /\ \A q \in Requests \ {r} : req'[q] = req[q]
  <2>1. req' = [req EXCEPT ![r].stage = stage]
    BY <1>1 DEF Goes
  <2> QED
    BY <2>1 DEF RequestsTyped
<1>2. ASSUME NEW result \in Outcome, Done(r, result)
      PROVE  /\ RequestsTyped' /\ req'[r].stage = "done" /\ req'[r].ask = "entry"
             /\ req'[r].result = result
             /\ \A q \in Requests \ {r} : req'[q] = req[q]
  <2> DEFINE answered == [Begun EXCEPT !.stage = "done", !.result = result]
  <2>0. Begun \in [stage : {"opens", "found", "greeting", "answer", "done"}, ask : Question,
                   run : 0 .. MaxRuns, got : 0 .. Chunks, result : Outcome]
    BY DEF Begun, Question, Outcome
  <2>1. /\ answered \in [stage : {"opens", "found", "greeting", "answer", "done"},
                         ask : Question, run : 0 .. MaxRuns, got : 0 .. Chunks,
                         result : Outcome]
        /\ answered.stage = "done" /\ answered.ask = Begun.ask /\ answered.result = result
    BY <2>0
  <2>3. Begun.ask = "entry"
    BY DEF Begun
  <2>2. req' = [req EXCEPT ![r] = answered]
    BY <1>2 DEF Done
  <2> HIDE DEF answered
  <2> QED
    BY <2>1, <2>2, <2>3 DEF RequestsTyped
<1> QED
  BY <1>1, <1>2

\* A request that is done with an answer of its own, and cancelled only if it was.
LEMMA DoneKeeps ==
  ASSUME BridgeBooks, NEW r \in Requests, NEW result \in Outcome, Done(r, result),
         result = "cancelled" => r \in wish,
         UNCHANGED <<wish, queue, serverVars, appVars>>,
         Closes(r) \/ UNCHANGED conn
  PROVE  BridgeBooks'
<1> DEFINE c == Current(r)
<1>1. RequestsTyped /\ conn \in [Connection -> Line] /\ c \in Connection
  BY CurrentIs DEF BridgeBooks, RequestsTrue, LinesTrue
<1>2. /\ RequestsTyped' /\ req'[r].stage = "done" /\ req'[r].ask = "entry"
      /\ req'[r].result = result
      /\ \A q \in Requests \ {r} : req'[q] = req[q]
  BY <1>1, RequestStep
<1>3. RequestTrue(r)'
  BY <1>2 DEF RequestTrue
<1>4. /\ conn' \in [Connection -> Line] /\ \A d \in Connection \ {c} : conn'[d] = conn[d]
      /\ conn'[c].run = conn[c].run /\ conn'[c].at = conn[c].at
      /\ conn'[c].shut = conn[c].shut /\ conn'[c].sent = conn[c].sent
      /\ conn'[c].torn = conn[c].torn /\ conn'[c].result = conn[c].result
  <2>1. CASE Closes(r)
    BY <1>1, <2>1, ClosedLine DEF Closes
  <2>2. CASE UNCHANGED conn
    BY <1>1, <2>2
  <2> QED
    BY <2>1, <2>2
<1> QED
  BY <1>1, <1>2, <1>3, <1>4, ClientKeeps

\* Messages on the way are what the app says: nothing of a cancellation.
LEMMA MessageSaid ==
  ASSUME BridgeBooks, NEW r \in Requests, conn[Current(r)].out # <<>>
  PROVE  /\ conn[Current(r)].out \in Seq(Said) /\ Len(conn[Current(r)].out) \in Nat \ {0}
         /\ Head(conn[Current(r)].out) \in Said
<1>1. conn[Current(r)] \in Line
  BY CurrentIs DEF BridgeBooks, LinesTrue
<1>2. conn[Current(r)].out \in Seq(Said)
  BY <1>1 DEF Line
<1> HIDE DEF Said
<1> QED
  BY <1>2

\* The rendezvous file is read, or the request ends before it has a connection.
LEMMA FindsKeeps == ASSUME BridgeBooks, NEW r \in Requests, Finds(r) PROVE BridgeBooks'
<1> USE BridgeAssumption
<1>1. UNCHANGED <<wish, conn, queue, serverVars, appVars>> /\ req[r].stage = "opens"
  BY DEF Finds
<1>2. CASE Done(r, "cancelled") /\ r \in wish
  BY <1>1, <1>2, DoneKeeps DEF Outcome
<1>3. CASE Done(r, "unreachable")
  BY <1>1, <1>3, DoneKeeps DEF Outcome
<1>4. CASE req' = [req EXCEPT ![r].stage = "found", ![r].run = file]
  <2>1. RequestsTyped /\ RequestTrue(r) /\ file \in 0 .. MaxRuns /\ Current(r) \in Connection
        /\ conn \in [Connection -> Line]
    BY CurrentIs DEF BridgeBooks, RequestsTrue, AppTrue, AppTyped, LinesTrue
  <2>2. /\ RequestsTyped' /\ req'[r].stage = "found" /\ req'[r].ask = req[r].ask
        /\ req'[r].got = req[r].got /\ req'[r].result = req[r].result
        /\ \A q \in Requests \ {r} : req'[q] = req[q]
    BY <1>1, <1>4, <2>1 DEF RequestsTyped
  <2>3. RequestTrue(r)'
    BY <1>1, <2>1, <2>2 DEF RequestTrue, Current
  <2> QED
    BY <1>1, <2>1, <2>2, <2>3, ClientKeeps
<1> QED
  BY <1>2, <1>3, <1>4 DEF Finds

\* One message is read, and none is left.
LEMMA OneMessage == \A x : Tail(<<x>>) = <<>> /\ Len(<<>>) = 0 /\ Append(<<>>, x) = <<x>>
<1> TAKE x
<1>1. Len(Tail(<<x>>)) = 0 /\ Tail(<<x>>) \in Seq({x})
  OBVIOUS
<1>2. Append(<<>>, x) = <<x>>
  OBVIOUS
<1> QED
  BY <1>1, <1>2

\* The greeting is there: the extension asks.
LEMMA GreetedKeeps == ASSUME BridgeBooks, NEW r \in Requests, Greeted(r) PROVE BridgeBooks'
<1>0. PICK c \in Connection : c = Current(r) /\ c = <<r, req[r].ask>>
  BY CurrentIs DEF BridgeBooks
<1>1. RequestsTyped /\ RequestTrue(r) /\ conn \in [Connection -> Line]
  BY DEF BridgeBooks, RequestsTrue, LinesTrue
<1>2. /\ req[r].stage = "greeting" /\ conn[c].out # <<>> /\ Goes(r, "answer")
      /\ conn' = [conn EXCEPT ![c].out = Tail(@), ![c].asked = TRUE]
      /\ UNCHANGED <<wish, queue, serverVars, appVars>>
  BY <1>0 DEF Greeted, Comes
<1>3. /\ RequestsTyped' /\ req'[r].stage = "answer" /\ req'[r].ask = req[r].ask
      /\ req'[r].got = req[r].got /\ req'[r].result = req[r].result
      /\ \A q \in Requests \ {r} : req'[q] = req[q]
  BY <1>1, <1>2, RequestStep
<1>4. /\ conn' \in [Connection -> Line] /\ \A d \in Connection \ {c} : conn'[d] = conn[d]
      /\ conn'[c].run = conn[c].run /\ conn'[c].at = conn[c].at
      /\ conn'[c].shut = conn[c].shut /\ conn'[c].sent = conn[c].sent
      /\ conn'[c].torn = conn[c].torn /\ conn'[c].result = conn[c].result
      /\ conn'[c].out = Tail(conn[c].out)
  BY <1>1, <1>2, ReadLine
<1>5. Greeting(c) /\ req[r].got = 0
  BY <1>0, <1>1, <1>2 DEF RequestTrue
<1>6. conn[c].out = <<"welcome">>
  BY <1>2, <1>5 DEF Greeting
<1>7. conn'[c].out = <<>> /\ Len(conn'[c].out) = 0
  BY <1>4, <1>6, OneMessage
<1>8. conn[c].at \notin {"none", "queued", "hand", "hello", "works", "result"}
  BY <1>2, <1>5 DEF Greeting
<1>9. conn[c].at = "request" => conn[c].sent = 0
  BY DEF BridgeBooks, LinesTrue, LineTrue
<1>10. Told(c, 0)'
  <2>1. Most(c) \in Nat
    BY BridgeAssumption DEF Most
  <2>2. conn'[c].at \notin {"none", "queued", "hand", "hello", "works", "result"}
    BY <1>4, <1>8
  <2>3. conn'[c].at = "request" => Len(conn'[c].out) + 0 <= conn'[c].sent
    <3>1. conn[c].at = "request" => conn'[c].sent = 0
      BY <1>4, <1>9
    <3>2. conn'[c].at = conn[c].at
      BY <1>4
    <3>3. Len(conn'[c].out) = 0
      BY <1>7
    <3> QED
      BY <3>1, <3>2, <3>3
  <2>4. Len(conn'[c].out) + 0 <= Most(c)
    BY <1>7, <2>1
  <2> QED
    BY <2>2, <2>3, <2>4 DEF Told
<1>11. RequestTrue(r)'
  <2>1. Current(r)' = c
    BY <1>0, <1>3 DEF Current
  <2>2. r \in Loads /\ req[r].ask = "entry" => conn'[<<r, "content">>] = conn[<<r, "content">>]
    BY <1>0, <1>4, Connections
  <2> QED
    BY <1>1, <1>2, <1>3, <1>5, <1>10, <2>1, <2>2 DEF RequestTrue
<1> QED
  BY <1>0, <1>1, <1>2, <1>3, <1>4, <1>11, ClientKeeps

\* What a message that is read leaves behind.
LEMMA TailIs ==
  ASSUME NEW S, NEW s \in Seq(S), s # <<>>
  PROVE  /\ Len(s) \in Nat \ {0} /\ Tail(s) \in Seq(S) /\ Len(Tail(s)) = Len(s) - 1
         /\ Head(s) = s[1] /\ \A i \in 1 .. Len(s) - 1 : Tail(s)[i] = s[i + 1]
  OBVIOUS

\* The numbers of a connection.
LEMMA LineNumbers ==
  ASSUME BridgeBooks, NEW r \in Requests, NEW c \in Connection, c = Current(r)
  PROVE  /\ Most(c) \in Nat /\ Most(c) <= Chunks /\ conn[c].sent \in Nat /\ conn[c].sent <= Most(c)
         /\ Len(conn[c].out) \in Nat /\ req[r].got \in Nat
         /\ conn[c] \in Line /\ conn[c].out \in Seq(Said)
<1>1. Chunks \in Nat
  BY BridgeAssumption
<1>2. Most(c) \in Nat /\ Most(c) <= Chunks
  BY <1>1 DEF Most
<1>3. conn[c] \in Line /\ LineTrue(c) /\ RequestsTyped
  BY DEF BridgeBooks, LinesTrue, RequestsTrue
<1>4. conn[c].sent \in Nat /\ conn[c].sent <= Most(c)
  BY <1>1, <1>3 DEF Line, LineTrue
<1>5. conn[c].out \in Seq(Said)
  BY <1>3 DEF Line
<1>6. req[r].got \in Nat
  BY <1>1, <1>3 DEF RequestsTyped
<1> HIDE DEF Said
<1>7. Len(conn[c].out) \in Nat
  BY <1>5
<1> QED
  BY <1>2, <1>3, <1>4, <1>5, <1>6, <1>7

\* The entry is there: it is the answer, or a load asks on.
LEMMA EntryComesKeeps == ASSUME BridgeBooks, NEW r \in Requests, EntryComes(r) PROVE BridgeBooks'
<1>0. PICK c \in Connection : c = Current(r) /\ c = <<r, req[r].ask>>
  BY CurrentIs DEF BridgeBooks
<1>1. RequestsTyped /\ RequestTrue(r) /\ conn \in [Connection -> Line]
  BY DEF BridgeBooks, RequestsTrue, LinesTrue
<1>2. /\ req[r].stage = "answer" /\ req[r].ask = "entry" /\ conn[c].out # <<>>
      /\ Closes(r) /\ UNCHANGED <<wish, queue, serverVars, appVars>>
  BY <1>0 DEF EntryComes, Comes
<1>3. CASE r \notin Loads
  BY <1>2, <1>3, DoneKeeps DEF EntryComes, Outcome
<1>4. CASE r \in Loads
  <2>1. req' = [req EXCEPT ![r].stage = "opens", ![r].ask = "content"]
    BY <1>4 DEF EntryComes
  <2>2. /\ RequestsTyped' /\ req'[r].stage = "opens" /\ req'[r].ask = "content"
        /\ req'[r].got = req[r].got /\ req'[r].result = req[r].result
        /\ \A q \in Requests \ {r} : req'[q] = req[q]
    BY <1>1, <1>2, <2>1 DEF RequestsTyped, Question
  <2>3. /\ conn' \in [Connection -> Line] /\ \A d \in Connection \ {c} : conn'[d] = conn[d]
        /\ conn'[c].run = conn[c].run /\ conn'[c].at = conn[c].at
        /\ conn'[c].shut = conn[c].shut /\ conn'[c].sent = conn[c].sent
        /\ conn'[c].torn = conn[c].torn /\ conn'[c].result = conn[c].result
    BY <1>0, <1>1, <1>2, ClosedLine DEF Closes
  <2>4. req[r].got = 0
    <3>1. Told(c, req[r].got) /\ Most(c) = 0
      BY <1>0, <1>1, <1>2 DEF RequestTrue, Most
    <3>2. /\ conn[c].sent \in Nat /\ conn[c].sent <= 0
          /\ Len(conn[c].out) \in Nat \ {0} /\ req[r].got \in Nat
      <4>1. conn[c].sent \in Nat /\ conn[c].sent <= 0 /\ req[r].got \in Nat /\ conn[c].out \in Seq(Said)
        BY <1>0, <3>1, LineNumbers
      <4>2. Len(conn[c].out) \in Nat \ {0}
        BY <1>2, <4>1, TailIs
      <4> QED
        BY <4>1, <4>2
    <3>3. conn[c].at \in {"request", "works", "result", "ending", "gone"}
      BY <1>0, <1>1, <3>1 DEF Told, Line, Serving
    <3>4. Len(conn[c].out) + req[r].got <= 1
      BY <3>1, <3>2, <3>3 DEF Told
    <3> QED
      BY <3>2, <3>4
  <2>5. RequestTrue(r)'
    <3>1. <<r, "content">> \in Connection \ {c} /\ Current(r)' = <<r, "content">>
      BY <1>0, <1>2, <1>4, <2>2, Connections DEF Current
    <3>2. conn[<<r, "content">>].at = "none"
      BY <1>1, <1>2, <1>4 DEF RequestTrue
    <3> QED
      BY <1>1, <1>2, <1>4, <2>2, <2>3, <2>4, <3>1, <3>2 DEF RequestTrue
  <2> QED
    BY <1>0, <1>2, <2>2, <2>3, <2>5, ClientKeeps
<1> QED
  BY <1>3, <1>4

\* What a chunk that has arrived does to the bounds of what is on the way.
OneLess(s, got, sent, most) ==
  /\ Len(s) + got <= sent => got + 1 <= most /\ Len(Tail(s)) + (got + 1) <= sent
  /\ Len(s) + got <= most => got + 1 <= most /\ Len(Tail(s)) + (got + 1) <= most
  /\ s[Len(s)] # "data" /\ Len(s) + got <= most + 1 =>
       /\ got + 1 <= most /\ Len(Tail(s)) + (got + 1) <= most + 1
       /\ Tail(s) # <<>> /\ Tail(s)[Len(Tail(s))] # "data"

\* A chunk more has arrived, and the way ahead is shorter by one message.
LEMMA OneChunk ==
  ASSUME NEW s \in Seq(Said), s # <<>>, Head(s) = "data",
         NEW got \in Nat, NEW sent \in Nat, NEW most \in Nat, sent <= most
  PROVE  OneLess(s, got, sent, most)
<1> HIDE DEF Said
<1>1. /\ Len(s) \in Nat \ {0} /\ Len(Tail(s)) = Len(s) - 1 /\ s[1] = "data"
      /\ \A i \in 1 .. Len(s) - 1 : Tail(s)[i] = s[i + 1]
  BY TailIs
<1> DEFINE n == Len(s)
           t == Tail(s)
<1>2. Len(t) = n - 1 /\ n \in Nat \ {0}
  BY <1>1
<1>3. /\ n + got <= sent => got + 1 <= most /\ (n - 1) + (got + 1) <= sent
      /\ n + got <= most => got + 1 <= most /\ (n - 1) + (got + 1) <= most
      /\ n + got <= most + 1 => (n - 1) + (got + 1) <= most + 1
      /\ n >= 2 /\ n + got <= most + 1 => got + 1 <= most
  <2> HIDE DEF n
  <2> QED
    BY <1>2
<1>4. s[n] # "data" => n >= 2 /\ t # <<>> /\ t[n - 1] = s[n]
  <2>1. s[n] # "data" => n # 1
    BY <1>1
  <2> HIDE DEF n
  <2>2. SUFFICES ASSUME n >= 2 PROVE t # <<>> /\ t[n - 1] = s[n]
    BY <1>2, <2>1
  <2>3. n - 1 \in 1 .. n - 1 /\ (n - 1) + 1 = n
    BY <1>2, <2>2
  <2>4. t[n - 1] = s[n]
    BY <1>1, <2>3 DEF n
  <2>5. Len(t) # 0 /\ Len(<<>>) = 0
    BY <1>2, <2>2, OneMessage
  <2>6. t # <<>>
    <3> HIDE DEF t
    <3> QED
      BY <2>5
  <2> QED
    BY <2>4, <2>6
<1> QED
  BY <1>2, <1>3, <1>4 DEF OneLess

\* A chunk is there: it is counted.
LEMMA DataComesKeeps == ASSUME BridgeBooks, NEW r \in Requests, DataComes(r) PROVE BridgeBooks'
<1>0. PICK c \in Connection : c = Current(r) /\ c = <<r, req[r].ask>>
  BY CurrentIs DEF BridgeBooks
<1>1. RequestsTyped /\ RequestTrue(r) /\ conn \in [Connection -> Line]
  BY DEF BridgeBooks, RequestsTrue, LinesTrue
<1>2. /\ req[r].stage = "answer" /\ conn[c].out # <<>> /\ Head(conn[c].out) = "data"
      /\ conn' = [conn EXCEPT ![c].out = Tail(@)]
      /\ req' = [req EXCEPT ![r].got = @ + 1]
      /\ UNCHANGED <<wish, queue, serverVars, appVars>>
  BY <1>0 DEF DataComes, Comes, Reads
<1>3. /\ conn' \in [Connection -> Line] /\ \A d \in Connection \ {c} : conn'[d] = conn[d]
      /\ conn'[c].run = conn[c].run /\ conn'[c].at = conn[c].at
      /\ conn'[c].shut = conn[c].shut /\ conn'[c].sent = conn[c].sent
      /\ conn'[c].torn = conn[c].torn /\ conn'[c].result = conn[c].result
      /\ conn'[c].out = Tail(conn[c].out)
  BY <1>1, <1>2, ReadLine
<1>4. /\ Most(c) \in Nat /\ Most(c) <= Chunks /\ conn[c].sent \in Nat /\ conn[c].sent <= Most(c)
      /\ req[r].got \in Nat /\ conn[c].out \in Seq(Said)
  BY <1>0, LineNumbers
<1>5. PICK got \in Nat : got = req[r].got
  BY <1>4
<1>6. Told(c, got)
  BY <1>0, <1>1, <1>2, <1>5 DEF RequestTrue
<1>7. conn[c].at \in {"request", "works", "result", "ending", "gone"}
  BY <1>1, <1>6 DEF Told, Line, Serving
<1>8. PICK out \in Seq(Said), sent \in Nat, most \in Nat :
        /\ out = conn[c].out /\ sent = conn[c].sent /\ most = Most(c) /\ sent <= most
        /\ out # <<>> /\ Head(out) = "data"
  BY <1>2, <1>4
<1>13. OneLess(out, got, sent, most)
  BY <1>5, <1>8, OneChunk
<1>14. out = conn[c].out /\ conn'[c].out = Tail(out) /\ sent = conn[c].sent /\ most = Most(c)
  BY <1>3, <1>8
<1>9. got + 1 <= Most(c) /\ Told(c, got + 1)'
  <2>1. conn'[c].at = conn[c].at /\ conn'[c].sent = conn[c].sent
    BY <1>3
  <2>2. CASE conn[c].at \in {"request", "works", "result"}
    <3>1. Len(conn[c].out) + got <= conn[c].sent
      BY <1>6, <2>2 DEF Told
    <3>2. got + 1 <= most /\ Len(Tail(out)) + (got + 1) <= sent
      BY <1>13, <1>14, <3>1 DEF OneLess
    <3> QED
      BY <1>14, <2>1, <2>2, <3>2 DEF Told
  <2>3. CASE conn[c].at \in {"ending", "gone"}
    <3>1. \/ Len(conn[c].out) + got <= Most(c)
          \/ conn[c].out[Len(conn[c].out)] # "data" /\ Len(conn[c].out) + got <= Most(c) + 1
      BY <1>6, <2>3 DEF Told
    <3>2. /\ got + 1 <= most
          /\ \/ Len(Tail(out)) + (got + 1) <= most
             \/ /\ Len(Tail(out)) + (got + 1) <= most + 1
                /\ Tail(out) # <<>> /\ Tail(out)[Len(Tail(out))] # "data"
      BY <1>13, <1>14, <3>1 DEF OneLess
    <3> QED
      BY <1>14, <2>1, <2>3, <3>2 DEF Told
  <2> QED
    BY <1>7, <2>2, <2>3
<1>10. got + 1 \in 0 .. Chunks
  BY <1>4, <1>9, BridgeAssumption
<1>11. /\ RequestsTyped' /\ req'[r].stage = "answer" /\ req'[r].ask = req[r].ask
       /\ req'[r].got = got + 1 /\ req'[r].result = req[r].result
       /\ \A q \in Requests \ {r} : req'[q] = req[q]
  BY <1>1, <1>2, <1>5, <1>10 DEF RequestsTyped
<1>12. RequestTrue(r)'
  <2>1. Current(r)' = c
    BY <1>0, <1>11 DEF Current
  <2>2. r \in Loads /\ req[r].ask = "entry" => conn'[<<r, "content">>] = conn[<<r, "content">>]
    BY <1>0, <1>3, Connections
  <2> QED
    BY <1>1, <1>2, <1>9, <1>11, <2>1, <2>2 DEF RequestTrue
<1> QED
  BY <1>0, <1>2, <1>3, <1>11, <1>12, ClientKeeps

\* Whatever else ends a request, nobody is told that he has cancelled who has not.
LEMMA EndingKeeps ==
  ASSUME BridgeBooks, NEW r \in Requests,
         EndComes(r) \/ ErrorComes(r) \/ NothingComes(r) \/ SeesCancel(r)
  PROVE  BridgeBooks'
<1>1. UNCHANGED <<wish, queue, serverVars, appVars>> /\ Closes(r)
  BY DEF EndComes, ErrorComes, NothingComes, SeesCancel
<1>2. PICK result \in Outcome : Done(r, result) /\ (result = "cancelled" => r \in wish)
  <2>1. CASE EndComes(r)
    BY <2>1 DEF EndComes, Outcome
  <2>2. CASE ErrorComes(r)
    <3>1. PICK error \in {"unreachable", "cancelled", "internal"} : Comes(r, error) /\ Done(r, error)
      BY <2>2 DEF ErrorComes
    <3>2. error # "cancelled"
      BY <3>1, MessageSaid DEF Comes, Said
    <3> QED
      BY <3>1, <3>2 DEF Outcome
  <2>3. CASE NothingComes(r)
    BY <2>3 DEF NothingComes, Outcome
  <2>4. CASE SeesCancel(r)
    BY <2>4 DEF SeesCancel, Outcome
  <2> QED
    BY <2>1, <2>2, <2>3, <2>4
<1> QED
  BY <1>1, <1>2, DoneKeeps
\* A load is cancelled: nobody notices yet.
LEMMA CancelsKeeps == ASSUME BridgeBooks, NEW r \in Requests, Cancels(r) PROVE BridgeBooks'
<1>1. /\ wish' = wish \cup {r} /\ r \in Loads
      /\ UNCHANGED <<req, conn, queue, book, acceptor, hand, hold, life, run, file>>
  BY DEF Cancels, serverVars, appVars
<1>2. AppTrue' /\ LinesTrue'
  <2>1. AppTyped' /\ QueueOnce'
    BY <1>1 DEF BridgeBooks, AppTrue, AppTyped, QueueOnce
  <2>2. AcceptorTrue' /\ LifeTrue'
    BY <1>1 DEF BridgeBooks, AppTrue, AcceptorTrue, LifeTrue, InHand, InQueue
  <2>3. LinesTrue'
    BY <1>1 DEF BridgeBooks, LinesTrue, LinePlaced, LineTrue, InQueue
  <2> QED
    BY <2>1, <2>2, <2>3 DEF AppTrue
<1>3. RequestsTyped'
  BY <1>1 DEF BridgeBooks, RequestsTrue, RequestsTyped
<1>4. ASSUME NEW q \in Requests PROVE RequestTrue(q)'
  <2>1. Current(q)' = Current(q)
    BY <1>1 DEF Current
  <2>2. RequestTrue(q)
    BY DEF BridgeBooks, RequestsTrue
  <2>3. Greeting(Current(q)) => Greeting(Current(q))'
    BY <1>1, <2>1 DEF Greeting
  <2>4. Told(Current(q), req[q].got) => Told(Current(q), req[q].got)'
    BY <1>1, <2>1 DEF Told
  <2> QED
    BY <1>1, <2>1, <2>2, <2>3, <2>4 DEF RequestTrue
<1> QED
  BY <1>2, <1>3, <1>4 DEF BridgeBooks, RequestsTrue

\* A new connection waits in the queue of the listening socket.
LEMMA ConnectsKeeps == ASSUME BridgeBooks, NEW r \in Requests, Connects(r) PROVE BridgeBooks'
<1>0. PICK c \in Connection : c = Current(r) /\ c = <<r, req[r].ask>>
  BY CurrentIs DEF BridgeBooks
<1>1. req[r].stage = "found" /\ UNCHANGED <<wish, serverVars, appVars>>
  BY DEF Connects
<1>2. CASE Done(r, "unreachable") /\ UNCHANGED <<conn, queue>>
  BY <1>1, <1>2, DoneKeeps DEF Outcome
<1>3. CASE /\ Listening(req[r].run) /\ queue' = Append(queue, c) /\ Goes(r, "greeting")
           /\ conn' = [conn EXCEPT ![c] = [None EXCEPT !.run = run, !.at = "queued", !.open = TRUE]]
  <2>0. /\ RequestsTyped /\ RequestTrue(r) /\ conn \in [Connection -> Line]
        /\ LinePlaced(c) /\ AppTyped /\ QueueOnce /\ AcceptorTrue /\ LifeTrue
        /\ WakeUp \notin Connection
    BY Connections DEF BridgeBooks, RequestsTrue, LinesTrue, AppTrue
  <2>1. /\ RequestsTyped' /\ req'[r].stage = "greeting" /\ req'[r].ask = req[r].ask
        /\ req'[r].got = req[r].got /\ req'[r].result = req[r].result
        /\ \A q \in Requests \ {r} : req'[q] = req[q]
    BY <1>1, <1>3, <2>0, RequestStep
  <2>2. conn[c].at = "none" /\ req[r].got = 0
    BY <1>0, <1>1, <2>0 DEF RequestTrue
  <2>3. /\ UNCHANGED <<wish, book, acceptor, hand, hold, life, run, file>> /\ acceptor # "ended"
        /\ run \in 0 .. MaxRuns
    BY <1>1, <1>3, <2>0 DEF serverVars, appVars, Listening, AppTyped
  <2> DEFINE new == [None EXCEPT !.run = run, !.at = "queued", !.open = TRUE]
  <2>4. /\ new \in Line /\ new.run = run /\ new.at = "queued" /\ new.out = <<>> /\ ~new.asked
        /\ new.sent = 0 /\ ~new.shut
    <3>1. None \in Line
      BY NoneTyped
    <3>2. None.out = <<>> /\ ~None.asked /\ None.sent = 0 /\ ~None.shut
      BY DEF None
    <3>3. /\ new \in Line /\ new.run = run /\ new.at = "queued" /\ new.out = None.out
          /\ new.asked = None.asked /\ new.sent = None.sent /\ new.shut = None.shut
      BY <2>3, <3>1 DEF Line
    <3> QED
      BY <3>2, <3>3
  <2>5. conn' = [conn EXCEPT ![c] = new]
    BY <1>3
  <2> HIDE DEF new
  <2>6. /\ conn' \in [Connection -> Line] /\ conn'[c] = new
        /\ \A d \in Connection \ {c} : conn'[d] = conn[d]
    BY <2>0, <2>4, <2>5
  <2>7. ~InQueue(c) /\ hand # c /\ c \notin book
    BY <2>0, <2>2 DEF LinePlaced, Serving
  <2>8. /\ queue \in Seq(Connection \cup {WakeUp})
        /\ queue' \in Seq(Connection \cup {WakeUp}) /\ Len(queue') = Len(queue) + 1
        /\ Len(queue) \in Nat
        /\ queue'[Len(queue) + 1] = c /\ \A i \in 1 .. Len(queue) : queue'[i] = queue[i]
    BY <1>3, <2>0 DEF AppTyped
  <2>9. InQueue(c)' /\ \A d : d # c => (InQueue(d)' <=> InQueue(d))
    BY <2>8 DEF InQueue
  <2>10. AppTrue'
    <3>1. AppTyped'
      BY <2>0, <2>3, <2>8 DEF AppTyped
    <3>2. QueueOnce'
      BY <2>0, <2>7, <2>8 DEF QueueOnce, InQueue
    <3>3. AcceptorTrue'
      BY <2>0, <2>3, <2>9 DEF AcceptorTrue, InHand
    <3>4. LifeTrue'
      <4>1. \A d \in book : conn'[d] = conn[d]
        BY <2>0, <2>6, <2>7 DEF AppTyped
      <4> QED
        BY <2>0, <2>3, <4>1 DEF LifeTrue
    <3> QED
      BY <3>1, <3>2, <3>3, <3>4 DEF AppTrue
  <2>11. LinesTrue'
    <3>1. LinePlaced(c)' /\ LineTrue(c)'
      <4>1. Most(c) \in Nat
        BY BridgeAssumption DEF Most
      <4> QED
        BY <2>3, <2>4, <2>6, <2>7, <2>9, <4>1 DEF LinePlaced, LineTrue, Serving
    <3>2. ASSUME NEW d \in Connection \ {c} PROVE LinePlaced(d)' /\ LineTrue(d)'
      BY <2>3, <2>6, <2>9 DEF BridgeBooks, LinesTrue, LinePlaced, LineTrue
    <3> QED
      BY <2>6, <3>1, <3>2 DEF LinesTrue
  <2>12. RequestTrue(r)'
    <3>1. Current(r)' = c
      BY <1>0, <2>1 DEF Current
    <3>2. r \in Loads /\ req[r].ask = "entry" => conn'[<<r, "content">>] = conn[<<r, "content">>]
      BY <1>0, <2>6, Connections
    <3>3. Greeting(c)'
      BY <2>4, <2>6 DEF Greeting
    <3> QED
      BY <1>1, <2>0, <2>1, <2>2, <2>3, <3>1, <3>2, <3>3 DEF RequestTrue
  <2>13. ASSUME NEW q \in Requests \ {r} PROVE RequestTrue(q)'
    <3>1. /\ req'[q] = req[q] /\ Current(q)' = Current(q)
          /\ conn'[Current(q)] = conn[Current(q)]
      BY <1>0, <2>1, <2>6, Connections, CurrentIs DEF BridgeBooks, Current
    <3>2. q \in Loads => conn'[<<q, "content">>] = conn[<<q, "content">>]
      BY <1>0, <2>6, Connections
    <3>3. RequestTrue(q)
      BY DEF BridgeBooks, RequestsTrue
    <3>4. Greeting(Current(q)) => Greeting(Current(q))'
      BY <3>1 DEF Greeting
    <3>5. Told(Current(q), req[q].got) => Told(Current(q), req[q].got)'
      BY <3>1 DEF Told
    <3> QED
      BY <2>3, <3>1, <3>2, <3>3, <3>4, <3>5 DEF RequestTrue
  <2> QED
    BY <2>1, <2>10, <2>11, <2>12, <2>13 DEF BridgeBooks, RequestsTrue
<1> QED
  BY <1>0, <1>2, <1>3 DEF Connects

\* Whatever the extension does.
LEMMA ClientsKeep ==
  ASSUME BridgeBooks, NEW r \in Requests, Cancels(r) \/ Client(r) PROVE BridgeBooks'
  BY CancelsKeeps, FindsKeeps, ConnectsKeeps, GreetedKeeps, EntryComesKeeps, DataComesKeeps,
     EndingKeeps DEF Client
-----------------------------------------------------------------------------
\* The app goes on with a connection: what its request counts on stays true.
GoesOn(c) ==
  /\ conn[c].at = "none" => conn'[c].at = "none"
  /\ Greeting(c) => Greeting(c)'
  /\ \A got \in Nat : Told(c, got) => Told(c, got)'

\* No request notices what the app does but by its line.
LEMMA RequestsKeep ==
  ASSUME BridgeBooks, UNCHANGED clientVars, \A c \in Connection : GoesOn(c)
  PROVE  RequestsTrue'
<1>1. UNCHANGED <<req, wish>>
  BY DEF clientVars
<1>2. RequestsTyped'
  BY <1>1 DEF BridgeBooks, RequestsTrue, RequestsTyped
<1>3. ASSUME NEW r \in Requests PROVE RequestTrue(r)'
  <2>0. PICK c \in Connection : c = Current(r)
    BY CurrentIs DEF BridgeBooks
  <2>1. Current(r)' = c
    BY <1>1, <2>0 DEF Current
  <2>2. RequestTrue(r) /\ req[r].got \in Nat
    BY <2>0, LineNumbers DEF BridgeBooks, RequestsTrue
  <2>3. PICK got \in Nat : got = req[r].got
    BY <2>2
  <2>4. r \in Loads => <<r, "content">> \in Connection
    BY Connections
  <2>5. Greeting(c) => Greeting(c)'
    BY DEF GoesOn
  <2>6. Told(c, got) => Told(c, got)'
    BY DEF GoesOn
  <2>7. req[r].stage \in {"opens", "found"} => conn'[c].at = "none"
    BY <2>0, <2>2 DEF RequestTrue, GoesOn
  <2>8. r \in Loads /\ req[r].ask = "entry" /\ req[r].stage # "done" =>
          conn'[<<r, "content">>].at = "none"
    BY <2>2, <2>4 DEF RequestTrue, GoesOn
  <2> QED
    BY <1>1, <2>0, <2>1, <2>2, <2>3, <2>5, <2>6, <2>7, <2>8 DEF RequestTrue
<1> QED
  BY <1>2, <1>3 DEF RequestsTrue

\* A connection that stays as it is.
LEMMA SameGoesOn == ASSUME NEW c, conn'[c] = conn[c] PROVE GoesOn(c)
  BY DEF GoesOn, Greeting, Told

\* The numbers of what the app sends.
LEMMA SentNumbers ==
  ASSUME BridgeBooks, NEW c \in Connection
  PROVE  /\ conn[c] \in Line /\ LinePlaced(c) /\ LineTrue(c) /\ Most(c) \in Nat /\ Most(c) <= Chunks
         /\ conn[c].sent \in Nat /\ conn[c].sent <= Most(c)
         /\ conn[c].out \in Seq(Said) /\ Len(conn[c].out) \in Nat
<1>1. Chunks \in Nat
  BY BridgeAssumption
<1>2. conn[c] \in Line /\ LinePlaced(c) /\ LineTrue(c)
  BY DEF BridgeBooks, LinesTrue
<1>3. Most(c) \in Nat /\ Most(c) <= Chunks
  BY <1>1 DEF Most
<1>4. conn[c].sent \in Nat /\ conn[c].sent <= Most(c) /\ conn[c].out \in Seq(Said)
  BY <1>1, <1>2 DEF Line, LineTrue
<1> HIDE DEF Said
<1>5. Len(conn[c].out) \in Nat
  BY <1>4
<1> QED
  BY <1>2, <1>3, <1>4, <1>5

\* The app lets connections go: what they have not read yet stays with them (Checkout).
LEMMA DroppedIs ==
  ASSUME BridgeBooks, NEW C, \A c \in Connection \cap C : conn[c].at # "none"
  PROVE  conn' = Dropped(C) =>
           /\ conn' \in [Connection -> Line] /\ \A c \in Connection : GoesOn(c)
           /\ \A c \in Connection \ C : conn'[c] = conn[c]
           /\ \A c \in Connection \cap C :
                /\ conn'[c].at = "gone" /\ conn'[c].shut /\ conn'[c].sent = 0
                /\ conn'[c].run = conn[c].run
<1> SUFFICES ASSUME conn' = Dropped(C)
             PROVE  /\ conn' \in [Connection -> Line] /\ \A c \in Connection : GoesOn(c)
                    /\ \A c \in Connection \ C : conn'[c] = conn[c]
                    /\ \A c \in Connection \cap C :
                         /\ conn'[c].at = "gone" /\ conn'[c].shut /\ conn'[c].sent = 0
                         /\ conn'[c].run = conn[c].run
    OBVIOUS
<1>1. ASSUME NEW c \in Connection \ C PROVE conn'[c] = conn[c]
  BY DEF Dropped
<1>2. ASSUME NEW c \in Connection \cap C
      PROVE  /\ conn'[c] \in Line /\ conn'[c].at = "gone" /\ conn'[c].shut /\ conn'[c].sent = 0
             /\ conn'[c].run = conn[c].run /\ conn'[c].out = conn[c].out /\ ~conn'[c].asked
  <2>1. conn'[c] = Gone(conn[c])
    BY DEF Dropped
  <2> DEFINE k == conn[c]
  <2>2. k \in Line
    BY SentNumbers
  <2> HIDE DEF k
  <2>3. None \in Line
    BY NoneTyped
  <2>4. ~None.asked /\ None.sent = 0
    BY DEF None
  <2>5. /\ Gone(k) \in Line /\ Gone(k).at = "gone" /\ Gone(k).shut /\ Gone(k).sent = None.sent
        /\ Gone(k).run = k.run /\ Gone(k).out = k.out /\ Gone(k).asked = None.asked
    BY <2>2, <2>3 DEF Gone, Line
  <2> QED
    BY <2>1, <2>4, <2>5 DEF k
<1>3. conn' \in [Connection -> Line]
  <2>1. conn' = [c \in Connection |-> conn'[c]]
    BY DEF Dropped
  <2>2. \A c \in Connection : conn'[c] \in Line
    BY <1>1, <1>2, SentNumbers
  <2> QED
    BY <2>1, <2>2
<1>4. ASSUME NEW c \in Connection PROVE GoesOn(c)
  <2>1. CASE c \notin C
    BY <1>1, <2>1, SameGoesOn
  <2>2. CASE c \in C
    <3>1. conn[c].at # "none"
      BY <2>2
    <3>2. Greeting(c) => Greeting(c)'
      BY <1>2, <2>2 DEF Greeting
    <3>3. ASSUME NEW got \in Nat, Told(c, got) PROVE Told(c, got)'
      <4>1. /\ conn[c] \in Line /\ Most(c) \in Nat /\ conn[c].sent \in Nat /\ conn[c].sent <= Most(c)
            /\ Len(conn[c].out) \in Nat
        BY SentNumbers
      <4>2. conn[c].at \in {"request", "works", "result", "ending", "gone"}
        BY <3>3, <4>1 DEF Told, Line, Serving
      <4>3. CASE conn[c].at \in {"request", "works", "result"}
        <5>1. Len(conn[c].out) + got <= Most(c)
          BY <3>3, <4>1, <4>3 DEF Told
        <5> QED
          BY <1>2, <2>2, <5>1 DEF Told
      <4>4. CASE conn[c].at \in {"ending", "gone"}
        BY <1>2, <2>2, <3>3, <4>4 DEF Told
      <4> QED
        BY <4>2, <4>3, <4>4
    <3> QED
      BY <3>1, <3>2, <3>3 DEF GoesOn
  <2> QED
    BY <2>1, <2>2
<1> QED
  BY <1>1, <1>2, <1>3, <1>4

\* The acceptance thread ends, and with it go what it has in hand and what waits.
LEMMA AcceptorEndsKeeps ==
  ASSUME BridgeBooks, NEW C, AcceptorEnds(C),
         \A c \in Connection : c \in C <=> conn[c].at = "hand",
         UNCHANGED <<clientVars, book, hold, appVars>>
  PROVE  BridgeBooks'
<1>0. AppTyped /\ QueueOnce /\ AcceptorTrue /\ LifeTrue /\ WakeUp \notin Connection
  BY Connections DEF BridgeBooks, AppTrue
<1>1. /\ acceptor' = "ended" /\ hand' = WakeUp /\ queue' = <<>>
      /\ UNCHANGED <<req, wish, book, hold, life, run, file>>
      /\ conn' = Dropped(C \cup ToSet(queue))
  BY DEF AcceptorEnds, clientVars, appVars
<1>2. \A c \in Connection : c \in C \cup ToSet(queue) <=> conn[c].at \in {"hand", "queued"}
  <2>1. \A c \in Connection : c \in ToSet(queue) <=> InQueue(c)
    BY <1>0 DEF ToSet, InQueue, AppTyped
  <2> QED
    BY <2>1, SentNumbers DEF LinePlaced
<1>3. /\ conn' \in [Connection -> Line] /\ \A c \in Connection : GoesOn(c)
      /\ \A c \in Connection : conn[c].at \notin {"hand", "queued"} => conn'[c] = conn[c]
      /\ \A c \in Connection : conn[c].at \in {"hand", "queued"} =>
           /\ conn'[c].at = "gone" /\ conn'[c].shut /\ conn'[c].sent = 0
           /\ conn'[c].run = conn[c].run
  <2> DEFINE D == C \cup ToSet(queue)
  <2>1. \A c \in Connection \cap D : conn[c].at # "none"
    BY <1>2
  <2>2. conn' = Dropped(D)
    BY <1>1
  <2>3. \A c \in Connection : c \in D <=> conn[c].at \in {"hand", "queued"}
    BY <1>2
  <2> HIDE DEF D
  <2> QED
    BY <2>1, <2>2, <2>3, DroppedIs
<1>4. RequestsTrue'
  BY <1>1, <1>3, RequestsKeep DEF clientVars
<1>5. \A c : ~InQueue(c)'
  BY <1>1, OneMessage DEF InQueue
<1>6. ASSUME NEW c \in Connection PROVE LinePlaced(c)' /\ LineTrue(c)'
  <2>1. LinePlaced(c) /\ LineTrue(c) /\ Most(c) \in Nat
    BY SentNumbers
  <2>2. hand' # c /\ ~InQueue(c)'
    BY <1>0, <1>1, <1>5
  <2>3. CASE conn[c].at \in {"hand", "queued"}
    <3>1. /\ conn'[c].at = "gone" /\ conn'[c].shut /\ conn'[c].sent = 0
          /\ conn'[c].run = conn[c].run
      BY <1>3, <2>3
    <3>2. c \notin book /\ book' = book /\ run' = run
      BY <1>1, <2>1, <2>3 DEF LinePlaced, Serving
    <3>3. LinePlaced(c)'
      BY <2>1, <2>2, <3>1, <3>2 DEF LinePlaced, Serving
    <3>4. LineTrue(c)'
      BY <2>1, <3>1 DEF LineTrue
    <3> QED
      BY <3>3, <3>4
  <2>4. CASE conn[c].at \notin {"hand", "queued"}
    <3>1. conn'[c] = conn[c]
      BY <1>3, <2>4
    <3> QED
      BY <1>1, <2>1, <2>2, <2>4, <3>1 DEF LinePlaced, LineTrue
  <2> QED
    BY <2>3, <2>4
<1>7. LinesTrue'
  BY <1>3, <1>6 DEF LinesTrue
<1>8. AppTrue'
  <2>1. AppTyped'
    <3>1. queue' \in Seq(Connection \cup {WakeUp})
      BY <1>1
    <3> QED
      BY <1>0, <1>1, <3>1 DEF AppTyped
  <2>2. QueueOnce'
    BY <1>1, OneMessage DEF QueueOnce
  <2>3. AcceptorTrue'
    BY <1>0, <1>1, <1>5 DEF AcceptorTrue, InHand
  <2>4. LifeTrue'
    <3>1. ASSUME NEW c \in book PROVE conn'[c] = conn[c]
      <4>1. c \in Connection /\ LinePlaced(c)
        BY <1>0, SentNumbers DEF AppTyped
      <4> QED
        BY <1>3, <4>1 DEF LinePlaced, Serving
    <3>2. acceptor' = "ended" /\ UNCHANGED <<book, hold, life>>
      BY <1>1
    <3>3. LifeTrue
      BY <1>0
    <3> QED
      BY <3>1, <3>2, <3>3 DEF LifeTrue
  <2> QED
    BY <2>1, <2>2, <2>3, <2>4 DEF AppTrue
<1> QED
  BY <1>4, <1>7, <1>8 DEF BridgeBooks
\* The acceptance thread looks whether it is to stop, and whether a place is free.
LEMMA WaitsOnSpaceKeeps == ASSUME BridgeBooks, WaitsOnSpace PROVE BridgeBooks'
<1>0. AppTyped /\ QueueOnce /\ AcceptorTrue /\ LifeTrue /\ WakeUp \notin Connection
  BY Connections DEF BridgeBooks, AppTrue
<1>1. acceptor = "looks" /\ UNCHANGED <<clientVars, book, hold, appVars>>
  BY DEF WaitsOnSpace
<1>2. CASE AcceptorEnds({})
  <2>1. hand = WakeUp
    BY <1>0, <1>1 DEF AcceptorTrue, InHand
  <2>2. \A c \in Connection : c \in {} <=> conn[c].at = "hand"
    BY <1>0, <2>1, SentNumbers DEF LinePlaced
  <2> QED
    BY <1>1, <1>2, <2>2, AcceptorEndsKeeps
<1>3. CASE /\ acceptor' = IF Cardinality(book) < Places THEN "accepts" ELSE "asleep"
           /\ UNCHANGED <<conn, queue, hand>>
  <2>1. /\ UNCHANGED <<req, wish, conn, queue, book, hand, hold, life, run, file>>
        /\ acceptor' \in {"accepts", "asleep"}
        /\ acceptor' = "accepts" => Cardinality(book) < Places
    BY <1>1, <1>3 DEF clientVars, appVars
  <2>2. AppTyped' /\ QueueOnce'
    BY <1>0, <2>1 DEF AppTyped, QueueOnce
  <2>3. AcceptorTrue'
    BY <1>0, <1>1, <2>1 DEF AcceptorTrue, InHand, InQueue
  <2>4. LifeTrue'
    BY <1>0, <1>1, <2>1 DEF LifeTrue
  <2>5. LinesTrue'
    BY <2>1 DEF BridgeBooks, LinesTrue, LinePlaced, LineTrue, InQueue
  <2>6. RequestsTrue'
    BY <1>1, <2>1, SameGoesOn, RequestsKeep
  <2> QED
    BY <2>2, <2>3, <2>4, <2>5, <2>6 DEF BridgeBooks, AppTrue
<1> QED
  BY <1>2, <1>3 DEF WaitsOnSpace

\* It looks again with a connection in hand (accept).
LEMMA ChecksKeeps == ASSUME BridgeBooks, Checks PROVE BridgeBooks'
<1>0. AppTyped /\ QueueOnce /\ AcceptorTrue /\ LifeTrue /\ WakeUp \notin Connection
  BY Connections DEF BridgeBooks, AppTrue
<1>1. acceptor = "checks" /\ UNCHANGED <<clientVars, book, hold, appVars>>
  BY DEF Checks
<1>2. CASE AcceptorEnds({hand})
  <2>1. \A c \in Connection : c \in {hand} <=> conn[c].at = "hand"
    BY SentNumbers DEF LinePlaced
  <2> QED
    BY <1>1, <1>2, <2>1, AcceptorEndsKeeps
<1>3. CASE ~hold /\ acceptor' = "inserts" /\ UNCHANGED <<conn, queue, hand>>
  <2>1. UNCHANGED <<req, wish, conn, queue, book, hand, hold, life, run, file>>
    BY <1>1, <1>3 DEF clientVars, appVars
  <2>2. AppTyped' /\ QueueOnce'
    BY <1>0, <1>3, <2>1 DEF AppTyped, QueueOnce
  <2>3. AcceptorTrue'
    BY <1>0, <1>1, <1>3, <2>1 DEF AcceptorTrue, InHand, InQueue
  <2>4. LifeTrue'
    BY <1>0, <1>1, <1>3, <2>1 DEF LifeTrue
  <2>5. LinesTrue'
    BY <2>1 DEF BridgeBooks, LinesTrue, LinePlaced, LineTrue, InQueue
  <2>6. RequestsTrue'
    BY <1>1, <2>1, SameGoesOn, RequestsKeep
  <2> QED
    BY <2>2, <2>3, <2>4, <2>5, <2>6 DEF BridgeBooks, AppTrue
<1> QED
  BY <1>2, <1>3 DEF Checks

\* The first connection of the queue comes into its hand.
LEMMA AcceptsKeeps == ASSUME BridgeBooks, Accepts PROVE BridgeBooks'
<1>0. AppTyped /\ QueueOnce /\ AcceptorTrue /\ LifeTrue /\ WakeUp \notin Connection
  BY Connections DEF BridgeBooks, AppTrue
<1>1. /\ acceptor = "accepts" /\ acceptor' = "checks" /\ queue # <<>>
      /\ hand' = Head(queue) /\ queue' = Tail(queue)
      /\ UNCHANGED <<req, wish, book, hold, life, run, file>>
      /\ conn' = IF Head(queue) = WakeUp THEN conn ELSE [conn EXCEPT ![Head(queue)].at = "hand"]
  BY DEF Accepts, clientVars, appVars
<1>2. /\ queue \in Seq(Connection \cup {WakeUp}) /\ Len(queue) \in Nat \ {0}
      /\ queue' \in Seq(Connection \cup {WakeUp}) /\ Len(queue') = Len(queue) - 1
      /\ hand' = queue[1] /\ \A i \in 1 .. Len(queue) - 1 : queue'[i] = queue[i + 1]
      /\ hand' \in Connection \cup {WakeUp}
  <2>1. queue \in Seq(Connection \cup {WakeUp})
    BY <1>0 DEF AppTyped
  <2>2. Len(queue) \in Nat \ {0} /\ queue[1] \in Connection \cup {WakeUp}
    BY <1>1, <2>1
  <2> QED
    BY <1>1, <2>1, <2>2, TailIs
<1>3. \A d : InQueue(d) <=> d = hand' \/ InQueue(d)'
  <2>1. ASSUME NEW d, InQueue(d) PROVE d = hand' \/ InQueue(d)'
    <3>1. PICK i \in 1 .. Len(queue) : queue[i] = d
      BY <2>1 DEF InQueue
    <3>2. CASE i = 1
      BY <1>2, <3>1, <3>2
    <3>3. CASE i # 1
      <4>1. i - 1 \in 1 .. Len(queue') /\ i - 1 \in 1 .. Len(queue) - 1 /\ (i - 1) + 1 = i
        BY <1>2, <3>1, <3>3
      <4>2. queue'[i - 1] = d
        BY <1>2, <3>1, <4>1
      <4> QED
        BY <4>1, <4>2 DEF InQueue
    <3> QED
      BY <3>2, <3>3
  <2>2. ASSUME NEW d, InQueue(d)' PROVE InQueue(d)
    <3>1. PICK i \in 1 .. Len(queue') : queue'[i] = d
      BY <2>2 DEF InQueue
    <3>2. i + 1 \in 1 .. Len(queue) /\ queue[i + 1] = d
      BY <1>2, <3>1
    <3> QED
      BY <3>2 DEF InQueue
  <2>3. InQueue(hand')
    <3>1. 1 \in 1 .. Len(queue) /\ queue[1] = hand'
      BY <1>2
    <3> QED
      BY <3>1 DEF InQueue
  <2> QED
    BY <2>1, <2>2, <2>3
<1>4. ASSUME NEW c \in Connection, c = hand' PROVE ~InQueue(c)'
  <2>1. SUFFICES ASSUME InQueue(c)' PROVE c = WakeUp
    BY <1>0
  <2>2. PICK i \in 1 .. Len(queue') : queue'[i] = c
    BY <2>1 DEF InQueue
  <2>3. i + 1 \in 1 .. Len(queue) /\ 1 \in 1 .. Len(queue) /\ i + 1 # 1 /\ queue[i + 1] = queue[1]
    BY <1>2, <1>4, <2>2
  <2> QED
    BY <1>0, <1>2, <1>4, <2>3 DEF QueueOnce
<1>5. /\ conn' \in [Connection -> Line]
      /\ \A c \in Connection : c # hand' => conn'[c] = conn[c]
      /\ \A c \in Connection : c = hand' =>
           /\ conn[c].at = "queued" /\ conn'[c].at = "hand" /\ conn'[c].run = conn[c].run
           /\ conn'[c].out = conn[c].out /\ conn'[c].asked = conn[c].asked
           /\ conn'[c].sent = conn[c].sent
  <2>1. conn \in [Connection -> Line]
    BY DEF BridgeBooks, LinesTrue
  <2>2. CASE hand' = WakeUp
    BY <1>0, <1>1, <2>1, <2>2
  <2>3. CASE hand' # WakeUp
    <3>1. PICK c \in Connection : c = hand'
      BY <1>2, <2>3
    <3>2. conn' = [conn EXCEPT ![c].at = "hand"]
      BY <1>1, <2>3, <3>1
    <3>3. conn[c] \in Line /\ conn[c].at = "queued"
      BY <1>3, <3>1, SentNumbers DEF LinePlaced
    <3>4. conn'[c] = [conn[c] EXCEPT !.at = "hand"]
      BY <2>1, <3>2
    <3>5. /\ conn'[c] \in Line /\ conn'[c].at = "hand" /\ conn'[c].run = conn[c].run
          /\ conn'[c].out = conn[c].out /\ conn'[c].asked = conn[c].asked
          /\ conn'[c].sent = conn[c].sent
      BY <3>3, <3>4 DEF Line
    <3>6. \A d \in Connection \ {c} : conn'[d] = conn[d]
      BY <2>1, <3>2
    <3>7. conn' \in [Connection -> Line]
      BY <2>1, <3>2, <3>5, <3>6
    <3> QED
      BY <3>1, <3>3, <3>5, <3>6, <3>7
  <2> QED
    BY <2>2, <2>3
<1>6. ASSUME NEW c \in Connection PROVE GoesOn(c)
  <2>1. CASE c = hand'
    BY <1>5, <2>1 DEF GoesOn, Greeting, Told
  <2>2. CASE c # hand'
    BY <1>5, <2>2, SameGoesOn
  <2> QED
    BY <2>1, <2>2
<1>7. ASSUME NEW c \in Connection PROVE LinePlaced(c)' /\ LineTrue(c)'
  <2>1. LinePlaced(c) /\ LineTrue(c)
    BY SentNumbers
  <2>2. hand # c
    BY <1>0, <1>1 DEF AcceptorTrue, InHand
  <2>3. CASE c = hand'
    <3>1. /\ conn[c].at = "queued" /\ conn'[c].at = "hand" /\ conn'[c].run = conn[c].run
          /\ conn'[c].sent = conn[c].sent /\ ~InQueue(c)' /\ run' = run /\ book' = book
      BY <1>0, <1>1, <1>4, <1>5, <2>3
    <3>2. LinePlaced(c)'
      BY <2>1, <2>3, <3>1 DEF LinePlaced, Serving
    <3>3. LineTrue(c)'
      BY <2>1, <3>1 DEF LineTrue
    <3> QED
      BY <3>2, <3>3
  <2>4. CASE c # hand'
    <3>1. conn'[c] = conn[c] /\ (InQueue(c)' <=> InQueue(c)) /\ UNCHANGED <<run, book, hold>>
      BY <1>1, <1>3, <1>5, <2>4
    <3> QED
      BY <2>1, <2>2, <2>4, <3>1 DEF LinePlaced, LineTrue
  <2> QED
    BY <2>3, <2>4
<1>8. AppTrue'
  <2>1. AppTyped'
    BY <1>0, <1>1, <1>2 DEF AppTyped
  <2>2. QueueOnce'
    <3>1. ASSUME NEW i \in 1 .. Len(queue'), NEW j \in 1 .. Len(queue'),
                 i # j, queue'[i] = queue'[j]
          PROVE  queue'[i] = WakeUp
      <4>1. /\ i + 1 \in 1 .. Len(queue) /\ j + 1 \in 1 .. Len(queue) /\ i + 1 # j + 1
            /\ queue'[i] = queue[i + 1] /\ queue'[j] = queue[j + 1]
        BY <1>2, <3>1
      <4> QED
        BY <1>0, <3>1, <4>1 DEF QueueOnce
    <3> QED
      BY <3>1 DEF QueueOnce
  <2>3. AcceptorTrue'
    <3>1. InQueue(WakeUp)' \/ hand' = WakeUp => hold
      BY <1>0, <1>3 DEF AcceptorTrue
    <3> QED
      BY <1>0, <1>1, <3>1 DEF AcceptorTrue, InHand
  <2>4. LifeTrue'
    <3>1. life \notin {"down", "joined", "closed", "over"}
      BY <1>0, <1>1 DEF LifeTrue
    <3>2. UNCHANGED <<life, hold>> /\ LifeTrue
      BY <1>0, <1>1
    <3> QED
      BY <3>1, <3>2 DEF LifeTrue
  <2> QED
    BY <2>1, <2>2, <2>3, <2>4 DEF AppTrue
<1>9. RequestsTrue'
  BY <1>1, <1>6, RequestsKeep DEF clientVars
<1> QED
  BY <1>5, <1>7, <1>8, <1>9 DEF BridgeBooks, LinesTrue
\* The connection in hand is entered in the book and gets a thread, or is let go.
LEMMA InsertsKeeps == ASSUME BridgeBooks, Inserts PROVE BridgeBooks'
<1>0. AppTyped /\ QueueOnce /\ AcceptorTrue /\ LifeTrue /\ WakeUp \notin Connection
  BY Connections DEF BridgeBooks, AppTrue
<1>1. /\ acceptor = "inserts" /\ acceptor' = "looks" /\ hand' = WakeUp
      /\ UNCHANGED <<req, wish, queue, hold, life, run, file>>
  BY DEF Inserts, clientVars, appVars
<1>2. PICK c \in Connection : c = hand
  BY <1>0, <1>1 DEF AppTyped, AcceptorTrue
<1>3. /\ conn[c] \in Line /\ conn[c].at = "hand" /\ LinePlaced(c) /\ LineTrue(c)
      /\ conn \in [Connection -> Line]
  BY <1>2, SentNumbers DEF LinePlaced, BridgeBooks, LinesTrue
<1>4. c \notin book /\ ~InQueue(c) /\ conn[c].run = run
  BY <1>3 DEF LinePlaced, Serving
<1>5. /\ Cardinality(book) < Places /\ Cardinality(book) \in Nat /\ IsFiniteSet(book)
      /\ Cardinality(book \cup {c}) = Cardinality(book) + 1 /\ IsFiniteSet(book \cup {c})
      /\ book \subseteq Connection
  BY <1>0, <1>1, <1>4, FS_AddElement, FS_CardinalityType DEF AcceptorTrue, AppTyped
<1>6. /\ conn' \in [Connection -> Line] /\ \A d \in Connection \ {c} : conn'[d] = conn[d]
      /\ conn'[c].sent = 0 /\ conn'[c].run = conn[c].run
      /\ \A d \in Connection : GoesOn(d)
      /\ \/ book' = book \cup {c} /\ conn'[c].at = "hello"
         \/ book' = book /\ conn'[c].at = "gone" /\ conn'[c].shut
  <2>1. CASE conn' = [conn EXCEPT ![c].at = "hello"] /\ book' = book \cup {c}
    <3>1. conn'[c] = [conn[c] EXCEPT !.at = "hello"] /\ \A d \in Connection \ {c} : conn'[d] = conn[d]
      BY <1>3, <2>1
    <3>2. /\ conn'[c] \in Line /\ conn'[c].at = "hello" /\ conn'[c].run = conn[c].run
          /\ conn'[c].out = conn[c].out /\ conn'[c].asked = conn[c].asked
          /\ conn'[c].sent = conn[c].sent
      BY <1>3, <3>1 DEF Line, Serving
    <3>3. conn[c].sent = 0
      BY <1>3 DEF LineTrue
    <3>4. GoesOn(c)
      BY <1>3, <3>2 DEF GoesOn, Greeting, Told
    <3>5. \A d \in Connection \ {c} : GoesOn(d)
      BY <3>1, SameGoesOn
    <3>6. conn' \in [Connection -> Line]
      BY <1>3, <2>1, <3>1, <3>2
    <3> QED
      BY <2>1, <3>1, <3>2, <3>3, <3>4, <3>5, <3>6
  <2>2. CASE conn' = Dropped({c}) /\ book' = book
    <3>1. \A d \in Connection \cap {c} : conn[d].at # "none"
      BY <1>3
    <3> QED
      BY <2>2, <3>1, DroppedIs
  <2> QED
    BY <1>2, <2>1, <2>2 DEF Inserts
<1>7. AppTrue'
  <2>0. Places \in Nat
    BY BridgeAssumption
  <2>2. book' \subseteq Connection /\ IsFiniteSet(book') /\ Cardinality(book') <= Places
    <3>1. CASE book' = book \cup {c}
      BY <1>5, <2>0, <3>1
    <3>2. CASE book' = book
      BY <1>5, <2>0, <3>2
    <3> QED
      BY <1>6, <3>1, <3>2
  <2>1. AppTyped' /\ QueueOnce'
    BY <1>0, <1>1, <2>2 DEF AppTyped, QueueOnce
  <2>3. AcceptorTrue'
    <3>1. InQueue(WakeUp)' => InQueue(WakeUp)
      BY <1>1 DEF InQueue
    <3> QED
      BY <1>0, <1>1, <2>2, <3>1 DEF AcceptorTrue, InHand
  <2>4. LifeTrue'
    <3>1. life \notin {"down", "joined", "closed", "over"}
      BY <1>0, <1>1 DEF LifeTrue
    <3>2. UNCHANGED <<life, hold>> /\ LifeTrue
      BY <1>0, <1>1
    <3> QED
      BY <3>1, <3>2 DEF LifeTrue
  <2> QED
    BY <2>1, <2>3, <2>4 DEF AppTrue
<1>8. ASSUME NEW d \in Connection PROVE LinePlaced(d)' /\ LineTrue(d)'
  <2>1. (InQueue(d)' <=> InQueue(d)) /\ hand' # d /\ UNCHANGED <<run, hold>>
    BY <1>0, <1>1 DEF InQueue
  <2>2. CASE d = c
    <3>1. Most(c) \in Nat
      BY SentNumbers
    <3>2. LinePlaced(c)'
      BY <1>3, <1>4, <1>6, <2>1, <2>2 DEF LinePlaced, Serving
    <3>3. LineTrue(c)'
      BY <1>6, <3>1 DEF LineTrue
    <3> QED
      BY <2>2, <3>2, <3>3
  <2>3. CASE d # c
    <3>1. conn'[d] = conn[d] /\ (d \in book' <=> d \in book) /\ LinePlaced(d) /\ LineTrue(d)
      BY <1>6, <2>3, SentNumbers
    <3> QED
      BY <1>2, <2>1, <2>3, <3>1 DEF LinePlaced, LineTrue
  <2> QED
    BY <2>2, <2>3
<1>9. RequestsTrue'
  BY <1>1, <1>6, RequestsKeep DEF clientVars
<1> QED
  BY <1>6, <1>7, <1>8, <1>9 DEF BridgeBooks, LinesTrue

-----------------------------------------------------------------------------
\* A thread or the engine goes on with its connection and keeps its place.
LEMMA LineKeeps ==
  ASSUME BridgeBooks, NEW c \in Connection, UNCHANGED others,
         conn[c].at \in Serving, conn'[c].at \in Serving, conn'[c] \in Line,
         conn' = [conn EXCEPT ![c] = conn'[c]],
         conn'[c].run = conn[c].run, conn'[c].shut = conn[c].shut,
         LineTrue(c)', GoesOn(c)
  PROVE  BridgeBooks'
<1>0. AppTyped /\ QueueOnce /\ AcceptorTrue /\ LifeTrue /\ conn \in [Connection -> Line]
  BY DEF BridgeBooks, AppTrue, LinesTrue
<1>1. UNCHANGED <<req, wish, queue, book, acceptor, hand, hold, life, run, file>>
  BY DEF others, clientVars, serverVars, appVars
<1>2. conn' \in [Connection -> Line] /\ \A d \in Connection \ {c} : conn'[d] = conn[d]
  BY <1>0
<1>3. AppTrue'
  <2>1. AppTyped' /\ QueueOnce'
    BY <1>0, <1>1 DEF AppTyped, QueueOnce
  <2>2. AcceptorTrue'
    BY <1>0, <1>1 DEF AcceptorTrue, InHand, InQueue
  <2>3. \A d \in book : conn'[d].shut = conn[d].shut
    BY <1>0, <1>2 DEF AppTyped
  <2>4. LifeTrue'
    BY <1>0, <1>1, <2>3 DEF LifeTrue
  <2> QED
    BY <2>1, <2>2, <2>4 DEF AppTrue
<1>4. ASSUME NEW d \in Connection PROVE LinePlaced(d)' /\ LineTrue(d)'
  <2>1. (InQueue(d)' <=> InQueue(d)) /\ LinePlaced(d) /\ LineTrue(d)
    BY <1>1, SentNumbers DEF InQueue
  <2>2. CASE d = c
    <3>1. LinePlaced(c)'
      BY <1>1, <2>1, <2>2 DEF LinePlaced, Serving
    <3> QED
      BY <2>2, <3>1
  <2>3. CASE d # c
    BY <1>1, <1>2, <2>1, <2>3 DEF LinePlaced, LineTrue
  <2> QED
    BY <2>2, <2>3
<1>5. ASSUME NEW d \in Connection PROVE GoesOn(d)
  BY <1>2, SameGoesOn
<1>6. RequestsTrue'
  BY <1>1, <1>5, RequestsKeep DEF clientVars
<1> QED
  BY <1>2, <1>3, <1>4, <1>6 DEF BridgeBooks, LinesTrue
\* The thread gives up, or takes the question.
LEMMA GivesUpKeeps ==
  ASSUME BridgeBooks, NEW c \in Connection, GivesUp(c) \/ TakesRequest(c) PROVE BridgeBooks'
<1>1. PICK to \in {"ending", "works"} :
        /\ conn' = [conn EXCEPT ![c].at = to] /\ UNCHANGED others
        /\ conn[c].at \in {"hello", "request"}
        /\ to = "works" => conn[c].asked /\ conn[c].at = "request"
  BY DEF GivesUp, TakesRequest
<1>2. /\ conn[c] \in Line /\ LineTrue(c) /\ Most(c) \in Nat /\ conn[c].sent = 0
      /\ Len(conn[c].out) \in Nat /\ conn \in [Connection -> Line]
  BY <1>1, SentNumbers DEF LineTrue, BridgeBooks, LinesTrue
<1>3. conn'[c] = [conn[c] EXCEPT !.at = to] /\ conn' = [conn EXCEPT ![c] = conn'[c]]
  BY <1>1, <1>2
<1>4. /\ conn'[c] \in Line /\ conn'[c].at = to /\ conn'[c].run = conn[c].run
      /\ conn'[c].shut = conn[c].shut /\ conn'[c].out = conn[c].out
      /\ conn'[c].asked = conn[c].asked /\ conn'[c].sent = conn[c].sent
  BY <1>2, <1>3 DEF Line, Serving
<1>5. LineTrue(c)'
  BY <1>1, <1>2, <1>4 DEF LineTrue
<1>6. GoesOn(c)
  <2>1. Greeting(c) => Greeting(c)'
    BY <1>1, <1>4 DEF Greeting
  <2>2. ASSUME NEW got \in Nat, Told(c, got) PROVE Told(c, got)'
    <3>1. conn[c].at = "request" /\ Len(conn[c].out) + got <= 0
      BY <1>1, <1>2, <2>2 DEF Told
    <3>2. Len(conn[c].out) + got <= Most(c)
      BY <1>2, <3>1
    <3> QED
      BY <1>1, <1>2, <1>4, <3>1, <3>2 DEF Told
  <2> QED
    BY <1>1, <2>1, <2>2 DEF GoesOn
<1> QED
  BY <1>1, <1>3, <1>4, <1>5, <1>6, LineKeeps DEF Serving

\* The greeting is sent, to who still listens.
LEMMA WelcomesKeeps == ASSUME BridgeBooks, NEW c \in Connection, Welcomes(c) PROVE BridgeBooks'
<1>1. /\ conn[c].at = "hello" /\ UNCHANGED others
      /\ conn' = [conn EXCEPT ![c].at = "request",
                              ![c].out = IF conn[c].open THEN Append(@, "welcome") ELSE @]
  BY DEF Welcomes, Puts
<1>2. /\ conn[c] \in Line /\ LineTrue(c) /\ Most(c) \in Nat /\ conn[c].sent = 0
      /\ conn[c].out \in Seq(Said) /\ conn \in [Connection -> Line]
  BY <1>1, SentNumbers DEF LineTrue, BridgeBooks, LinesTrue
<1> DEFINE out == IF conn[c].open THEN Append(conn[c].out, "welcome") ELSE conn[c].out
<1>3. conn'[c] = [conn[c] EXCEPT !.at = "request", !.out = out] /\ conn' = [conn EXCEPT ![c] = conn'[c]]
  BY <1>1, <1>2
<1>4. out \in Seq(Said)
  <2>1. "welcome" \in Said
    BY DEF Said, Message
  <2> HIDE DEF Said
  <2> QED
    BY <1>2, <2>1
<1>5. conn[c].out = <<>> => out \in {<<>>, <<"welcome">>}
  BY OneMessage
<1> HIDE DEF out
<1>6. /\ conn'[c] \in Line /\ conn'[c].at = "request" /\ conn'[c].run = conn[c].run
      /\ conn'[c].shut = conn[c].shut /\ conn'[c].out = out
      /\ conn'[c].asked = conn[c].asked /\ conn'[c].sent = conn[c].sent
  BY <1>2, <1>3, <1>4 DEF Line, Serving
<1>7. LineTrue(c)'
  BY <1>2, <1>6 DEF LineTrue
<1>8. GoesOn(c)
  BY <1>1, <1>5, <1>6 DEF GoesOn, Greeting, Told
<1> QED
  BY <1>1, <1>3, <1>6, <1>7, <1>8, LineKeeps DEF Serving

\* The engine has an answer, or gives up.
LEMMA ResultKeeps ==
  ASSUME BridgeBooks, NEW c \in Connection, NEW result \in Outcome, NEW torn \in BOOLEAN,
         UNCHANGED others, conn[c].at = "works",
         conn' = [conn EXCEPT ![c].at = "result", ![c].result = result, ![c].torn = torn],
         result \in {"ok", "unreachable", "internal", "cancelled"},
         result = "cancelled" => c[2] = "content" /\ (torn \/ hold)
  PROVE  BridgeBooks'
<1>2. /\ conn[c] \in Line /\ LineTrue(c) /\ conn \in [Connection -> Line] /\ hold' = hold
  BY SentNumbers DEF BridgeBooks, LinesTrue, others, serverVars
<1>3. /\ conn'[c] = [conn[c] EXCEPT !.at = "result", !.result = result, !.torn = torn]
      /\ conn' = [conn EXCEPT ![c] = conn'[c]]
  BY <1>2
<1>4. /\ conn'[c] \in Line /\ conn'[c].at = "result" /\ conn'[c].run = conn[c].run
      /\ conn'[c].shut = conn[c].shut /\ conn'[c].out = conn[c].out
      /\ conn'[c].asked = conn[c].asked /\ conn'[c].sent = conn[c].sent
      /\ conn'[c].result = result /\ conn'[c].torn = torn
  BY <1>2, <1>3 DEF Line, Serving
<1>5. LineTrue(c)'
  BY <1>2, <1>4 DEF LineTrue
<1>6. GoesOn(c)
  BY <1>4 DEF GoesOn, Greeting, Told
<1> QED
  BY <1>3, <1>4, <1>5, <1>6, LineKeeps DEF Serving

\* Its answer to a question for an entry, and the three ways a load ends.
LEMMA EngineEndsKeeps ==
  ASSUME BridgeBooks, NEW c \in Connection, AnswersEntry(c) \/ SeesTorn(c) \/ LoadEnds(c)
  PROVE  BridgeBooks'
<1>0. conn[c] \in Line /\ conn \in [Connection -> Line] /\ hold \in BOOLEAN
  BY SentNumbers DEF BridgeBooks, LinesTrue, AppTrue, AppTyped
<1>1. conn[c].torn \in BOOLEAN /\ conn[c].shut \in BOOLEAN /\ conn[c].open \in BOOLEAN
  BY <1>0 DEF Line
<1>2. conn[c].at = "works" /\ UNCHANGED others
  BY DEF AnswersEntry, SeesTorn, LoadEnds
<1>3. ASSUME NEW result \in {"ok", "unreachable", "internal"}, Results(c, result) PROVE BridgeBooks'
  <2>1. conn' = [conn EXCEPT ![c].at = "result", ![c].result = result]
    BY <1>3 DEF Results
  <2>2. conn' = [conn EXCEPT ![c].at = "result", ![c].result = result, ![c].torn = conn[c].torn]
    BY <1>0, <2>1 DEF Line
  <2>3. PICK torn \in BOOLEAN : torn = conn[c].torn
    BY <1>1
  <2> QED
    BY <1>2, <2>2, <2>3, ResultKeeps DEF Outcome
<1>4. CASE SeesTorn(c)
  <2>1. PICK torn \in {conn[c].shut \/ ~conn[c].open, ~hold} :
          conn' = [conn EXCEPT ![c].at = "result", ![c].result = "cancelled", ![c].torn = torn]
    BY <1>4 DEF SeesTorn
  <2>2. torn \in BOOLEAN
    BY <1>0, <1>1, <2>1
  <2>3. c[2] = "content" /\ (hold \/ conn[c].shut \/ ~conn[c].open)
    BY <1>4 DEF SeesTorn
  <2>4. torn \/ hold
    BY <1>0, <1>1, <2>1, <2>3
  <2> QED
    BY <1>2, <2>1, <2>2, <2>3, <2>4, ResultKeeps DEF Outcome
<1> QED
  BY <1>3, <1>4 DEF AnswersEntry, LoadEnds

\* A chunk is written; who has closed does not get it.
LEMMA WritesChunkKeeps == ASSUME BridgeBooks, NEW c \in Connection, WritesChunk(c) PROVE BridgeBooks'
<1>1. /\ conn[c].at = "works" /\ c[2] = "content" /\ conn[c].sent < Chunks /\ UNCHANGED others
      /\ conn' = [conn EXCEPT ![c].sent = @ + 1,
                              ![c].out = IF conn[c].open THEN Append(@, "data") ELSE @]
  BY DEF WritesChunk
<1>2. /\ conn[c] \in Line /\ LineTrue(c) /\ Chunks \in Nat /\ Most(c) = Chunks
      /\ conn[c].sent \in Nat /\ conn[c].out \in Seq(Said) /\ Len(conn[c].out) \in Nat
      /\ conn \in [Connection -> Line]
  BY <1>1, SentNumbers, BridgeAssumption DEF BridgeBooks, LinesTrue, Most
<1> DEFINE out == IF conn[c].open THEN Append(conn[c].out, "data") ELSE conn[c].out
<1>3. /\ conn'[c] = [conn[c] EXCEPT !.sent = conn[c].sent + 1, !.out = out]
      /\ conn' = [conn EXCEPT ![c] = conn'[c]]
  BY <1>1, <1>2
<1>4. out \in Seq(Said) /\ Len(out) \in Nat /\ Len(out) <= Len(conn[c].out) + 1
  <2>1. "data" \in Said
    BY DEF Said, Message
  <2> HIDE DEF Said
  <2> QED
    BY <1>2, <2>1
<1> HIDE DEF out
<1>5. conn[c].sent + 1 \in 0 .. Chunks
  BY <1>1, <1>2
<1>6. /\ conn'[c] \in Line /\ conn'[c].at = "works" /\ conn'[c].run = conn[c].run
      /\ conn'[c].shut = conn[c].shut /\ conn'[c].out = out
      /\ conn'[c].sent = conn[c].sent + 1
  BY <1>1, <1>2, <1>3, <1>4, <1>5 DEF Line, Serving
<1>7. LineTrue(c)'
  BY <1>2, <1>5, <1>6 DEF LineTrue
<1>8. GoesOn(c)
  <2>1. ASSUME NEW got \in Nat, Told(c, got) PROVE Told(c, got)'
    <3>1. Len(conn[c].out) + got <= conn[c].sent
      BY <1>1, <2>1 DEF Told
    <3>2. Len(out) + got <= conn[c].sent + 1
      BY <1>2, <1>4, <3>1
    <3> QED
      BY <1>6, <3>2 DEF Told
  <2> QED
    BY <1>1, <2>1 DEF GoesOn, Greeting
<1> QED
  BY <1>1, <1>3, <1>6, <1>7, <1>8, LineKeeps DEF Serving

\* The result is sent, or kept quiet: "cancelled" always.
LEMMA SendsResultKeeps == ASSUME BridgeBooks, NEW c \in Connection, SendsResult(c) PROVE BridgeBooks'
<1>1. conn[c].at = "result" /\ UNCHANGED others
  BY DEF SendsResult
<1>2. /\ conn[c] \in Line /\ LineTrue(c) /\ Most(c) \in Nat /\ conn \in [Connection -> Line]
      /\ conn[c].sent \in Nat /\ conn[c].sent <= Most(c)
      /\ conn[c].out \in Seq(Said) /\ Len(conn[c].out) \in Nat
  BY SentNumbers DEF BridgeBooks, LinesTrue
<1>3. PICK out \in Seq(Said) :
        /\ conn' = [conn EXCEPT ![c].at = "ending", ![c].out = out]
        /\ \/ out = conn[c].out
           \/ Len(out) = Len(conn[c].out) + 1 /\ out # <<>> /\ out[Len(out)] # "data"
  <2>1. CASE conn' = [conn EXCEPT ![c].at = "ending"]
    <3>1. conn' = [conn EXCEPT ![c].at = "ending", ![c].out = conn[c].out]
      BY <1>2, <2>1 DEF Line
    <3> QED
      BY <1>2, <3>1
  <2>2. CASE /\ ~Silent(c) /\ conn[c].open
             /\ conn' = [conn EXCEPT ![c].at = "ending", ![c].out = Append(@, conn[c].result)]
    <3>1. conn[c].result \in {"ok", "unreachable", "internal"}
      BY <1>1, <1>2, <2>2 DEF LineTrue, Silent
    <3>2. conn[c].result \in Said /\ conn[c].result # "data"
      BY <3>1 DEF Said, Message
    <3> DEFINE s == conn[c].out
               m == conn[c].result
    <3>3. s \in Seq(Said) /\ m \in Said /\ m # "data"
      BY <1>2, <3>2
    <3>4. conn' = [conn EXCEPT ![c].at = "ending", ![c].out = Append(s, m)]
      BY <2>2
    <3> HIDE DEF s, m, Said
    <3>5. /\ Append(s, m) \in Seq(Said) /\ Len(Append(s, m)) = Len(s) + 1 /\ Len(s) \in Nat
          /\ Append(s, m)[Len(s) + 1] = m
      BY <3>3
    <3>6. Append(s, m) # <<>>
      BY <3>5, OneMessage
    <3> QED
      BY <3>3, <3>4, <3>5, <3>6 DEF s
  <2>3. CASE /\ ~Silent(c) /\ ~conn[c].open
             /\ conn' = [conn EXCEPT ![c].at = "ending", ![c].out = @]
    BY <1>2, <2>3
  <2> QED
    BY <2>1, <2>2, <2>3 DEF SendsResult, Puts
<1>4. conn'[c] = [conn[c] EXCEPT !.at = "ending", !.out = out] /\ conn' = [conn EXCEPT ![c] = conn'[c]]
  BY <1>2, <1>3
<1>5. /\ conn'[c] \in Line /\ conn'[c].at = "ending" /\ conn'[c].run = conn[c].run
      /\ conn'[c].shut = conn[c].shut /\ conn'[c].out = out
      /\ conn'[c].sent = conn[c].sent
  BY <1>2, <1>3, <1>4 DEF Line, Serving
<1>6. LineTrue(c)'
  BY <1>2, <1>5 DEF LineTrue
<1>7. GoesOn(c)
  <2>1. ASSUME NEW got \in Nat, Told(c, got) PROVE Told(c, got)'
    <3>1. Len(conn[c].out) + got <= conn[c].sent
      BY <1>1, <2>1 DEF Told
    <3>2. \/ Len(out) + got <= Most(c)
          \/ out # <<>> /\ out[Len(out)] # "data" /\ Len(out) + got <= Most(c) + 1
      BY <1>2, <1>3, <3>1
    <3> QED
      BY <1>5, <3>2 DEF Told
  <2> QED
    BY <1>1, <2>1 DEF GoesOn, Greeting
<1> QED
  BY <1>1, <1>4, <1>5, <1>6, <1>7, LineKeeps DEF Serving
\* The thread ends: the place is given back, and the acceptance thread hears of it (Checkout).
LEMMA ChecksOutKeeps == ASSUME BridgeBooks, NEW c \in Connection, ChecksOut(c) PROVE BridgeBooks'
<1>0. AppTyped /\ QueueOnce /\ AcceptorTrue /\ LifeTrue
  BY DEF BridgeBooks, AppTrue
<1>1. /\ conn[c].at = "ending" /\ book' = book \ {c} /\ acceptor' = Notified
      /\ UNCHANGED <<req, wish, queue, hand, hold, life, run, file>>
      /\ conn' = [conn EXCEPT ![c] = Gone(@)]
  BY DEF ChecksOut, clientVars, appVars
<1>2. /\ conn[c] \in Line /\ LinePlaced(c) /\ LineTrue(c) /\ Most(c) \in Nat
      /\ conn \in [Connection -> Line]
  BY SentNumbers DEF BridgeBooks, LinesTrue
<1>3. c \in book /\ ~InQueue(c) /\ hand # c /\ conn[c].run = run
  BY <1>1, <1>2 DEF LinePlaced, Serving
<1>4. /\ IsFiniteSet(book \ {c}) /\ Cardinality(book \ {c}) = Cardinality(book) - 1
      /\ Cardinality(book) \in Nat /\ book \subseteq Connection
  BY <1>0, <1>3, FS_RemoveElement, FS_CardinalityType DEF AppTyped
<1>5. /\ conn' \in [Connection -> Line] /\ \A d \in Connection : GoesOn(d)
      /\ \A d \in Connection \ {c} : conn'[d] = conn[d]
      /\ conn'[c].at = "gone" /\ conn'[c].shut /\ conn'[c].sent = 0 /\ conn'[c].run = conn[c].run
  <2>1. conn' = Dropped({c})
    <3>1. conn' = [d \in Connection |-> IF d = c THEN Gone(conn[c]) ELSE conn[d]]
      BY <1>1, <1>2
    <3> QED
      BY <3>1 DEF Dropped
  <2>2. \A d \in Connection \cap {c} : conn[d].at # "none"
    BY <1>1
  <2> QED
    BY <2>1, <2>2, DroppedIs
<1>6. AppTrue'
  <2>1. acceptor' = acceptor \/ (acceptor = "asleep" /\ acceptor' = "looks")
    BY <1>1 DEF Notified
  <2>2. AppTyped' /\ QueueOnce'
    BY <1>0, <1>1, <1>4, <2>1 DEF AppTyped, QueueOnce
  <2>3. Cardinality(book') <= Places /\ (Cardinality(book) < Places => Cardinality(book') < Places)
    <3>1. Places \in Nat /\ Cardinality(book) <= Places
      BY <1>0, BridgeAssumption DEF AcceptorTrue
    <3> QED
      BY <1>1, <1>4, <3>1
  <2>4. AcceptorTrue'
    <3>1. InQueue(WakeUp)' => InQueue(WakeUp)
      BY <1>1 DEF InQueue
    <3>2. acceptor \in {"checks", "inserts"} <=> acceptor' \in {"checks", "inserts"}
      BY <2>1
    <3> QED
      BY <1>0, <1>1, <2>1, <2>3, <3>1, <3>2 DEF AcceptorTrue, InHand
  <2>5. LifeTrue'
    <3>1. acceptor = "ended" => acceptor' = "ended"
      BY <2>1
    <3>2. \A d \in book' : d \in book /\ conn'[d] = conn[d]
      BY <1>1, <1>4, <1>5
    <3>3. book = {} => book' = {}
      BY <1>1
    <3>4. UNCHANGED <<life, hold>> /\ LifeTrue
      BY <1>0, <1>1
    <3> QED
      BY <3>1, <3>2, <3>3, <3>4 DEF LifeTrue
  <2> QED
    BY <2>2, <2>4, <2>5 DEF AppTrue
<1>7. ASSUME NEW d \in Connection PROVE LinePlaced(d)' /\ LineTrue(d)'
  <2>1. (InQueue(d)' <=> InQueue(d)) /\ UNCHANGED <<run, hold, hand>>
    BY <1>1 DEF InQueue
  <2>2. CASE d = c
    <3>1. LinePlaced(c)'
      BY <1>1, <1>2, <1>3, <1>5, <2>1, <2>2 DEF LinePlaced, Serving
    <3>2. LineTrue(c)'
      BY <1>2, <1>5 DEF LineTrue
    <3> QED
      BY <2>2, <3>1, <3>2
  <2>3. CASE d # c
    <3>1. conn'[d] = conn[d] /\ (d \in book' <=> d \in book) /\ LinePlaced(d) /\ LineTrue(d)
      BY <1>1, <1>5, <2>3, SentNumbers
    <3> QED
      BY <2>1, <2>3, <3>1 DEF LinePlaced, LineTrue
  <2> QED
    BY <2>2, <2>3
<1>8. RequestsTrue'
  BY <1>1, <1>5, RequestsKeep DEF clientVars
<1> QED
  BY <1>5, <1>6, <1>7, <1>8 DEF BridgeBooks, LinesTrue

-----------------------------------------------------------------------------
\* The life of the app goes on, and nothing of its lines changes.
LEMMA LifeKeeps ==
  ASSUME BridgeBooks, UNCHANGED <<clientVars, conn, run, book, hand>>,
         AppTyped', QueueOnce', AcceptorTrue', LifeTrue',
         hold => hold', \A c \in Connection : InQueue(c)' <=> InQueue(c)
  PROVE  BridgeBooks'
<1>1. LinesTrue'
  <2>1. ASSUME NEW c \in Connection PROVE LinePlaced(c)' /\ LineTrue(c)'
    BY SentNumbers DEF LinePlaced, LineTrue
  <2> QED
    BY <2>1 DEF BridgeBooks, LinesTrue
<1>2. RequestsTrue'
  BY SameGoesOn, RequestsKeep
<1> QED
  BY <1>1, <1>2 DEF BridgeBooks, AppTrue

\* From the rendezvous file to the joined acceptance thread, and the wait after the farewell.
LEMMA StagesKeep ==
  ASSUME BridgeBooks, WritesFile \/ RemovesFile \/ SetsHold \/ Joins \/ Waited
  PROVE  BridgeBooks'
<1>0. AppTyped /\ QueueOnce /\ AcceptorTrue /\ LifeTrue
  BY DEF BridgeBooks, AppTrue
<1>1. /\ UNCHANGED <<clientVars, conn, run, book, hand, queue>>
      /\ acceptor' \in {acceptor, Notified} /\ (hold => hold') /\ hold' \in BOOLEAN
      /\ hold' = hold \/ life' = "held"
      /\ <<life, life'>> \in {<<"starts", "up">>, <<"up", "removed">>, <<"removed", "held">>,
                              <<"knocked", "joined">>, <<"closed", "over">>,
                              <<"leftClosed", "leftOver">>}
      /\ life' = "joined" => acceptor' = "ended"
      /\ life' = "held" => hold'
      /\ file' \in {file, run, 0}
  BY <1>0 DEF WritesFile, RemovesFile, SetsHold, Joins, Waited, appOthers, clientVars,
              serverVars, AppTyped
<1>2. acceptor' = acceptor \/ (acceptor = "asleep" /\ acceptor' = "looks")
  BY <1>1 DEF Notified
<1>3. AppTyped' /\ QueueOnce'
  <2>1. /\ acceptor' \in {"looks", "asleep", "accepts", "checks", "inserts", "ended"}
        /\ life' \in Lives
    BY <1>0, <1>1, <1>2 DEF AppTyped, Lives
  <2>2. file' \in 0 .. run'
    BY <1>0, <1>1, BridgeAssumption DEF AppTyped
  <2> QED
    BY <1>0, <1>1, <2>1, <2>2 DEF AppTyped, QueueOnce
<1>4. AcceptorTrue'
  <2>1. InQueue(WakeUp)' => InQueue(WakeUp)
    BY <1>1 DEF InQueue
  <2>2. acceptor \in {"checks", "inserts"} <=> acceptor' \in {"checks", "inserts"}
    BY <1>2
  <2> QED
    BY <1>0, <1>1, <1>2, <2>1, <2>2 DEF AcceptorTrue, InHand
<1>5. LifeTrue'
  <2>1. acceptor = "ended" => acceptor' = "ended"
    BY <1>2
  <2> QED
    BY <1>0, <1>1, <2>1 DEF LifeTrue
<1>6. \A c \in Connection : InQueue(c)' <=> InQueue(c)
  BY <1>1 DEF InQueue
<1> QED
  BY <1>1, <1>3, <1>4, <1>5, <1>6, LifeKeeps

\* The app calls its own port to wake the acceptance thread.
LEMMA KnocksKeeps == ASSUME BridgeBooks, Knocks PROVE BridgeBooks'
<1>0. AppTyped /\ QueueOnce /\ AcceptorTrue /\ LifeTrue /\ WakeUp \notin Connection
  BY Connections DEF BridgeBooks, AppTrue
<1>1. /\ UNCHANGED <<clientVars, conn, run, book, hand, acceptor, hold, file>>
      /\ life = "held" /\ life' \in {"knocked", "left"}
      /\ queue' = queue \/ (acceptor # "ended" /\ queue' = Append(queue, WakeUp))
  BY DEF Knocks, appOthers, clientVars, serverVars
<1>2. hold
  BY <1>0, <1>1 DEF LifeTrue
<1>3. LifeTrue'
  BY <1>0, <1>1, <1>2 DEF LifeTrue
<1>4. CASE queue' = queue
  <2>1. AppTyped' /\ QueueOnce' /\ \A c \in Connection : InQueue(c)' <=> InQueue(c)
    BY <1>0, <1>1, <1>4 DEF AppTyped, QueueOnce, InQueue, Lives
  <2>2. AcceptorTrue'
    BY <1>0, <1>1, <1>4 DEF AcceptorTrue, InHand, InQueue
  <2> QED
    BY <1>1, <1>3, <2>1, <2>2, LifeKeeps
<1>5. CASE acceptor # "ended" /\ queue' = Append(queue, WakeUp)
  <2>1. /\ queue \in Seq(Connection \cup {WakeUp})
        /\ queue' \in Seq(Connection \cup {WakeUp}) /\ Len(queue') = Len(queue) + 1
        /\ Len(queue) \in Nat
        /\ queue'[Len(queue) + 1] = WakeUp /\ \A i \in 1 .. Len(queue) : queue'[i] = queue[i]
    BY <1>0, <1>5 DEF AppTyped
  <2>2. \A c \in Connection : InQueue(c)' <=> InQueue(c)
    BY <1>0, <2>1 DEF InQueue
  <2>3. AppTyped'
    BY <1>0, <1>1, <2>1 DEF AppTyped, Lives
  <2>4. QueueOnce'
    BY <1>0, <2>1 DEF QueueOnce
  <2>5. AcceptorTrue'
    BY <1>0, <1>1, <1>2, <1>5 DEF AcceptorTrue, InHand
  <2> QED
    BY <1>1, <1>3, <2>2, <2>3, <2>4, <2>5, LifeKeeps
<1> QED
  BY <1>1, <1>4, <1>5

\* The farewell: every line in the book is shut.
LEMMA ClosesAllKeeps == ASSUME BridgeBooks, ClosesAll PROVE BridgeBooks'
<1>0. AppTyped /\ QueueOnce /\ AcceptorTrue /\ LifeTrue
  BY DEF BridgeBooks, AppTrue
<1>1. /\ UNCHANGED <<req, wish, run, book, hand, acceptor, hold, file, queue>>
      /\ <<life, life'>> \in {<<"joined", "closed">>, <<"left", "leftClosed">>}
      /\ conn' = [c \in Connection |-> IF c \in book THEN [conn[c] EXCEPT !.shut = TRUE] ELSE conn[c]]
  BY DEF ClosesAll, appOthers, clientVars, serverVars
<1>2. ASSUME NEW c \in Connection
      PROVE  /\ conn'[c] \in Line /\ conn'[c].run = conn[c].run /\ conn'[c].at = conn[c].at
             /\ conn'[c].asked = conn[c].asked /\ conn'[c].out = conn[c].out
             /\ conn'[c].sent = conn[c].sent /\ conn'[c].torn = conn[c].torn
             /\ conn'[c].result = conn[c].result /\ (conn[c].shut => conn'[c].shut)
             /\ (c \in book => conn'[c].shut)
  <2>1. conn[c] \in Line
    BY SentNumbers
  <2>2. CASE c \in book
    <3>1. conn'[c] = [conn[c] EXCEPT !.shut = TRUE]
      BY <1>1, <2>2
    <3> QED
      BY <2>1, <3>1 DEF Line
  <2>3. CASE c \notin book
    BY <1>1, <2>1, <2>3
  <2> QED
    BY <2>2, <2>3
<1>3. AppTrue'
  <2>1. AppTyped' /\ QueueOnce'
    BY <1>0, <1>1 DEF AppTyped, QueueOnce, Lives
  <2>2. AcceptorTrue'
    BY <1>0, <1>1 DEF AcceptorTrue, InHand, InQueue
  <2>3. \A c \in book : conn'[c].shut
    BY <1>0, <1>2 DEF AppTyped
  <2>4. LifeTrue'
    BY <1>0, <1>1, <2>3 DEF LifeTrue
  <2> QED
    BY <2>1, <2>2, <2>4 DEF AppTrue
<1>4. LinesTrue'
  <2>1. ASSUME NEW c \in Connection PROVE LinePlaced(c)' /\ LineTrue(c)'
    BY <1>1, <1>2, SentNumbers DEF LinePlaced, LineTrue, InQueue
  <2>2. conn' \in [Connection -> Line]
    <3>1. conn' = [c \in Connection |-> conn'[c]]
      BY <1>1
    <3> QED
      BY <1>2, <3>1
  <2> QED
    BY <2>1, <2>2 DEF LinesTrue
<1>5. ASSUME NEW c \in Connection PROVE GoesOn(c)
  BY <1>2 DEF GoesOn, Greeting, Told
<1>6. RequestsTrue'
  BY <1>1, <1>5, RequestsKeep DEF clientVars
<1> QED
  BY <1>3, <1>4, <1>6 DEF BridgeBooks

\* The process ends; every connection it had is closed by the operating system.
LEMMA ProcessEndsKeeps == ASSUME BridgeBooks, ProcessEnds PROVE BridgeBooks'
<1>0. AppTyped /\ QueueOnce /\ AcceptorTrue /\ LifeTrue /\ WakeUp \notin Connection
  BY Connections DEF BridgeBooks, AppTrue
<1> DEFINE D == {c \in Connection : conn[c].at # "none"} \cup ToSet(queue)
<1>1. /\ UNCHANGED <<req, wish, run, file>> /\ life' = "down" /\ book' = {} /\ hold' = FALSE
      /\ acceptor' = "ended" /\ hand' = WakeUp /\ queue' = <<>> /\ conn' = Dropped(D)
  BY DEF ProcessEnds, AcceptorEnds, appOthers, clientVars
<1>2. \A c \in Connection : c \in D <=> conn[c].at # "none"
  <2>1. \A c \in Connection : c \in ToSet(queue) => InQueue(c)
    BY <1>0 DEF ToSet, InQueue, AppTyped
  <2> QED
    BY <2>1, SentNumbers DEF LinePlaced
<1> HIDE DEF D
<1>3. /\ conn' \in [Connection -> Line] /\ \A c \in Connection : GoesOn(c)
      /\ \A c \in Connection : conn[c].at = "none" => conn'[c] = conn[c]
      /\ \A c \in Connection : conn[c].at # "none" =>
           /\ conn'[c].at = "gone" /\ conn'[c].shut /\ conn'[c].sent = 0
           /\ conn'[c].run = conn[c].run
  BY <1>1, <1>2, DroppedIs
<1>4. \A c : ~InQueue(c)'
  BY <1>1, OneMessage DEF InQueue
<1>5. ASSUME NEW c \in Connection PROVE LinePlaced(c)' /\ LineTrue(c)'
  <2>1. LinePlaced(c) /\ LineTrue(c) /\ Most(c) \in Nat
    BY SentNumbers
  <2>2. hand' # c /\ ~InQueue(c)' /\ c \notin book' /\ run' = run
    BY <1>0, <1>1, <1>4
  <2>3. CASE conn[c].at # "none"
    <3>1. /\ conn'[c].at = "gone" /\ conn'[c].shut /\ conn'[c].sent = 0
          /\ conn'[c].run = conn[c].run
      BY <1>3, <2>3
    <3> QED
      BY <2>1, <2>2, <3>1 DEF LinePlaced, LineTrue, Serving
  <2>4. CASE conn[c].at = "none"
    <3>1. conn'[c] = conn[c]
      BY <1>3, <2>4
    <3> QED
      BY <2>1, <2>2, <2>4, <3>1 DEF LinePlaced, LineTrue, Serving
  <2> QED
    BY <2>3, <2>4
<1>6. AppTrue'
  <2>1. AppTyped'
    <3>1. queue' \in Seq(Connection \cup {WakeUp}) /\ IsFiniteSet(book')
      BY <1>1, FS_EmptySet
    <3> QED
      BY <1>0, <1>1, <3>1 DEF AppTyped, Lives
  <2>2. QueueOnce'
    BY <1>1, OneMessage DEF QueueOnce
  <2>3. AcceptorTrue'
    <3>1. Cardinality(book') = 0 /\ Places \in Nat
      BY <1>1, FS_EmptySet, BridgeAssumption
    <3> QED
      BY <1>1, <1>4, <3>1 DEF AcceptorTrue, InHand
  <2>4. LifeTrue'
    BY <1>1 DEF LifeTrue
  <2> QED
    BY <2>1, <2>2, <2>3, <2>4 DEF AppTrue
<1>7. RequestsTrue'
  BY <1>1, <1>3, RequestsKeep DEF clientVars
<1> QED
  BY <1>3, <1>5, <1>6, <1>7 DEF BridgeBooks, LinesTrue

\* The app starts: what it knows of no connection yet, none of an earlier run is open.
LEMMA StartsKeeps == ASSUME BridgeBooks, Starts PROVE BridgeBooks'
<1>0. AppTyped /\ QueueOnce /\ AcceptorTrue /\ LifeTrue /\ WakeUp \notin Connection
  BY Connections DEF BridgeBooks, AppTrue
<1>1. /\ life = "down" /\ run < MaxRuns /\ life' = "starts" /\ run' = run + 1
      /\ acceptor' = "looks" /\ hold' = FALSE
      /\ UNCHANGED <<req, wish, conn, queue, book, hand, file>>
  BY DEF Starts, clientVars
<1>2. acceptor = "ended" /\ book = {} /\ queue = <<>> /\ hand = WakeUp
  BY <1>0, <1>1 DEF AcceptorTrue, LifeTrue, InHand
<1>3. \A c : ~InQueue(c) /\ ~InQueue(c)'
  BY <1>1, <1>2, OneMessage DEF InQueue
<1>4. run \in Nat /\ run + 1 \in 0 .. MaxRuns /\ run <= run + 1
  BY <1>0, <1>1, BridgeAssumption DEF AppTyped
<1>5. ASSUME NEW c \in Connection PROVE LinePlaced(c)' /\ LineTrue(c)'
  <2>1. LinePlaced(c) /\ LineTrue(c) /\ conn[c] \in Line
    BY SentNumbers
  <2>2. conn[c].at \in {"none", "gone"}
    BY <1>0, <1>2, <1>3, <2>1 DEF LinePlaced, Line
  <2>3. conn[c].run <= run + 1
    <3>1. conn[c].run <= run /\ conn[c].run \in Nat
      BY <2>1, BridgeAssumption DEF LinePlaced, Line
    <3> QED
      BY <1>4, <3>1
  <2> QED
    BY <1>1, <1>3, <2>1, <2>2, <2>3 DEF LinePlaced, LineTrue
<1>6. AppTrue'
  <2>1. AppTyped'
    <3>1. file \in 0 .. run + 1
      BY <1>0, <1>4 DEF AppTyped
    <3> QED
      BY <1>0, <1>1, <1>4, <3>1 DEF AppTyped, Lives
  <2>2. QueueOnce'
    BY <1>0, <1>1 DEF QueueOnce
  <2>3. AcceptorTrue'
    BY <1>0, <1>1, <1>2, <1>3 DEF AcceptorTrue, InHand
  <2>4. LifeTrue'
    BY <1>1 DEF LifeTrue
  <2> QED
    BY <2>1, <2>2, <2>3, <2>4 DEF AppTrue
<1>7. RequestsTrue'
  BY <1>1, SameGoesOn, RequestsKeep DEF clientVars
<1> QED
  BY <1>1, <1>5, <1>6, <1>7 DEF BridgeBooks, LinesTrue
\* Every step keeps the books of the line.
LEMMA BridgeNextKeeps == BridgeBooks /\ [BridgeNext]_bridgeVars => BridgeBooks'
<1> SUFFICES ASSUME BridgeBooks, [BridgeNext]_bridgeVars PROVE BridgeBooks'
    OBVIOUS
<1>1. CASE \E r \in Requests : Cancels(r) \/ Client(r)
  BY <1>1, ClientsKeep
<1>2. CASE Acceptor
  BY <1>2, WaitsOnSpaceKeeps, AcceptsKeeps, ChecksKeeps, InsertsKeeps DEF Acceptor
<1>3. CASE \E c \in Connection : Thread(c)
  BY <1>3, WelcomesKeeps, GivesUpKeeps, SendsResultKeeps, ChecksOutKeeps DEF Thread
<1>4. CASE \E c \in Connection : Engine(c)
  BY <1>4, EngineEndsKeeps, WritesChunkKeeps DEF Engine
<1>5. CASE WritesFile \/ RemovesFile \/ Stopping
  BY <1>5, StagesKeep, KnocksKeeps, ClosesAllKeeps DEF Stopping
<1>6. CASE Starts \/ ProcessEnds
  BY <1>6, StartsKeeps, ProcessEndsKeeps
<1>7. CASE UNCHANGED bridgeVars
  <2>1. UNCHANGED <<clientVars, conn, run, book, hand, queue, acceptor, hold, life, file>>
    BY <1>7 DEF bridgeVars, serverVars, appVars
  <2>2. AppTyped' /\ QueueOnce'
    BY <2>1 DEF BridgeBooks, AppTrue, AppTyped, QueueOnce
  <2>3. AcceptorTrue' /\ \A c \in Connection : InQueue(c)' <=> InQueue(c)
    BY <2>1 DEF BridgeBooks, AppTrue, AcceptorTrue, InHand, InQueue
  <2>4. LifeTrue'
    BY <2>1 DEF BridgeBooks, AppTrue, LifeTrue
  <2> QED
    BY <2>1, <2>2, <2>3, <2>4, LifeKeeps
<1> QED
  BY <1>1, <1>2, <1>3, <1>4, <1>5, <1>6, <1>7 DEF BridgeNext

\* The two ends of every connection agree on how far it is, and the app on where it is.
THEOREM BridgeBooksHold == BridgeSpec => []BridgeBooks
<1>1. BridgeInit => BridgeBooks
  BY BridgeInitBooks
<1>2. BridgeBooks /\ [BridgeNext]_bridgeVars => BridgeBooks'
  BY BridgeNextKeeps
<1> QED
  BY <1>1, <1>2, PTL DEF BridgeSpec

\* No place is lost and none is served without one (Checkout), a farewell reaches every line
\* (Drop of BridgeServer), and nobody is told of a cancellation that did not happen
\* (deliver_content).
THEOREM BridgeHolds == BridgeSpec => []BridgeInv
<1>1. BridgeBooks => BridgeInv
  <2> SUFFICES ASSUME BridgeBooks PROVE BridgeInv
      OBVIOUS
  <2>0. /\ AppTyped /\ QueueOnce /\ AcceptorTrue /\ LifeTrue /\ RequestsTyped
        /\ conn \in [Connection -> Line] /\ WakeUp \notin Connection
    BY Connections DEF BridgeBooks, AppTrue, RequestsTrue, LinesTrue
  <2>1. BridgeTypeOK
    <3>1. ASSUME NEW c \in Connection
          PROVE  /\ conn[c].run \in 0 .. run
                 /\ conn[c].at \in {"none", "queued", "hand", "hello", "request", "works",
                                    "result", "ending", "gone"}
                 /\ \A i \in 1 .. Len(conn[c].out) : conn[c].out[i] \in Message
                 /\ conn[c].sent \in 0 .. Chunks
                 /\ conn[c].result \in Outcome
      <4>1. conn[c] \in Line /\ LinePlaced(c) /\ conn[c].out \in Seq(Said)
        BY SentNumbers
      <4>2. conn[c].run \in 0 .. run
        BY <2>0, <4>1, BridgeAssumption DEF Line, LinePlaced, AppTyped
      <4>3. \A i \in 1 .. Len(conn[c].out) : conn[c].out[i] \in Message
        <5>1. Said \subseteq Message
          BY DEF Said
        <5> HIDE DEF Said
        <5> QED
          BY <4>1, <5>1
      <4> QED
        BY <4>1, <4>2, <4>3 DEF Line, Serving
    <3>2. ToSet(queue) \subseteq Connection \cup {WakeUp}
      BY <2>0 DEF AppTyped, ToSet
    <3>3. DOMAIN conn = Connection
      BY <2>0
    <3> QED
      BY <2>0, <3>1, <3>2, <3>3 DEF BridgeTypeOK, AppTyped, RequestsTyped, AcceptorTrue
  <2>2. PlacesTrue
    <3>1. ASSUME NEW c \in Connection
          PROVE  c \in book <=> conn[c].run = run /\ conn[c].at \notin {"none", "queued", "hand", "gone"}
      BY <2>0, SentNumbers DEF LinePlaced, Serving, Line
    <3> QED
      BY <2>0, <3>1 DEF PlacesTrue, AppTyped
  <2>3. FarewellToAll
    <3> SUFFICES ASSUME life \in {"closed", "over"}, NEW c \in Connection, conn[c].at # "none"
                 PROVE  conn[c].shut
        BY DEF FarewellToAll
    <3>1. acceptor = "ended" /\ queue = <<>> /\ hand = WakeUp
      BY <2>0 DEF LifeTrue, AcceptorTrue, InHand
    <3>2. ~InQueue(c) /\ hand # c
      BY <2>0, <3>1, OneMessage DEF InQueue
    <3>3. conn[c].at = "gone" \/ c \in book
      BY <3>2, SentNumbers DEF LinePlaced, Line
    <3> QED
      BY <2>0, <3>3, SentNumbers DEF LinePlaced, LifeTrue
  <2>4. CancelledIsWish
    BY DEF BridgeBooks, RequestsTrue, RequestTrue, CancelledIsWish
  <2> QED
    BY <2>1, <2>2, <2>3, <2>4 DEF BridgeInv
<1> QED
  BY <1>1, BridgeBooksHold, PTL
=============================================================================
