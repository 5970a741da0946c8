---------------------------- MODULE RepeaterIds -----------------------------
(***************************************************************************)
(* idStoreClass of the CubeCell repeater (CubeCellRepeater/src/main.cpp):  *)
(* the ids of the packets heard lately.  The first word that is 0 marks    *)
(* where the next id goes, and the word after it becomes the new mark.     *)
(* After the last word the mark is written past the array (the test is     *)
(* ++idx <= MAX_ID_LIST): nothing of the store changes, and as a store     *)
(* without a mark is written at 0, it goes on from there.                  *)
(***************************************************************************)
EXTENDS Integers, Sequences

CONSTANTS
    Id,        \* packet ids other than 0
    ListSize,  \* MAX_ID_LIST
    MaxAdds    \* bound: ids accepted

ASSUME ListSizeAssumption == ListSize \in Nat /\ ListSize >= 2
ASSUME AddsBound == MaxAdds \in Nat

Zero == 0      \* the mark, and an id that a packet may have as well
ASSUME ZeroIsNoId == Zero \notin Id

Word == 0 .. ListSize - 1

VARIABLES
    storage,   \* the words of the store
    accepted   \* history: the ids for which add() returned true

storeVars == <<storage, accepted>>

\* idStoreClass::clear()
StoreInit ==
    /\ storage = [i \in Word |-> Zero]
    /\ accepted = <<>>

\* Mutant: the loop ends before the first word.
IsKnownButFirst(id) == \E i \in Word \ {0} : storage[i] = id

\* The loop of add() finds the id.
IsKnown(id) == \E i \in Word : storage[i] = id

\* The index the loop of add() leaves in idx: the first mark, or 0.
IsMark(i) ==
    \/ storage[i] = Zero /\ \A j \in Word : j < i => storage[j] # Zero
    \/ i = 0 /\ \A j \in Word : storage[j] # Zero

\* The assignment of the id and of the next mark; i + 1 = ListSize is outside
\* of the array.
StoreAt(i, id) ==
    storage' = [j \in Word |-> IF j = i THEN id
                              ELSE IF j = i + 1 THEN Zero
                              ELSE storage[j]]

\* add() returns true.
AddNew(id) ==
    /\ ~ IsKnown(id)
    /\ Len(accepted) < MaxAdds
    /\ \E i \in Word : IsMark(i) /\ StoreAt(i, id)
    /\ accepted' = Append(accepted, id)

\* add() returns false.
AddKnown(id) == IsKnown(id) /\ UNCHANGED storeVars

StoreNext == \E id \in Id \cup {Zero} : AddNew(id) \/ AddKnown(id)

StoreSpec == StoreInit /\ [][StoreNext]_storeVars

-----------------------------------------------------------------------------
(* Properties                                                              *)

\* Type correctness of the store.
StoreTypeOK ==
    /\ storage \in [Word -> Id \cup {Zero}]
    /\ accepted \in Seq(Id \cup {Zero}) /\ Len(accepted) <= MaxAdds

\* The k ids accepted last are all known.
LastKnown(k) ==
    \A n \in 1 .. Len(accepted) :
        n > Len(accepted) - k => IsKnown(accepted[n])

\* What the store is for: add() refuses the ids of the last MAX_ID_LIST - 1
\* packets it accepted, over any wrap of the list and with ids of 0 in it.
RecentKnown == LastKnown(ListSize - 1)

\* "the last 64 repeated packets will not be repeated again" (README.md), 64
\* being MAX_ID_LIST.
AllKnown == LastKnown(ListSize)

\* Two acceptances of one id are at least MAX_ID_LIST acceptances apart.
RepeatsAreFar ==
    \A m, n \in 1 .. Len(accepted) :
        m < n /\ accepted[m] = accepted[n] => n - m >= ListSize
=============================================================================
