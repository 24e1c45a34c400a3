------------------------------ MODULE HidReport ------------------------------
(***************************************************************************)
(* hid_report/keys.hpp: the keys of a report, an array of slots in which 0 *)
(* is a free slot.  Operators on the array `a'; the code has 32 slots, and *)
(* keys are the other numbers of 16 bits.                                  *)
(***************************************************************************)
EXTENDS Naturals, FiniteSets

CONSTANTS
  Slots,  \* number of slots
  Key,    \* the keys
  Zero    \* 0, which is not a key

ASSUME ReportAssumption == Slots \in Nat \ {0} /\ Zero \notin Key

Slot == 1 .. Slots
KeyValue == Key \cup {Zero}  \* what insert and erase accept

exists(a, k) == \E s \in Slot : a[s] = k

FirstFree(a, s) == a[s] = Zero /\ \A t \in 1 .. s - 1 : a[t] # Zero

insert_Again(a, k) == [s \in Slot |-> IF FirstFree(a, s) THEN k ELSE a[s]]

insert(a, k) ==
  IF exists(a, k)
    THEN a
    ELSE [s \in Slot |-> IF FirstFree(a, s) THEN k ELSE a[s]]

erase(a, k) == [s \in Slot |-> IF a[s] = k THEN Zero ELSE a[s]]

clear == [s \in Slot |-> Zero]

\* What a report says: the keys that are down.
Down(a) == {a[s] : s \in Slot} \ {Zero}

count(a) == Cardinality({s \in Slot : a[s] # Zero})
=============================================================================
