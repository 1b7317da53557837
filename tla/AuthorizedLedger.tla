-------------------------- MODULE AuthorizedLedger --------------------------
(***************************************************************************)
(* What a sound authorization gate promises, whatever proposes the actions *)
(* and whatever corrupts the returns: a ledger to which side effects are   *)
(* only ever appended, none of them a privileged effect on an unsafe state.*)
(***************************************************************************)
EXTENDS Sequences

CONSTANT Effects   \* the effects that may be committed, records with a field "unsafe"

VARIABLE ledger

Init == ledger = <<>>

Commit(e) ==
  /\ ~e.unsafe
  /\ ledger' = Append(ledger, e)

Next == \E e \in Effects : Commit(e)

Spec == Init /\ [][Next]_ledger
=============================================================================
