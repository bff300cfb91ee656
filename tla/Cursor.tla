------------------------------- MODULE Cursor -------------------------------
(***************************************************************************)
(* What the lookahead of the parser promises: the grammar goes through the *)
(* tokens of the input one after the other, peeks at those that come next, *)
(* and stops at their end unless the recursion guard ends the process.     *)
(***************************************************************************)
EXTENDS Naturals, Sequences

VARIABLES
  input,    \* the places of the tokens
  ahead,    \* of those not consumed
  peeked,   \* of those peeked at, in the order they will be consumed
  stopped, aborted
vars == <<input, ahead, peeked, stopped, aborted>>

\* places are the first ones of those in s
FirstOf(places, s) ==
  \A i \in DOMAIN places : places[i] \in s /\ {p \in s : p < places[i]} = {places[j] : j \in 1..(i - 1)}

Init ==
  /\ ahead = input
  /\ peeked = <<>>
  /\ stopped = FALSE
  /\ aborted = FALSE

Advance ==
  /\ ahead' \subseteq ahead
  /\ \A gone \in ahead \ ahead', left \in ahead' : gone < left
  /\ FirstOf(peeked', ahead')
  /\ aborted' \in BOOLEAN
  /\ UNCHANGED <<input, stopped>>

Finish ==
  /\ ahead = {}
  /\ stopped' = TRUE
  /\ UNCHANGED <<input, ahead, peeked, aborted>>

Next == ~stopped /\ ~aborted /\ (Advance \/ Finish)

Spec == Init /\ [][Next]_vars
=============================================================================
