------------------------- MODULE CompletionRegister -------------------------
(***************************************************************************)
(* What the durable completion boundary promises, with no clients, network *)
(* or retries in sight: people issue intents ("done" or "open"), and the   *)
(* task's state is moved by intents only, each of them at most once, each  *)
(* to the state it asked for.                                              *)
(***************************************************************************)
EXTENDS Naturals, Sequences

VARIABLES
  wanted,   \* wanted[i] is the state the i-th intent asks for
  value,    \* TRUE when the task is done
  moved     \* the intents that have moved the task

vars == <<wanted, value, moved>>

Init ==
  /\ wanted = <<>>
  /\ value \in BOOLEAN
  /\ moved = {}

Issue ==
  /\ \E w \in BOOLEAN : wanted' = Append(wanted, w)
  /\ UNCHANGED <<value, moved>>

Move(i) ==
  /\ i \notin moved
  /\ wanted[i] # value
  /\ value' = wanted[i]
  /\ moved' = moved \cup {i}
  /\ UNCHANGED wanted

Next == Issue \/ \E i \in DOMAIN wanted : Move(i)

Spec == Init /\ [][Next]_vars
=============================================================================
