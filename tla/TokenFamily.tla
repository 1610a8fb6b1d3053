---------------------------- MODULE TokenFamily -----------------------------
(***************************************************************************)
(* What rotating refresh tokens promise: a family has at most one valid    *)
(* token, a token is exchanged once, and a family whose token was revoked  *)
(* never gets another.  Sessions.tla implements it with the rows of        *)
(* auth_sessions and requests that interleave.                             *)
(***************************************************************************)

CONSTANTS Families, Tokens

VARIABLES
  valid,        \* the tokens of each family a refresh would accept
  spent         \* those it accepted once, or that were revoked

vars == <<valid, spent>>

Fresh(t) == \A f \in Families : t \notin valid[f] \cup spent[f]

Init ==
  /\ valid = [f \in Families |-> {}]
  /\ spent = [f \in Families |-> {}]

Start(f, t) ==
  /\ valid[f] = {} /\ spent[f] = {}
  /\ Fresh(t)
  /\ valid' = [valid EXCEPT ![f] = {t}]
  /\ UNCHANGED spent

Rotate(f, old, new) ==
  /\ valid[f] = {old}
  /\ Fresh(new)
  /\ valid' = [valid EXCEPT ![f] = {new}]
  /\ spent' = [spent EXCEPT ![f] = spent[f] \cup {old}]

\* Sign-out, detected reuse and a password reset end families at once.
End(ended) ==
  /\ valid' = [f \in Families |-> IF f \in ended THEN {} ELSE valid[f]]
  /\ spent' = [f \in Families |-> IF f \in ended THEN spent[f] \cup valid[f] ELSE spent[f]]

Next ==
  \/ \E f \in Families, t \in Tokens : Start(f, t)
  \/ \E f \in Families, old, new \in Tokens : Rotate(f, old, new)
  \/ \E ended \in SUBSET Families : End(ended)

Spec == Init /\ [][Next]_vars
=============================================================================
