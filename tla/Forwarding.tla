---------------------------- MODULE Forwarding ------------------------------
(***************************************************************************)
(* What the upstream path promises: a packet that the concentrator has     *)
(* heard is forwarded at most once and in the order of reception. Packets  *)
(* may be left out. They are numbered as they are heard.                   *)
(***************************************************************************)
EXTENDS Naturals, Sequences

VARIABLES heard, out
vars == <<heard, out>>

Init == heard = 0 /\ out = << >>

Hear == heard' = heard + 1 /\ UNCHANGED out

Forward ==
  /\ \E x \in 1 .. heard :
       /\ \A i \in DOMAIN out : out[i] < x
       /\ out' = Append(out, x)
  /\ UNCHANGED heard

Next == Hear \/ Forward

Spec == Init /\ [][Next]_vars
=============================================================================
