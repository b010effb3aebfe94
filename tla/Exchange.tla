------------------------------ MODULE Exchange ------------------------------
(***************************************************************************)
(* What the link to the concentrator's MCU promises to the code above it:  *)
(* one request at a time is outstanding, and the call that made it returns *)
(* only after the MCU has carried out that request. The promise is void    *)
(* from a break of the link until the port has been opened anew.           *)
(***************************************************************************)
VARIABLE stage   \* "broken", "free", "asked" or "done"

Init == stage = "broken"

Ask     == stage = "free"  /\ stage' = "asked"
Execute == stage = "asked" /\ stage' = "done"
Return  == stage = "done"  /\ stage' = "free"
Break   == stage' = "broken"
Restore == stage = "broken" /\ stage' = "free"

Next == Ask \/ Execute \/ Return \/ Break \/ Restore

Spec == Init /\ [][Next]_stage
=============================================================================
