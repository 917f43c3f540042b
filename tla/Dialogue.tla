------------------------------- MODULE Dialogue -------------------------------
(* What class web_user_interaction promises to libdar and to the user: every  *)
(* question of libdar is shown to the user, who answers it once, only after   *)
(* it was shown, and libdar gets the answer to the question it asked.         *)
CONSTANT Kinds   \* the kinds of questions

VARIABLES question, stage

vars == <<question, stage>>

Init == question = "none" /\ stage = "none"

Ask(k) ==
    /\ stage = "none"
    /\ question' = k
    /\ stage' = "asked"

Show == stage = "asked" /\ stage' = "shown" /\ UNCHANGED question

Answer == stage = "shown" /\ stage' = "answered" /\ UNCHANGED question

Read == stage = "answered" /\ question' = "none" /\ stage' = "none"

Next == (\E k \in Kinds : Ask(k)) \/ Show \/ Answer \/ Read

Spec == Init /\ [][Next]_vars
=============================================================================
