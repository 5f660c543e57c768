------------------------------- MODULE OneShot -------------------------------
(***************************************************************************)
(* What a confirmation token promises: an offer that is taken up at most   *)
(* once, and never again after it lapsed (cancelled, expired or lost).     *)
(***************************************************************************)
EXTENDS Naturals

CONSTANT Token

VARIABLES
  offered,   \* tokens ever handed out
  open,      \* those that may still be taken up
  performed  \* how often the action behind each token ran

vars == <<offered, open, performed>>

Init == offered = {} /\ open = {} /\ performed = [t \in Token |-> 0]

Offer(t) ==
  /\ t \notin offered
  /\ offered' = offered \cup {t} /\ open' = open \cup {t}
  /\ UNCHANGED performed

Perform(t) ==
  /\ t \in open
  /\ open' = open \ {t}
  /\ performed' = [performed EXCEPT ![t] = @ + 1]
  /\ UNCHANGED offered

Lapse(ts) == open' = open \ ts /\ UNCHANGED <<offered, performed>>

Next ==
  \/ \E t \in Token : Offer(t) \/ Perform(t)
  \/ \E ts \in SUBSET Token : Lapse(ts)

Spec == Init /\ [][Next]_vars
=============================================================================
