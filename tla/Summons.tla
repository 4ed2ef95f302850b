------------------------------ MODULE Summons ------------------------------
(***************************************************************************)
(* What the hotkey promises the dialog: it is called once for every press  *)
(* of the hotkey and for nothing else, and in the end for each of them     *)
(* unless the service is over.                                             *)
(***************************************************************************)
EXTENDS Naturals

CONSTANT Presses     \* how many presses there may be

VARIABLES
  asked,       \* presses so far
  answered,    \* calls of the dialog so far
  over         \* the service has ended

summonsVars == <<asked, answered, over>>

SummonsInit == asked = 0 /\ answered = 0 /\ over = FALSE

Ask ==
  /\ asked < Presses
  /\ asked' = asked + 1
  /\ UNCHANGED <<answered, over>>

Answer ==
  /\ answered < asked
  /\ answered' = answered + 1
  /\ UNCHANGED <<asked, over>>

End ==
  /\ over' = TRUE
  /\ UNCHANGED <<asked, answered>>

SummonsNext == Ask \/ Answer \/ End

SummonsSafety == SummonsInit /\ [][SummonsNext]_summonsVars

EveryPressAnswered ==
  \A n \in 1..Presses : asked >= n ~> (answered >= n \/ over)

=============================================================================
