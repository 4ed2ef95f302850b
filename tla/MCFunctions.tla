---------------------------- MODULE MCFunctions ----------------------------
(***************************************************************************)
(* The pure functions: those on texts, on every short text, and those on   *)
(* masks, on every mask of the events and two flags that need no rule of   *)
(* their own. They share no state: a text grows, or a mask does.           *)
(***************************************************************************)
EXTENDS MCTextUtil, EventMask

EventsAndFlags == Event \cup {"IN_ISDIR", "IN_ONESHOT"}

FunctionsInit == TextInit /\ Init

FunctionsNext ==
  \/ m_uMask = {} /\ TextNext /\ UNCHANGED m_uMask
  \/ typed = <<>> /\ Next /\ UNCHANGED typed

FunctionsSpec == FunctionsInit /\ [][FunctionsNext]_<<typed, m_uMask>>
=============================================================================
