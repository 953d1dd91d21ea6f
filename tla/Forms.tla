-------------------------------- MODULE Forms --------------------------------
(***************************************************************************)
(* What a person fills in on the page: the assistent, or the dialogs of a  *)
(* card.  The two share the channel and the lists of Page and nothing of   *)
(* their own, so a behaviour is about one of them.                         *)
(***************************************************************************)
EXTENDS Assistent, Dialogs

VARIABLE form  \* which of the two

vars == <<form, assistentVars, dialogVars>>

Init == form \in {"assistent", "dialogs"} /\ AssistentInit /\ DialogsInit

Next ==
  \/ form = "assistent" /\ AssistentNext /\ UNCHANGED <<form, dialogVars>>
  \/ form = "dialogs" /\ DialogsNext /\ UNCHANGED <<form, assistentVars>>

Spec == Init /\ [][Next]_vars
=============================================================================
