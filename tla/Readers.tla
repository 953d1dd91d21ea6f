------------------------------- MODULE Readers -------------------------------
(***************************************************************************)
(* What the server and the PAM module read of gpg, both of them: one of    *)
(* the two commands whose output they parse is run and its lines come one  *)
(* by one.                                                                 *)
(***************************************************************************)
EXTENDS SecretKeys, CardStatus

Init ==
  \/ format = "keys" /\ KeysInit
  \/ format = "cards" /\ CardsInit

Next ==
  \/ format = "keys" /\ KeysNext
  \/ format = "cards" /\ CardsNext

Spec == Init /\ [][Next]_vars

---------------------------------------------------------------------------
(* What is said of either of the two texts. *)

\* The server files every line of a list of keys, and of a list of cards, under
\* the key, the card and the slot it was printed for.
ServerReadsText == ServerReadsKeys /\ ServerReadsCards

\* What gpg prints twice the same is not sent to the browsers twice, but for keys
\* that never expire and for numbers that are not there.
QuietPolls == QuietUnlessEndless /\ CardsQuietUnlessEmpty

\* The PAM module finds in a text what the server finds in it, but for the uids
\* with a comment and the fingerprints of CAs.
PamFindsTheSame == PamFindsTheSameKeys /\ PamFindsTheSameCards
=============================================================================
