------------------------------ MODULE CardMove ------------------------------
(***************************************************************************)
(* What callers of Gpg.keyToYubiKey may rely on when they move keys to     *)
(* cards: a move has one verdict.  If it is ok the key is on the card and  *)
(* no copy of the secret is left on the disk; a failure says nothing about *)
(* either.  Verdicts can be lost, with the server or without it.           *)
(***************************************************************************)
CONSTANT Moves

VARIABLES
  verdict,  \* verdict[m]
  copied,   \* moves with a copy of their secret key on the disk
  written   \* moves whose key is on the card

vars == <<verdict, copied, written>>

Init ==
  /\ verdict = [m \in Moves |-> "none"]
  /\ copied = {}
  /\ written = {}

Decides(m, v) == verdict[m] = "moving" /\ verdict' = [verdict EXCEPT ![m] = v]

Start(m) ==
  /\ verdict[m] = "none"
  /\ verdict' = [verdict EXCEPT ![m] = "moving"]
  /\ UNCHANGED <<copied, written>>

Copy(m) ==
  /\ verdict[m] = "moving"
  /\ copied' = copied \cup {m}
  /\ UNCHANGED <<verdict, written>>

Succeed(m) ==
  /\ m \in copied /\ Decides(m, "ok")
  /\ copied' = copied \ {m}
  /\ written' = written \cup {m}

Fail(m) ==
  /\ Decides(m, "fail")
  /\ copied' \in {copied, copied \cup {m}}
  /\ written' \in {written, written \cup {m}}

\* The move ends with an exception that nobody sees.
Lose(m) ==
  /\ Decides(m, "lost")
  /\ copied' \in {copied, copied \cup {m}, copied \ {m}}
  /\ written' \in {written, written \cup {m}}

\* The verdict on m takes the server down, and the other moves with it.
Crash(m) ==
  /\ verdict[m] = "moving"
  /\ verdict' = [n \in Moves |-> IF n = m THEN "fail"
                                 ELSE IF verdict[n] = "moving" THEN "lost" ELSE verdict[n]]
  /\ UNCHANGED <<copied, written>>

Next == \E m \in Moves : \/ Start(m) \/ Copy(m) \/ Succeed(m)
                         \/ Fail(m) \/ Lose(m) \/ Crash(m)

Spec == Init /\ [][Next]_vars
=============================================================================
