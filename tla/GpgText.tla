------------------------------- MODULE GpgText -------------------------------
(***************************************************************************)
(* What gpg prints (external), one line at a time.  Two programs read it:  *)
(* the server, with the classes under src/gpg/types, and the PAM module,   *)
(* with classes of its own.  The modules that EXTEND this one say what the *)
(* lines of a format are and what either reader makes of them.             *)
(***************************************************************************)
EXTENDS Lines

VARIABLES
  format,  \* what was asked for: "keys" or "cards"
  text,    \* the lines so far
  server,  \* what the server has made of them
  pam      \* what the PAM module has made of them

vars == <<format, text, server, pam>>

LinesWith(tags) == {i \in DOMAIN text : text[i].tag \in tags}

\* Line l is printed next, and either program reads it.
Reads(l, s, p) ==
  /\ text' = Append(text, l)
  /\ server' = s /\ pam' = p
  /\ UNCHANGED format
=============================================================================
