--------------------------- MODULE DispatchProofs ---------------------------
(***************************************************************************)
(* Proofs about Dispatch, for every set of requests, browsers and keys and *)
(* every number of attributes.                                             *)
(*                                                                         *)
(* The callbacks of children are all there is to most steps, so what they  *)
(* preserve is stated once, for a child that ended, could not be started   *)
(* or closes.  Liveness is left to TLC.                                    *)
(***************************************************************************)
EXTENDS Dispatch, TLAPS, FiniteSetTheorems

\* A child does what its request asks for.
Fits(c) ==
  /\ Arrived(c.req)
  /\ c.step \in {"list", "secret", "public"} <=> req[c.req].act = "delete"
  /\ c.step = "pin" <=> req[c.req].act = "pin"
  /\ c.step = "attr" <=> req[c.req].act = "card"
  /\ req[c.req].act # "dice"

\* Children belong to requests that arrived; those that close were not started.
ChildInv ==
  /\ \A c \in running \cup closing : Fits(c) /\ c.nr <= spawns[c.req] /\ c.nr >= 1
  /\ \A c \in closing : c.req \in unspawned
  /\ \A c \in running \cup closing : c.step = "attr" => spawns[c.req] <= NAttrs
  /\ \A r \in waiting : Asks(r, "dice")
  /\ \A r \in Requests : claims[r] # {} => finals[r] > 0
  /\ \A r \in Requests : ~Arrived(r) => finals[r] = 0 /\ spawns[r] = 0
  /\ unspawned \subseteq failed

\* A request whose children could be started has one at most, or waits, or is over.
OnceInv ==
  \A r \in Requests \ unspawned :
    /\ finals[r] <= 1
    /\ finals[r] = 1 => Children(r) = {} /\ r \notin waiting
    /\ \A c, d \in Children(r) : c = d

\* The lists are added once, for all who wait then.
DiceInv ==
  /\ waiting # {} => copies = 0
  /\ \A r \in Requests : lists[r] \in {0, copies}

\* The request that changes the card alone has changed all attributes up to the
\* one its child is at.
CardInv ==
  \A r \in Requests \ failed :
    Asks(r, "card") /\ (\A q \in Requests \ {r} : ~Asks(q, "card")) =>
      /\ \A c \in Children(r) : c.nr = spawns[r] /\ \A i \in 1 .. c.nr - 1 : attrs[i] = r
      /\ "over" \in claims[r] => \A i \in 1 .. NAttrs : attrs[i] = r

IInv ==
  /\ TypeOK /\ ChildInv /\ OnceInv /\ DiceInv /\ CardInv
  /\ PinHonest /\ ClaimsDone /\ NotHalfDeleted /\ DownForAReason
-----------------------------------------------------------------------------
LEMMA Start == Init => IInv
<1> SUFFICES ASSUME Init PROVE IInv
  OBVIOUS
<1>1. /\ req = [r \in Requests |-> None] /\ running = {} /\ closing = {} /\ waiting = {}
      /\ finals = [r \in Requests |-> 0] /\ claims = [r \in Requests |-> {}]
      /\ spawns = [r \in Requests |-> 0] /\ lists = [r \in Requests |-> 0] /\ copies = 0
      /\ unspawned = {} /\ failed = {} /\ up = TRUE /\ secret = Keys /\ public = Keys
  BY DEF Init
<1>2. TypeOK
  <2>1. faults \in 0 .. MaxFaults
    BY CountsAssumption DEF Init
  <2>2. attrs \in [1 .. NAttrs -> Requests \cup {None}]
    BY DEF Init
  <2>3. /\ req \in [Requests -> [by : Browsers, act : Acts, key : Keys \cup {None}] \cup {None}]
        /\ spawns \in [Requests -> Nat] /\ finals \in [Requests -> Nat]
        /\ claims \in [Requests -> SUBSET {"ok", "fail", "over"}] /\ lists \in [Requests -> Nat]
    BY <1>1
  <2>4. /\ running \cup closing \subseteq [req : Requests, step : Steps, nr : Nat]
        /\ did \cup failed \cup unspawned \cup dropped \subseteq Requests
    BY <1>1 DEF Init
  <2>5. up \in BOOLEAN /\ words \in BOOLEAN
    BY DEF Init
  <2>6. browsers \subseteq Browsers /\ waiting \subseteq Requests /\ copies \in Nat
    BY DEF Init
  <2>7. QED
    BY <1>1, <2>1, <2>2, <2>3, <2>4, <2>5, <2>6 DEF TypeOK
<1>3. ChildInv /\ OnceInv /\ DiceInv
  BY <1>1 DEF ChildInv, OnceInv, DiceInv, Arrived, Children
<1>4. CardInv /\ PinHonest /\ ClaimsDone /\ NotHalfDeleted /\ DownForAReason
  BY <1>1 DEF CardInv, PinHonest, ClaimsDone, NotHalfDeleted, DownForAReason, Arrived, Asks
<1>5. QED
  BY <1>2, <1>3, <1>4 DEF IInv

-----------------------------------------------------------------------------
(* Callbacks. *)

LEMMA FollowUps ==
  ASSUME NEW c, NEW out
  PROVE  /\ FollowUp(c, out) \in {"secret", "public", "attr", "none"}
         /\ FollowUp(c, out) = "secret" => c.step = "list"
         /\ FollowUp(c, out) = "public" => c.step = "secret"
         /\ FollowUp(c, out) = "attr" => c.step = "attr" /\ spawns[c.req] < NAttrs
         /\ c.step = "secret" /\ out = "ok" => FollowUp(c, out) = "public"
         /\ c.step = "attr" /\ FollowUp(c, out) = "none" => ~(spawns[c.req] < NAttrs)
BY DEF FollowUp

LEMMA Claimed ==
  ASSUME NEW c, NEW out
  PROVE  /\ Claim(c, out) \in {"ok", "fail", "over"}
         /\ c.step = "pin" /\ Claim(c, out) = "ok" => out = "ok"
BY DEF Claim

\* What a child that calls back may leave behind.
Back(c, out, others) ==
  /\ CallBack(c, out, others)
  /\ up /\ up' \in BOOLEAN /\ (~up' => c.req \in unspawned' /\ Throws(c, "none"))
  /\ closing' \subseteq closing \cup {c} /\ \A d \in closing' : d.req \in unspawned'
  /\ unspawned \subseteq unspawned' /\ unspawned' \subseteq unspawned \cup {c.req}
  /\ failed \subseteq failed' /\ failed' \subseteq failed \cup {c.req}
  /\ unspawned' \subseteq failed'
  /\ running \ {c} \subseteq others
  /\ c.req \notin unspawned' => c \in running /\ others = running \ {c}
  /\ out = "ok" => c \in running /\ others = running \ {c} /\ CanEndOk(c) /\ GpgEffect(c)
  /\ out # "ok" => UNCHANGED gpg /\ c.req \in failed'
  /\ faults' \in 0 .. MaxFaults
  /\ UNCHANGED <<browsers, req, dice>>

\* How the children of the requests change.
LEMMA BackChildren ==
  ASSUME IInv, NEW c \in running \cup closing, NEW out \in {"ok", "fail", "err", "none"},
         NEW others \in SUBSET running, Back(c, out, others)
  PROVE  /\ c.req \in Requests /\ c.step \in Steps /\ c.nr \in Nat /\ Fits(c)
         /\ \A d \in running' \cup closing' :
              \/ d \in running \cup closing
              \/ /\ d = Child(c.req, FollowUp(c, out), spawns[c.req] + 1)
                 /\ spawns' = [spawns EXCEPT ![c.req] = @ + 1]
                 /\ FollowUp(c, out) # "none" /\ ~Throws(c, out)
                 /\ UNCHANGED <<finals, claims>>
         /\ spawns' \in [Requests -> Nat] /\ finals' \in [Requests -> Nat]
         /\ claims' \in [Requests -> SUBSET {"ok", "fail", "over"}]
         /\ \A r \in Requests : /\ spawns'[r] >= spawns[r]
                                /\ r # c.req => /\ spawns'[r] = spawns[r]
                                                /\ finals'[r] = finals[r]
                                                /\ claims'[r] = claims[r]
         /\ dropped \subseteq dropped' /\ dropped' \subseteq dropped \cup {c.req}
<1>1. /\ running \cup closing \subseteq [req : Requests, step : Steps, nr : Nat]
      /\ spawns \in [Requests -> Nat] /\ finals \in [Requests -> Nat]
      /\ claims \in [Requests -> SUBSET {"ok", "fail", "over"}]
  BY DEF IInv, TypeOK
<1>2. c.req \in Requests /\ c.step \in Steps /\ c.nr \in Nat /\ Fits(c)
  BY <1>1 DEF IInv, ChildInv
<1>3. closing' \subseteq closing \cup {c} /\ others \subseteq running
  BY DEF Back
<1>4. CASE Throws(c, out) /\ dropped' = dropped \cup {c.req} /\ running' = others
           /\ UNCHANGED <<spawns, told>>
  BY <1>1, <1>2, <1>3, <1>4 DEF told
<1>5. CASE ~Throws(c, out) /\ FollowUp(c, out) # "none"
           /\ Spawns(c.req, FollowUp(c, out), others) /\ UNCHANGED <<told, dropped>>
  BY <1>1, <1>2, <1>3, <1>5 DEF told, Spawns
<1>6. CASE ~Throws(c, out) /\ FollowUp(c, out) = "none" /\ Tells(c.req, Claim(c, out))
           /\ running' = others /\ UNCHANGED <<spawns, dropped>>
  <2>1. Claim(c, out) \in {"ok", "fail", "over"}
    BY Claimed
  <2>2. /\ finals' = [finals EXCEPT ![c.req] = @ + 1]
        /\ claims' = [claims EXCEPT ![c.req] = @ \cup {Claim(c, out)}]
    BY <1>6 DEF Tells
  <2>3. claims' \in [Requests -> SUBSET {"ok", "fail", "over"}]
    BY <1>1, <2>1, <2>2
  <2>4. QED
    BY <1>1, <1>2, <1>3, <1>6, <2>2, <2>3
<1>7. QED
  BY <1>4, <1>5, <1>6 DEF Back, CallBack

LEMMA BackTypes ==
  ASSUME IInv, NEW c \in running \cup closing, NEW out \in {"ok", "fail", "err", "none"},
         NEW others \in SUBSET running, Back(c, out, others)
  PROVE  TypeOK'
<1>1. /\ c.req \in Requests /\ c.step \in Steps /\ c.nr \in Nat /\ Fits(c)
      /\ spawns' \in [Requests -> Nat] /\ finals' \in [Requests -> Nat]
      /\ claims' \in [Requests -> SUBSET {"ok", "fail", "over"}]
      /\ dropped' \subseteq dropped \cup {c.req}
  BY BackChildren
<1>2. running' \cup closing' \subseteq [req : Requests, step : Steps, nr : Nat]
  <2>1. \A d \in running \cup closing : d \in [req : Requests, step : Steps, nr : Nat]
    BY DEF IInv, TypeOK
  <2>2. FollowUp(c, out) # "none" =>
          Child(c.req, FollowUp(c, out), spawns[c.req] + 1)
            \in [req : Requests, step : Steps, nr : Nat]
    <3>1. spawns[c.req] + 1 \in Nat
      BY <1>1 DEF IInv, TypeOK
    <3>2. FollowUp(c, out) # "none" => FollowUp(c, out) \in Steps
      BY FollowUps DEF Steps
    <3>3. QED
      BY <1>1, <3>1, <3>2 DEF Child
  <2>3. QED
    BY <2>1, <2>2, BackChildren
<1>3. /\ secret' \subseteq Keys /\ public' \subseteq Keys
      /\ attrs' \in [1 .. NAttrs -> Requests \cup {None}] /\ did' \subseteq Requests
  <2>1. /\ secret \subseteq Keys /\ public \subseteq Keys /\ did \subseteq Requests
        /\ attrs \in [1 .. NAttrs -> Requests \cup {None}]
    BY DEF IInv, TypeOK
  <2>2. CASE UNCHANGED gpg
    BY <2>1, <2>2 DEF gpg
  <2>3. CASE GpgEffect(c)
    BY <1>1, <2>1, <2>3 DEF GpgEffect
  <2>4. QED
    BY <2>2, <2>3 DEF Back
<1>4. /\ up' \in BOOLEAN /\ faults' \in 0 .. MaxFaults /\ UNCHANGED <<browsers, req, dice>>
      /\ did' \cup failed' \cup unspawned' \cup dropped' \subseteq Requests
  BY <1>1, <1>3 DEF Back, IInv, TypeOK
<1>5. QED
  BY <1>1, <1>2, <1>3, <1>4 DEF IInv, TypeOK, dice

LEMMA BackChild ==
  ASSUME IInv, NEW c \in running \cup closing, NEW out \in {"ok", "fail", "err", "none"},
         NEW others \in SUBSET running, Back(c, out, others)
  PROVE  ChildInv'
<1> DEFINE r == c.req
<1>1. /\ r \in Requests /\ c.step \in Steps /\ c.nr \in Nat /\ Fits(c)
      /\ \A q \in Requests : /\ spawns[q] \in Nat /\ spawns'[q] \in Nat /\ spawns'[q] >= spawns[q]
                             /\ q # r => /\ spawns'[q] = spawns[q]
                                         /\ finals'[q] = finals[q]
                                         /\ claims'[q] = claims[q]
  BY BackChildren DEF IInv, TypeOK
<1>2. UNCHANGED <<req, waiting>> /\ closing' \subseteq closing \cup {c}
      /\ (\A d \in closing' : d.req \in unspawned') /\ unspawned' \subseteq failed'
  BY DEF Back, dice
<1>3. ASSUME NEW d \in running' \cup closing'
      PROVE  /\ Fits(d)' /\ d.nr <= spawns'[d.req] /\ d.nr >= 1
             /\ d.step = "attr" => spawns'[d.req] <= NAttrs
  <2>1. CASE d = Child(r, FollowUp(c, out), spawns[r] + 1) /\ FollowUp(c, out) # "none"
             /\ spawns' = [spawns EXCEPT ![r] = @ + 1]
    <3>1. d.req = r /\ d.step = FollowUp(c, out) /\ d.nr = spawns[r] + 1
            /\ spawns'[r] = spawns[r] + 1
      BY <1>1, <2>1 DEF Child, IInv, TypeOK
    <3>2. Fits(d)'
      BY <1>1, <1>2, <2>1, <3>1, FollowUps DEF Fits, Arrived
    <3>3. d.step = "attr" => spawns'[d.req] <= NAttrs
      <4>1. d.step = "attr" => spawns[r] < NAttrs
        BY <3>1, FollowUps
      <4>2. QED
        BY <1>1, <3>1, <4>1, CountsAssumption
    <3>4. QED
      BY <1>1, <3>1, <3>2, <3>3
  <2>2. CASE d \in running \cup closing
    <3>1. /\ Fits(d) /\ d.nr <= spawns[d.req] /\ d.nr >= 1 /\ d.req \in Requests /\ d.nr \in Nat
          /\ d.step = "attr" => spawns[d.req] <= NAttrs
      BY <2>2 DEF IInv, TypeOK, ChildInv
    <3>2. Fits(d)'
      BY <1>2, <3>1 DEF Fits, Arrived
    <3>3. d.step = "attr" => spawns'[d.req] <= NAttrs
      <4>1. CASE d.req = r /\ d.step = "attr" /\ spawns'[r] # spawns[r]
        <5>1. c.step = "attr"
          BY <1>1, <3>1, <4>1 DEF Fits
        <5>2. spawns' = [spawns EXCEPT ![r] = @ + 1] /\ FollowUp(c, out) # "none"
          <6>1. \/ UNCHANGED spawns
                \/ Spawns(r, FollowUp(c, out), others) /\ FollowUp(c, out) # "none"
            BY DEF Back, CallBack
          <6>2. QED
            BY <4>1, <6>1 DEF Spawns
        <5>3. spawns[r] < NAttrs /\ spawns'[r] = spawns[r] + 1
          BY <1>1, <5>1, <5>2, FollowUps DEF IInv, TypeOK
        <5>4. QED
          BY <1>1, <4>1, <5>3, CountsAssumption
      <4>2. QED
        BY <1>1, <3>1, <4>1
    <3>4. QED
      BY <1>1, <3>1, <3>2, <3>3
  <2>3. QED
    BY <2>1, <2>2, BackChildren
<1>4. \A q \in waiting' : Asks(q, "dice")'
  BY <1>2 DEF IInv, ChildInv, Asks, Arrived
<1>5. \A q \in Requests : claims'[q] # {} => finals'[q] > 0
  <2>1. UNCHANGED told \/ Tells(r, Claim(c, out))
    BY DEF Back, CallBack
  <2>2. CASE UNCHANGED told
    BY <2>2 DEF told, IInv, ChildInv
  <2>3. CASE Tells(r, Claim(c, out))
    BY <1>1, <2>3 DEF Tells, IInv, TypeOK, ChildInv
  <2>4. QED
    BY <2>1, <2>2, <2>3
<1>6. \A q \in Requests : ~Arrived(q)' => finals'[q] = 0 /\ spawns'[q] = 0
  BY <1>1, <1>2 DEF IInv, ChildInv, Arrived, Fits
<1>7. QED
  BY <1>2, <1>3, <1>4, <1>5, <1>6 DEF ChildInv

\* No child but the one that calls back goes.
LEMMA BackRemain ==
  ASSUME IInv, NEW c \in running \cup closing, NEW out \in {"ok", "fail", "err", "none"},
         NEW others \in SUBSET running, Back(c, out, others), NEW d \in running, d # c
  PROVE  d \in running'
<1>1. d \in others
  BY DEF Back
<1>2. QED
  BY <1>1 DEF Back, CallBack, Spawns

\* Children of other requests stay; those of the one that calls back are the others
\* and what follows up.
LEMMA BackOthers ==
  ASSUME IInv, NEW c \in running \cup closing, NEW out \in {"ok", "fail", "err", "none"},
         NEW others \in SUBSET running, Back(c, out, others), NEW q \in Requests, q # c.req
  PROVE  Children(q)' \subseteq Children(q)
BY BackChildren DEF Children, Child

LEMMA BackOnce ==
  ASSUME IInv, NEW c \in running \cup closing, NEW out \in {"ok", "fail", "err", "none"},
         NEW others \in SUBSET running, Back(c, out, others)
  PROVE  OnceInv'
<1> DEFINE r == c.req
<1> SUFFICES ASSUME NEW q \in Requests, q \notin unspawned'
             PROVE  /\ finals'[q] <= 1
                    /\ finals'[q] = 1 => Children(q)' = {} /\ q \notin waiting'
                    /\ \A d, e \in Children(q)' : d = e
  BY DEF OnceInv
<1>1. /\ q \notin unspawned /\ finals[q] \in Nat /\ waiting' = waiting
      /\ finals[q] <= 1 /\ (finals[q] = 1 => Children(q) = {} /\ q \notin waiting)
      /\ \A d, e \in Children(q) : d = e
  BY DEF Back, dice, IInv, OnceInv, TypeOK
<1>2. CASE q # r
  BY <1>1, <1>2, BackOthers, BackChildren
<1>3. CASE q = r
  <2>1. c \in running /\ others = running \ {c} /\ c \in Children(q)
          /\ closing' \subseteq closing \cup {c}
        /\ \A d \in closing' : d.req # q
    BY <1>3 DEF Back, Children
  <2>2. /\ finals[q] = 0 /\ q \notin waiting
        /\ \A d \in others : d.req # q
    <3>1. q \notin waiting
      BY <1>3, BackChildren DEF IInv, ChildInv, Fits, Asks
    <3>2. \A d \in others : d.req = q => d \in Children(q) /\ d # c
      BY <2>1 DEF Children
    <3>3. QED
      BY <1>1, <2>1, <3>1, <3>2
  <2>3. CASE running' = others /\ (UNCHANGED told \/ Tells(q, Claim(c, out)))
    <3>1. Children(q)' = {}
      BY <2>1, <2>2, <2>3 DEF Children
    <3>2. finals'[q] \in {finals[q], finals[q] + 1}
      BY <1>1, <2>3 DEF told, Tells, IInv, TypeOK
    <3>3. QED
      BY <1>1, <2>2, <3>1, <3>2
  <2>4. CASE Spawns(q, FollowUp(c, out), others) /\ UNCHANGED told
    <3>1. \A d \in Children(q)' : d = Child(q, FollowUp(c, out), spawns[q] + 1)
      BY <2>1, <2>2, <2>4 DEF Children, Spawns
    <3>2. finals'[q] = 0
      BY <2>2, <2>4 DEF told
    <3>3. QED
      BY <3>1, <3>2
  <2>5. QED
    BY <1>3, <2>3, <2>4 DEF Back, CallBack
<1>4. QED
  BY <1>2, <1>3

LEMMA BackDice ==
  ASSUME IInv, NEW c \in running \cup closing, NEW out \in {"ok", "fail", "err", "none"},
         NEW others \in SUBSET running, Back(c, out, others)
  PROVE  DiceInv'
BY DEF Back, dice, DiceInv, IInv

LEMMA BackDown ==
  ASSUME IInv, NEW c \in running \cup closing, NEW out \in {"ok", "fail", "err", "none"},
         NEW others \in SUBSET running, Back(c, out, others)
  PROVE  DownForAReason'
<1>1. c.req \in Requests /\ Fits(c)
  BY BackChildren
<1>2. CASE up'
  BY <1>2 DEF DownForAReason
<1>3. CASE ~up'
  <2>1. c.req \in unspawned' /\ Throws(c, "none") /\ UNCHANGED <<browsers, req>>
    BY <1>3 DEF Back
  <2>2. Asks(c.req, "delete") \/ ~Here(c.req)
    BY <1>1, <2>1 DEF Throws, Fits, Asks
  <2>3. QED
    BY <1>1, <2>1, <2>2 DEF DownForAReason, Asks, Here, Arrived
<1>4. QED
  BY <1>2, <1>3

LEMMA BackDone ==
  ASSUME IInv, NEW c \in running \cup closing, NEW out \in {"ok", "fail", "err", "none"},
         NEW others \in SUBSET running, Back(c, out, others)
  PROVE  ClaimsDone'
<1> SUFFICES ASSUME NEW q \in Requests, "ok" \in claims'[q], q \notin failed'
             PROVE  /\ Asks(q, "reset") => q \in did'
                    /\ Asks(q, "delete") => req[q].key \notin secret' \cup public'
  BY DEF ClaimsDone, Back, Asks, Arrived
<1>1. Fits(c) /\ c.req \in Requests /\ UNCHANGED req /\ q \notin failed
  BY BackChildren DEF Back
<1>2. did \subseteq did' /\ secret' \subseteq secret /\ public' \subseteq public
  BY DEF Back, gpg, GpgEffect
<1>3. CASE "ok" \in claims[q]
  BY <1>1, <1>2, <1>3 DEF IInv, ClaimsDone
<1>4. CASE "ok" \notin claims[q]
  <2>1. q = c.req
    BY <1>4, BackChildren
  <2>2. Tells(q, Claim(c, out))
    BY <1>4, <2>1 DEF Back, CallBack, told
  <2>3. Claim(c, out) = "ok"
    BY <1>4, <2>2 DEF Tells, IInv, TypeOK
  <2>4. out = "ok"
    BY <1>1, <2>1 DEF Back
  <2>5. c.step \in {"pin", "reset", "public"} /\ GpgEffect(c) /\ CanEndOk(c)
    BY <2>3, <2>4 DEF Claim, Back
  <2>6. Asks(q, "reset") => c.step = "reset"
    BY <1>1, <2>1, <2>5 DEF Fits, Asks
  <2>7. Asks(q, "delete") => c.step = "public"
    BY <1>1, <2>1, <2>5 DEF Fits, Asks
  <2>8. QED
    BY <2>1, <2>5, <2>6, <2>7 DEF GpgEffect, CanEndOk
<1>5. QED
  BY <1>3, <1>4

LEMMA BackPin ==
  ASSUME IInv, NEW c \in running \cup closing, NEW out \in {"ok", "fail", "err", "none"},
         NEW others \in SUBSET running, Back(c, out, others)
  PROVE  PinHonest'
<1> SUFFICES ASSUME NEW q \in Requests, Asks(q, "pin")', "ok" \in claims'[q]
             PROVE  q \in did'
  BY DEF PinHonest
<1>1. Asks(q, "pin") /\ Fits(c) /\ c.req \in Requests /\ UNCHANGED req
  BY BackChildren DEF Back, Asks, Arrived
<1>2. did \subseteq did'
  BY DEF Back, gpg, GpgEffect
<1>3. CASE "ok" \in claims[q]
  BY <1>1, <1>2, <1>3 DEF IInv, PinHonest
<1>4. CASE "ok" \notin claims[q]
  <2>1. claims[q] # claims'[q]
    BY <1>4
  <2>2. q = c.req /\ Tells(q, Claim(c, out))
    <3>1. q = c.req
      BY <2>1, BackChildren
    <3>2. UNCHANGED told \/ Tells(q, Claim(c, out))
      BY <3>1 DEF Back, CallBack
    <3>3. QED
      BY <2>1, <3>1, <3>2 DEF told
  <2>3. Claim(c, out) = "ok"
    BY <1>4, <2>2 DEF Tells, IInv, TypeOK
  <2>4. c.step = "pin"
    BY <1>1, <2>2 DEF Fits, Asks
  <2>5. out = "ok"
    BY <2>3, <2>4, Claimed
  <2>6. QED
    BY <2>2, <2>4, <2>5 DEF Back, GpgEffect
<1>5. QED
  BY <1>3, <1>4

\* The key whose secret half goes belongs to a deletion that goes on or lost its
\* browser.
LEMMA BackHalf ==
  ASSUME IInv, NEW c \in running \cup closing, NEW out \in {"ok", "fail", "err", "none"},
         NEW others \in SUBSET running, Back(c, out, others)
  PROVE  NotHalfDeleted'
<1> DEFINE r == c.req
<1> SUFFICES ASSUME up', NEW k \in public', k \notin secret'
             PROVE  \E q \in Requests :
                      /\ Asks(q, "delete")' /\ req'[q].key = k
                      /\ \/ \E d \in Children(q)' : d.step = "public"
                         \/ q \in failed' \cup dropped'
  BY DEF NotHalfDeleted
<1>1. /\ r \in Requests /\ Fits(c) /\ UNCHANGED req /\ dropped \subseteq dropped'
      /\ failed \subseteq failed' /\ up
  BY BackChildren DEF Back
<1>2. k \in public
  BY DEF Back, gpg, GpgEffect
<1>3. CASE k \in secret
  <2>1. out = "ok" /\ c.step = "secret" /\ k = req[r].key
    BY <1>3 DEF Back, gpg, GpgEffect
  <2>2. Asks(r, "delete")
    BY <1>1, <2>1 DEF Fits, Asks
  <2>3. FollowUp(c, out) = "public"
    BY <2>1, FollowUps
  <2>4. CASE Throws(c, out)
    <3>1. r \in dropped'
      BY <2>4 DEF Back, CallBack
    <3>2. QED
      BY <1>1, <2>1, <2>2, <3>1 DEF Asks, Arrived
  <2>5. CASE ~Throws(c, out)
    <3>1. Spawns(r, "public", others)
      BY <2>3, <2>5 DEF Back, CallBack
    <3>2. Child(r, "public", spawns[r] + 1) \in Children(r)'
      BY <3>1 DEF Spawns, Children, Child
    <3>3. QED
      BY <1>1, <2>1, <2>2, <3>2 DEF Asks, Arrived, Child
  <2>6. QED
    BY <2>4, <2>5
<1>4. CASE k \notin secret
  <2>1. PICK q \in Requests : /\ Asks(q, "delete") /\ req[q].key = k
                             /\ \/ \E d \in Children(q) : d.step = "public"
                                \/ q \in failed \cup dropped
    BY <1>1, <1>2, <1>4 DEF IInv, NotHalfDeleted
  <2>2. CASE q \in failed \cup dropped
    BY <1>1, <2>1, <2>2 DEF Asks, Arrived
  <2>3. CASE \E d \in Children(q) : d.step = "public"
    <3>1. PICK d \in Children(q) : d.step = "public"
      BY <2>3
    <3>2. CASE out # "ok" /\ q = r
      BY <1>1, <2>1, <3>2 DEF Back, Asks, Arrived
    <3>3. CASE out = "ok" /\ d = c
      <4>1. CanEndOk(c) /\ GpgEffect(c) /\ q = r
        BY <3>1, <3>3 DEF Back, Children
      <4>2. k \notin public'
        BY <1>2, <2>1, <3>1, <3>3, <4>1 DEF CanEndOk, GpgEffect
      <4>3. QED
        BY <4>2
    <3>4. CASE d # c
      <4>1. d \in running' \cup closing' \/ d \in closing
        BY <3>1, <3>4, BackRemain DEF Children
      <4>2. d \in closing => q \in failed
        BY <3>1 DEF Children, IInv, ChildInv
      <4>3. QED
        BY <1>1, <2>1, <3>1, <4>1, <4>2 DEF Asks, Arrived, Children
    <3>5. CASE out # "ok" /\ d = c
      BY <3>1, <3>2, <3>5 DEF Children
    <3>6. QED
      BY <3>3, <3>4, <3>5
  <2>4. QED
    BY <2>1, <2>2, <2>3
<1>5. QED
  BY <1>3, <1>4

\* The first request to change the card, alone and without a failure: attribute n is
\* written when its child ends.
LEMMA BackCard ==
  ASSUME IInv, NEW c \in running \cup closing, NEW out \in {"ok", "fail", "err", "none"},
         NEW others \in SUBSET running, Back(c, out, others)
  PROVE  CardInv'
<1> DEFINE r == c.req
<1> SUFFICES ASSUME NEW q \in Requests, q \notin failed', Asks(q, "card")',
                    \A p \in Requests \ {q} : ~Asks(p, "card")'
             PROVE  /\ \A d \in Children(q)' : d.nr = spawns'[q]
                         /\ \A i \in 1 .. d.nr - 1 : attrs'[i] = q
                    /\ "over" \in claims'[q] => \A i \in 1 .. NAttrs : attrs'[i] = q
  BY DEF CardInv
<1>1. /\ r \in Requests /\ Fits(c) /\ c.nr \in Nat /\ UNCHANGED req /\ q \notin failed
      /\ q \notin unspawned /\ q \notin unspawned'
  BY BackChildren DEF Back, IInv, ChildInv
<1>2. Asks(q, "card") /\ \A p \in Requests \ {q} : ~Asks(p, "card")
  BY <1>1 DEF Asks, Arrived
<1>3. /\ \A d \in Children(q) : d.nr = spawns[q] /\ \A i \in 1 .. d.nr - 1 : attrs[i] = q
      /\ "over" \in claims[q] => \A i \in 1 .. NAttrs : attrs[i] = q
  BY <1>1, <1>2 DEF IInv, CardInv
<1>4. CASE q # r
  <2>1. c.step # "attr"
    BY <1>1, <1>2, <1>4 DEF Fits, Asks
  <2>2. UNCHANGED attrs
    BY <2>1 DEF Back, gpg, GpgEffect
  <2>3. Children(q)' \subseteq Children(q) /\ spawns'[q] = spawns[q] /\ claims'[q] = claims[q]
    BY <1>4, BackOthers, BackChildren
  <2>4. QED
    BY <1>3, <2>2, <2>3
<1>5. CASE q = r
  <2>1. /\ out = "ok" /\ c \in running /\ others = running \ {c} /\ GpgEffect(c)
        /\ c \in Children(q) /\ closing' \subseteq closing \cup {c}
        /\ \A d \in closing' : d.req # q
    BY <1>1, <1>5 DEF Back, Children
  <2>2. c.step = "attr" /\ c.nr = spawns[q]
    BY <1>1, <1>2, <1>3, <1>5, <2>1 DEF Fits, Asks
  <2>3. /\ \A d \in others : d.req # q
        /\ finals[q] = 0 /\ claims[q] = {}
    <3>1. \A d, e \in Children(q) : d = e
      BY <1>1 DEF IInv, OnceInv
    <3>2. \A d \in others : d.req = q => d \in Children(q) /\ d # c
      BY <2>1 DEF Children
    <3>3. finals[q] = 0
      BY <1>1, <2>1 DEF IInv, OnceInv, TypeOK
    <3>4. QED
      BY <2>1, <3>1, <3>2, <3>3 DEF IInv, ChildInv
  <2>4. c.nr <= NAttrs /\ c.nr >= 1 /\ spawns[q] \in Nat
    BY <1>1, <1>5, <2>1, <2>2, CountsAssumption DEF IInv, ChildInv, TypeOK
  <2>5. attrs' = [attrs EXCEPT ![c.nr] = q]
    BY <1>5, <2>1, <2>2 DEF GpgEffect
  <2>6. \A i \in 1 .. c.nr : attrs'[i] = q
    <3>1. attrs \in [1 .. NAttrs -> Requests \cup {None}]
      BY DEF IInv, TypeOK
    <3>2. ASSUME NEW i \in 1 .. c.nr PROVE attrs'[i] = q
      <4>1. i \in 1 .. NAttrs
        BY <1>1, <2>4, CountsAssumption
      <4>2. CASE i = c.nr
        BY <2>5, <3>1, <4>1, <4>2
      <4>3. CASE i # c.nr
        <5>1. i \in 1 .. c.nr - 1
          BY <1>1, <4>3
        <5>2. attrs[i] = q
          BY <1>3, <2>1, <5>1
        <5>3. QED
          BY <2>5, <3>1, <4>1, <4>3, <5>2
      <4>4. QED
        BY <4>2, <4>3
    <3>3. QED
      BY <3>2
  <2>7. CASE running' = others /\ UNCHANGED told
    <3>1. Children(q)' = {}
      BY <2>1, <2>3, <2>7 DEF Children
    <3>2. QED
      BY <2>3, <2>7, <3>1 DEF told
  <2>8. CASE running' = others /\ FollowUp(c, out) = "none"
    <3>1. Children(q)' = {}
      BY <2>1, <2>3, <2>8 DEF Children
    <3>2. ~(spawns[q] < NAttrs)
      BY <1>5, <2>2, <2>8, FollowUps
    <3>3. c.nr = NAttrs
      BY <2>2, <2>4, <3>2, CountsAssumption
    <3>4. QED
      BY <2>6, <3>1, <3>3
  <2>9. CASE Spawns(q, FollowUp(c, out), others) /\ UNCHANGED told
    <3>1. \A d \in Children(q)' : d = Child(q, FollowUp(c, out), spawns[q] + 1)
      BY <2>1, <2>3, <2>9 DEF Children, Spawns
    <3>2. spawns'[q] = spawns[q] + 1
      BY <1>1, <1>5, <2>9 DEF Spawns, IInv, TypeOK
    <3>3. spawns[q] + 1 - 1 = c.nr
      BY <1>1, <2>2, <2>4
    <3>4. \A d \in Children(q)' : d.nr = spawns'[q] /\ d.nr - 1 = c.nr
      <4>1. \A d \in Children(q)' : d.nr = spawns[q] + 1
        BY <3>1 DEF Child
      <4>2. \A d \in Children(q)' : d.nr = spawns'[q]
        BY <3>2, <4>1
      <4>3. ASSUME NEW d \in Children(q)' PROVE d.nr - 1 = c.nr
        BY <2>2, <2>4, <4>1
      <4>4. QED
        BY <4>2, <4>3
    <3>5. claims'[q] = {}
      BY <2>3, <2>9 DEF told
    <3>6. QED
      BY <2>6, <3>4, <3>5
  <2>10. QED
    BY <1>5, <2>7, <2>8, <2>9 DEF Back, CallBack
<1>6. QED
  BY <1>4, <1>5

\* All of them.
LEMMA BackAll ==
  ASSUME IInv, NEW c \in running \cup closing, NEW out \in {"ok", "fail", "err", "none"},
         NEW others \in SUBSET running, Back(c, out, others)
  PROVE  IInv'
BY BackTypes, BackChild, BackOnce, BackDice, BackCard, BackPin, BackDone, BackHalf,
     BackDown DEF IInv

\* The children that end, cannot be started or close leave that behind.
LEMMA CallsBack ==
  ASSUME IInv,
         \/ \E c \in running : Ends(c) \/ SpawnFails(c)
         \/ \E c \in closing : Closes(c)
  PROVE  IInv'
<1>1. ASSUME NEW c \in running, EndsOk(c) PROVE IInv'
  <2>1. Back(c, "ok", running \ {c})
    <3>1. faults' \in 0 .. MaxFaults
      BY <1>1 DEF EndsOk, IInv, TypeOK
    <3>2. /\ \A d \in closing' : d.req \in unspawned'
          /\ unspawned' \subseteq failed'
      BY <1>1 DEF EndsOk, IInv, ChildInv
    <3>3. QED
      BY <1>1, <3>1, <3>2 DEF EndsOk, Back
  <2>2. QED
    BY <2>1, BackAll
<1>2. ASSUME NEW c \in running, NEW out \in {"fail", "err"}, EndsBadly(c, out) PROVE IInv'
  <2>1. Back(c, out, running \ {c})
    <3>1. faults' \in 0 .. MaxFaults
      <4>1. faults \in 0 .. MaxFaults
        BY DEF IInv, TypeOK
      <4>2. (faults < MaxFaults /\ faults' = faults + 1) \/ faults' = faults
        BY <1>2 DEF EndsBadly
      <4>3. QED
        BY <4>1, <4>2, CountsAssumption
    <3>2. /\ \A d \in closing' : d.req \in unspawned'
          /\ unspawned' \subseteq failed' /\ c.req \in failed'
      BY <1>2 DEF EndsBadly, IInv, ChildInv
    <3>3. QED
      BY <1>2, <3>1, <3>2 DEF EndsBadly, Back
  <2>2. QED
    BY <2>1, BackAll
<1>3. ASSUME NEW c \in running, SpawnFails(c) PROVE IInv'
  <2>1. Back(c, "none", running \ {c})
    <3>1. faults' \in 0 .. MaxFaults
      BY <1>3, CountsAssumption DEF SpawnFails, IInv, TypeOK
    <3>2. /\ \A d \in closing' : d.req \in unspawned'
          /\ unspawned' \subseteq failed' /\ c.req \in failed'
      BY <1>3 DEF SpawnFails, IInv, ChildInv
    <3>3. up' \in BOOLEAN /\ (~up' => c.req \in unspawned' /\ Throws(c, "none"))
      BY <1>3 DEF SpawnFails
    <3>4. QED
      BY <1>3, <3>1, <3>2, <3>3 DEF SpawnFails, Back
  <2>2. QED
    BY <2>1, BackAll
<1>4. ASSUME NEW c \in closing, Closes(c) PROVE IInv'
  <2>1. Back(c, "none", running)
    <3>1. faults' \in 0 .. MaxFaults
      BY <1>4 DEF Closes, IInv, TypeOK
    <3>2. /\ \A d \in closing' : d.req \in unspawned'
          /\ unspawned' \subseteq failed' /\ c.req \in failed' /\ c.req \in unspawned'
      BY <1>4 DEF Closes, IInv, ChildInv
    <3>3. QED
      BY <1>4, <3>1, <3>2 DEF Closes, Back
  <2>2. QED
    BY <2>1, BackAll
<1>5. QED
  BY <1>1, <1>2, <1>3, <1>4 DEF Ends

-----------------------------------------------------------------------------
(* Requests. *)

LEMMA Arriving ==
  ASSUME IInv, NEW r \in Requests, NEW b \in Browsers, NEW a \in Acts,
         NEW k \in Keys \cup {None}, Arrives(r, b, a, k)
  PROVE  /\ req' \in [Requests -> [by : Browsers, act : Acts, key : Keys \cup {None}] \cup {None}]
         /\ ~Arrived(r) /\ Arrived(r)' /\ req'[r].act = a /\ req'[r].key = k
         /\ \A q \in Requests : q # r => req'[q] = req[q]
         /\ \A q \in Requests, x \in Acts : Asks(q, x) => q # r /\ Asks(q, x)' /\ req'[q] = req[q]
         /\ \A q \in Requests : ~Here(q) => q = r \/ ~Here(q)'
         /\ Children(r) = {} /\ finals[r] = 0 /\ spawns[r] = 0 /\ r \notin waiting
         /\ claims[r] = {}
<1>1. /\ req \in [Requests -> [by : Browsers, act : Acts, key : Keys \cup {None}] \cup {None}]
      /\ ~Arrived(r) /\ req' = [req EXCEPT ![r] = [by |-> b, act |-> a, key |-> k]]
      /\ UNCHANGED browsers
  BY DEF IInv, TypeOK, Arrives
<1>2. [by |-> b, act |-> a, key |-> k] \in [by : Browsers, act : Acts, key : Keys \cup {None}]
  OBVIOUS
<1>3. [by |-> b, act |-> a, key |-> k] # None
  BY <1>2, NoneAssumption
<1>4. /\ req' \in [Requests -> [by : Browsers, act : Acts, key : Keys \cup {None}] \cup {None}]
      /\ req'[r] = [by |-> b, act |-> a, key |-> k]
      /\ \A q \in Requests : q # r => req'[q] = req[q]
  BY <1>1, <1>2
<1>5. ~Arrived(r) /\ Arrived(r)' /\ req'[r].act = a /\ req'[r].key = k
  BY <1>1, <1>3, <1>4 DEF Arrived
<1>6. \A q \in Requests, x \in Acts : Asks(q, x) => q # r /\ Asks(q, x)' /\ req'[q] = req[q]
  BY <1>1, <1>4 DEF Asks, Arrived
<1>7. \A q \in Requests : ~Here(q) => q = r \/ ~Here(q)'
  BY <1>1, <1>4 DEF Here, Arrived
<1>8. Children(r) = {} /\ finals[r] = 0 /\ spawns[r] = 0 /\ r \notin waiting
  BY <1>5 DEF IInv, ChildInv, Children, Fits, Asks
<1>9. claims[r] = {}
  BY <1>8 DEF IInv, ChildInv
<1>10. QED
  BY <1>4, <1>5, <1>6, <1>7, <1>8, <1>9

\* What a request may leave behind that just arrived.
Enters(r, a) ==
  /\ \A q \in Requests \ {r} : /\ finals'[q] = finals[q] /\ claims'[q] = claims[q]
                                /\ spawns'[q] = spawns[q]
  /\ running \subseteq running'
  /\ \A d \in running' \ running : d.req = r /\ d.nr = 1 /\ spawns'[r] = 1
  /\ "ok" \notin claims'[r] /\ ("over" \in claims'[r] => a = "dice")

LEMMA Entering ==
  ASSUME IInv, NEW r \in Requests, NEW b \in Browsers, NEW a \in Acts,
         NEW k \in Keys \cup {None}, Arrives(r, b, a, k), Enters(r, a)
  PROVE  /\ CardInv' /\ PinHonest' /\ ClaimsDone' /\ NotHalfDeleted' /\ DownForAReason'
         /\ \A q \in Requests : q # r => Children(q)' = Children(q)
<1>1. UNCHANGED <<up, browsers, closing, secret, public, attrs, did, failed, unspawned, dropped,
        faults>> /\ up
  BY DEF Arrives, gpg
<1>2. \A q \in Requests : q # r => Children(q)' = Children(q)
  BY <1>1 DEF Enters, Children
<1>3. DownForAReason'
  BY <1>1 DEF DownForAReason
<1>4. PinHonest'
  <2> SUFFICES ASSUME NEW q \in Requests, Asks(q, "pin")', "ok" \in claims'[q] PROVE q \in did'
    BY DEF PinHonest
  <2>1. q # r
    BY DEF Enters
  <2>2. Asks(q, "pin") /\ "ok" \in claims[q]
    BY <2>1, Arriving DEF Enters, Asks, Arrived
  <2>3. QED
    BY <1>1, <2>2 DEF IInv, PinHonest
<1>d. ClaimsDone'
  <2> SUFFICES ASSUME NEW q \in Requests, "ok" \in claims'[q], q \notin failed'
               PROVE  /\ Asks(q, "reset")' => q \in did'
                      /\ Asks(q, "delete")' => req'[q].key \notin secret' \cup public'
    BY DEF ClaimsDone
  <2>1. q # r
    BY DEF Enters
  <2>2. "ok" \in claims[q] /\ req'[q] = req[q] /\ q \notin failed
    BY <1>1, <2>1, Arriving DEF Enters
  <2>3. QED
    BY <1>1, <2>2 DEF IInv, ClaimsDone, Asks, Arrived
<1>5. NotHalfDeleted'
  <2> SUFFICES ASSUME NEW x \in public \ secret
               PROVE  \E q \in Requests :
                        /\ Asks(q, "delete")' /\ req'[q].key = x
                        /\ \/ \E c \in Children(q)' : c.step = "public"
                           \/ q \in failed' \cup dropped'
    BY <1>1 DEF NotHalfDeleted
  <2>1. PICK q \in Requests : /\ Asks(q, "delete") /\ req[q].key = x
                             /\ \/ \E c \in Children(q) : c.step = "public"
                                \/ q \in failed \cup dropped
    BY <1>1 DEF IInv, NotHalfDeleted
  <2>2. q # r /\ Asks(q, "delete")' /\ req'[q] = req[q]
    <3>1. req[q].act \in Acts
      BY <2>1 DEF Asks, Arrived, IInv, TypeOK
    <3>2. "delete" \in Acts
      BY <2>1, <3>1 DEF Asks
    <3>3. QED
      BY <2>1, <3>2, Arriving
  <2>3. QED
    BY <1>1, <1>2, <2>1, <2>2
<1>6. CardInv'
  <2> SUFFICES ASSUME NEW q \in Requests, q \notin failed', Asks(q, "card")',
                      \A p \in Requests \ {q} : ~Asks(p, "card")'
               PROVE  /\ \A d \in Children(q)' : d.nr = spawns'[q]
                           /\ \A i \in 1 .. d.nr - 1 : attrs'[i] = q
                      /\ "over" \in claims'[q] => \A i \in 1 .. NAttrs : attrs'[i] = q
    BY DEF CardInv
  <2>1. CASE q = r
    <3>1. a = "card"
      BY <2>1, Arriving DEF Asks
    <3>2. "over" \notin claims'[q]
      BY <2>1, <3>1 DEF Enters
    <3>3. \A d \in Children(q)' : d \in running' \ running
      BY <1>1, <2>1, Arriving DEF Children
    <3>4. \A d \in Children(q)' : d.nr = spawns'[q] /\ d.nr = 1
      BY <2>1, <3>3 DEF Enters
    <3>5. 1 .. 1 - 1 = {}
      OBVIOUS
    <3>6. QED
      BY <3>2, <3>4, <3>5
  <2>2. CASE q # r
    <3>1. Asks(q, "card") /\ req'[q] = req[q]
      BY <2>2, Arriving DEF Asks, Arrived
    <3>2. "card" \in Acts
      BY <3>1 DEF Asks, Arrived, IInv, TypeOK
    <3>3. \A p \in Requests \ {q} : ~Asks(p, "card")
      BY <3>2, Arriving
    <3>4. /\ \A d \in Children(q) : d.nr = spawns[q] /\ \A i \in 1 .. d.nr - 1 : attrs[i] = q
          /\ "over" \in claims[q] => \A i \in 1 .. NAttrs : attrs[i] = q
      BY <1>1, <3>1, <3>3 DEF IInv, CardInv
    <3>5. QED
      BY <1>1, <1>2, <2>2, <3>4 DEF Enters
  <2>3. QED
    BY <2>1, <2>2
<1>7. QED
  BY <1>2, <1>3, <1>4, <1>d, <1>5, <1>6

\* A request whose first child is started.
LEMMA Starting ==
  ASSUME IInv, NEW r \in Requests, NEW b \in Browsers, NEW a \in Acts, NEW k \in Keys \cup {None},
         NEW s \in Steps, Arrives(r, b, a, k), Starts(r, s), a # "dice",
         s \in {"list", "secret", "public"} <=> a = "delete",
         s = "pin" <=> a = "pin", s = "attr" <=> a = "card"
  PROVE  IInv'
<1> DEFINE n == Child(r, s, 1)
<1>1. /\ UNCHANGED <<up, browsers, closing, secret, public, attrs, did, failed, unspawned, dropped,
           faults>>
      /\ UNCHANGED <<finals, claims, waiting, words, copies, lists>>
  BY DEF Arrives, gpg, Starts, told, dice
<1>2. /\ ~Arrived(r) /\ Arrived(r)' /\ req'[r].act = a /\ finals[r] = 0 /\ claims[r] = {}
           /\ spawns[r] = 0
      /\ Children(r) = {} /\ r \notin waiting
      /\ \A q \in Requests : q # r => req'[q] = req[q]
  BY Arriving
<1>3. spawns' = [spawns EXCEPT ![r] = 1] /\ running' = running \cup {n}
  BY <1>2 DEF Starts, Spawns
<1>4. /\ spawns' \in [Requests -> Nat] /\ spawns'[r] = 1
      /\ \A q \in Requests : q # r => spawns'[q] = spawns[q]
      /\ n \in [req : Requests, step : Steps, nr : Nat] /\ n.req = r /\ n.step = s /\ n.nr = 1
  BY <1>3 DEF IInv, TypeOK, Child
<1>5. Enters(r, a)
  BY <1>1, <1>2, <1>3, <1>4 DEF Enters
<1>6. Children(r)' = {n} /\ \A q \in Requests : q # r => Children(q)' = Children(q)
  BY <1>1, <1>2, <1>3, <1>4, <1>5, Entering DEF Children
<1>7. TypeOK'
  <2>1. running' \cup closing' \subseteq [req : Requests, step : Steps, nr : Nat]
    BY <1>1, <1>3, <1>4 DEF IInv, TypeOK
  <2>2. QED
    BY <1>1, <1>4, <2>1, Arriving DEF IInv, TypeOK
<1>8. ChildInv'
  <2>1. ASSUME NEW c \in running' \cup closing'
        PROVE  /\ Fits(c)' /\ c.nr <= spawns'[c.req] /\ c.nr >= 1
               /\ c.step = "attr" => spawns'[c.req] <= NAttrs
    <3>1. CASE c = n
      BY <1>2, <1>4, <3>1, CountsAssumption DEF Fits
    <3>2. CASE c \in running \cup closing
      <4>1. c.req \in Requests /\ Fits(c) /\ c.req # r
        BY <1>2, <3>2 DEF IInv, TypeOK, ChildInv, Fits
      <4>2. Fits(c)'
        BY <1>2, <4>1 DEF Fits, Arrived
      <4>3. QED
        BY <1>4, <3>2, <4>1, <4>2 DEF IInv, ChildInv
    <3>3. QED
      BY <1>1, <1>3, <3>1, <3>2
  <2>2. \A q \in waiting' : Asks(q, "dice")'
    <3>1. \A q \in waiting : q \in Requests /\ Asks(q, "dice") /\ q # r
      BY <1>2 DEF IInv, TypeOK, ChildInv
    <3>2. QED
      BY <1>1, <1>2, <3>1 DEF Asks, Arrived
  <2>3. \A q \in Requests : ~Arrived(q)' => finals'[q] = 0 /\ spawns'[q] = 0
    BY <1>1, <1>2, <1>4 DEF IInv, ChildInv, Arrived
  <2>4. QED
    BY <1>1, <2>1, <2>2, <2>3 DEF IInv, ChildInv
<1>9. OnceInv'
  <2> SUFFICES ASSUME NEW q \in Requests, q \notin unspawned
               PROVE  /\ finals[q] <= 1
                      /\ finals[q] = 1 => Children(q)' = {} /\ q \notin waiting
                      /\ \A c, d \in Children(q)' : c = d
    BY <1>1 DEF OnceInv
  <2>1. CASE q = r
    BY <1>2, <1>6, <2>1
  <2>2. CASE q # r
    BY <1>6, <2>2 DEF IInv, OnceInv
  <2>3. QED
    BY <2>1, <2>2
<1>10. DiceInv'
  BY <1>1 DEF IInv, DiceInv
<1>11. QED
  BY <1>5, <1>7, <1>8, <1>9, <1>10, Entering DEF IInv

\* A request that starts no child: it is refused, has its lists, or waits for them.
Settles(r, a) ==
  /\ UNCHANGED <<spawns, running, words, copies>>
  /\ \/ /\ \E x \in {"fail", "over"} : Tells(r, x) /\ (x = "over" => a = "dice")
        /\ UNCHANGED waiting
        /\ UNCHANGED lists \/ lists' = [lists EXCEPT ![r] = copies]
     \/ /\ a = "dice" /\ copies = 0 /\ waiting' = waiting \cup {r}
        /\ UNCHANGED <<told, lists>>

LEMMA Settling ==
  ASSUME IInv, NEW r \in Requests, NEW b \in Browsers, NEW a \in Acts, NEW k \in Keys \cup {None},
         Arrives(r, b, a, k), Settles(r, a)
  PROVE  IInv'
<1>1. /\ UNCHANGED <<up, browsers, closing, secret, public, attrs, did, failed, unspawned, dropped,
           faults>>
      /\ UNCHANGED <<spawns, running, words, copies>>
  BY DEF Arrives, gpg, Settles
<1>2. /\ ~Arrived(r) /\ Arrived(r)' /\ req'[r].act = a /\ finals[r] = 0 /\ claims[r] = {}
           /\ spawns[r] = 0
      /\ Children(r) = {} /\ r \notin waiting
      /\ \A q \in Requests : q # r => req'[q] = req[q]
  BY Arriving
<1>3. /\ finals' \in [Requests -> Nat] /\ claims' \in [Requests -> SUBSET {"ok", "fail", "over"}]
      /\ \A q \in Requests : q # r => finals'[q] = finals[q] /\ claims'[q] = claims[q]
      /\ "ok" \notin claims'[r] /\ ("over" \in claims'[r] => a = "dice")
      /\ \/ finals'[r] = 1 /\ waiting' = waiting
         \/ finals'[r] = 0 /\ claims'[r] = {} /\ waiting' = waiting \cup {r} /\ a = "dice"
              /\ copies = 0
  <2>1. /\ finals \in [Requests -> Nat] /\ claims \in [Requests -> SUBSET {"ok", "fail", "over"}]
    BY DEF IInv, TypeOK
  <2>2. ASSUME NEW x \in {"fail", "over"}, Tells(r, x), x = "over" => a = "dice", UNCHANGED waiting
        PROVE  /\ finals' \in [Requests -> Nat]
                    /\ claims' \in [Requests -> SUBSET {"ok", "fail", "over"}]
               /\ \A q \in Requests : q # r => finals'[q] = finals[q] /\ claims'[q] = claims[q]
               /\ "ok" \notin claims'[r] /\ ("over" \in claims'[r] => a = "dice")
               /\ finals'[r] = 1 /\ waiting' = waiting
    <3>1. finals' = [finals EXCEPT ![r] = 1]
      BY <1>2, <2>1, <2>2 DEF Tells
    <3>2. claims' = [claims EXCEPT ![r] = {x}]
      BY <1>2, <2>1, <2>2 DEF Tells
    <3>3. QED
      BY <2>1, <2>2, <3>1, <3>2
  <2>3. CASE a = "dice" /\ copies = 0 /\ waiting' = waiting \cup {r} /\ UNCHANGED told
    BY <1>2, <2>1, <2>3 DEF told
  <2>4. QED
    BY <2>2, <2>3 DEF Settles, told
<1>4. lists' \in [Requests -> Nat] /\ \A q \in Requests : lists'[q] \in {lists[q], copies}
  BY DEF IInv, TypeOK, Settles
<1>5. Enters(r, a)
  BY <1>1, <1>3 DEF Enters
<1>6. \A q \in Requests : Children(q)' = Children(q)
  BY <1>1 DEF Children
<1>7. TypeOK'
  <2>1. waiting' \subseteq Requests
    BY <1>3 DEF IInv, TypeOK
  <2>2. QED
    BY <1>1, <1>3, <1>4, <2>1, Arriving DEF IInv, TypeOK
<1>8. ChildInv'
  <2>1. ASSUME NEW c \in running \cup closing
        PROVE  Fits(c)'
    <3>1. c.req \in Requests /\ Fits(c) /\ c.req # r
      BY <1>2 DEF IInv, TypeOK, ChildInv, Fits
    <3>2. QED
      BY <1>2, <3>1 DEF Fits, Arrived
  <2>2. \A q \in waiting' : Asks(q, "dice")'
    <3>1. \A q \in waiting : q \in Requests /\ Asks(q, "dice") /\ q # r
      BY <1>2 DEF IInv, TypeOK, ChildInv
    <3>2. \A q \in waiting : Asks(q, "dice")'
      BY <1>2, <3>1 DEF Asks, Arrived
    <3>3. waiting' # waiting => waiting' = waiting \cup {r} /\ Asks(r, "dice")'
      BY <1>2, <1>3 DEF Asks
    <3>4. QED
      BY <3>2, <3>3
  <2>3. \A q \in Requests : ~Arrived(q)' => finals'[q] = 0 /\ spawns'[q] = 0
    BY <1>1, <1>2, <1>3 DEF IInv, ChildInv, Arrived
  <2>4. \A q \in Requests : claims'[q] # {} => finals'[q] > 0
    BY <1>3 DEF IInv, ChildInv
  <2>5. QED
    BY <1>1, <2>1, <2>2, <2>3, <2>4 DEF IInv, ChildInv
<1>9. OnceInv'
  <2> SUFFICES ASSUME NEW q \in Requests, q \notin unspawned
               PROVE  /\ finals'[q] <= 1
                      /\ finals'[q] = 1 => Children(q) = {} /\ q \notin waiting'
                      /\ \A c, d \in Children(q) : c = d
    BY <1>1, <1>6 DEF OnceInv
  <2>1. CASE q = r
    BY <1>2, <1>3, <2>1
  <2>2. CASE q # r
    BY <1>3, <2>2 DEF IInv, OnceInv
  <2>3. QED
    BY <2>1, <2>2
<1>10. DiceInv'
  BY <1>1, <1>3, <1>4 DEF IInv, DiceInv
<1>11. QED
  BY <1>5, <1>7, <1>8, <1>9, <1>10, Entering DEF IInv

LEMMA Handling ==
  ASSUME IInv, NEW r \in Requests, NEW b \in Browsers, Handles(r, b)
  PROVE  IInv'
<1>1. ASSUME "reset" \in Acts, ResetYubikey(r, b) PROVE IInv'
  BY <1>1, Starting DEF ResetYubikey, Steps
<1>2. ASSUME "pin" \in Acts, ChangePin(r, b) PROVE IInv'
  BY <1>2, Starting DEF ChangePin, Steps
<1>3. ASSUME "delete" \in Acts, NEW k \in Keys, DeleteSecretKey(r, b, k) PROVE IInv'
  BY <1>3, Starting DEF DeleteSecretKey, Steps
<1>4. ASSUME "ascii" \in Acts, NEW k \in Keys, RequestAscii(r, b, k) PROVE IInv'
  <2>1. CASE Starts(r, "ascii")
    BY <1>4, <2>1, Starting DEF RequestAscii, Steps
  <2>2. CASE Tells(r, "fail") /\ UNCHANGED <<spawns, running, dice>>
    <3>1. Settles(r, "ascii")
      BY <2>2 DEF Settles, dice
    <3>2. QED
      BY <1>4, <3>1, Settling DEF RequestAscii
  <2>3. QED
    BY <1>4, <2>1, <2>2 DEF RequestAscii
<1>5. ASSUME "card" \in Acts, ChangeCard(r, b) PROVE IInv'
  <2>1. CASE Starts(r, "attr")
    BY <1>5, <2>1, Starting DEF ChangeCard, Steps
  <2>2. CASE Tells(r, "fail") /\ UNCHANGED <<spawns, running, dice>>
    <3>1. Settles(r, "card")
      BY <2>2 DEF Settles, dice
    <3>2. QED
      BY <1>5, <3>1, Settling DEF ChangeCard
  <2>3. QED
    BY <1>5, <2>1, <2>2 DEF ChangeCard
<1>6. ASSUME "dice" \in Acts, DiceWares(r, b) PROVE IInv'
  <2>1. copies \in Nat
    BY DEF IInv, TypeOK
  <2>2. Settles(r, "dice")
    BY <1>6, <2>1 DEF DiceWares, Settles, Cached
  <2>3. QED
    BY <1>6, <2>2, Settling DEF DiceWares
<1>7. QED
  BY <1>1, <1>2, <1>3, <1>4, <1>5, <1>6 DEF Handles

-----------------------------------------------------------------------------
(* Word lists and browsers. *)

LEMMA Listing ==
  ASSUME IInv, WordsLoaded \/ AddLists
  PROVE  IInv'
<1>1. /\ UNCHANGED <<up, browsers, req, spawns, running, closing, secret, public, attrs, did,
           failed, unspawned, faults>>
      /\ up /\ dropped \subseteq dropped'
  BY DEF WordsLoaded, AddLists, gpg
<1>2. \A q \in Requests : Children(q)' = Children(q)
  BY <1>1 DEF Children
<1>3. /\ \A q \in Requests : finals'[q] \in {finals[q], finals[q] + 1}
           /\ claims'[q] \subseteq claims[q] \cup {"over"}
      /\ \A q \in Requests \ waiting : finals'[q] = finals[q] /\ claims'[q] = claims[q]
      /\ \A q \in Requests : claims'[q] # {} => finals'[q] > 0
      /\ finals' \in [Requests -> Nat] /\ claims' \in [Requests -> SUBSET {"ok", "fail", "over"}]
      /\ waiting' \subseteq waiting /\ dropped' \subseteq dropped \cup waiting
      /\ \A q \in waiting' : finals'[q] = finals[q]
  <2>1. finals \in [Requests -> Nat] /\ claims \in [Requests -> SUBSET {"ok", "fail", "over"}]
    BY DEF IInv, TypeOK
  <2>2. \A q \in Requests : claims[q] # {} => finals[q] > 0
    BY DEF IInv, ChildInv
  <2>3. CASE WordsLoaded
    BY <2>1, <2>2, <2>3 DEF WordsLoaded, told
  <2>4. CASE AddLists
    <3> DEFINE answered == {r \in waiting : Here(r)}
    <3>1. /\ finals' = [r \in Requests |-> finals[r] + IF r \in answered THEN 1 ELSE 0]
          /\ claims' = [r \in Requests |-> claims[r] \cup IF r \in answered THEN {"over"} ELSE {}]
          /\ waiting' = {} /\ dropped' = dropped \cup (waiting \ answered)
      BY <2>4 DEF AddLists
    <3>2. answered \subseteq waiting
      OBVIOUS
    <3> HIDE DEF answered
    <3>3. \A q \in Requests : finals'[q] = finals[q] + (IF q \in answered THEN 1 ELSE 0)
            /\ finals'[q] \in Nat
      BY <2>1, <3>1
    <3>4. finals' \in [Requests -> Nat]
      BY <3>1, <3>3
    <3>5. claims' \in [Requests -> SUBSET {"ok", "fail", "over"}]
      BY <2>1, <3>1
    <3>6. \A q \in Requests : claims'[q] = claims[q] \cup IF q \in answered THEN {"over"} ELSE {}
      BY <3>1
    <3>7. ASSUME NEW q \in Requests, claims'[q] # {} PROVE finals'[q] > 0
      <4>1. finals[q] \in Nat /\ finals'[q] \in Nat
        BY <2>1, <3>3
      <4>2. CASE q \in answered
        BY <3>3, <4>1, <4>2
      <4>3. CASE q \notin answered
        <5>1. claims[q] # {}
          BY <3>6, <3>7, <4>3
        <5>2. finals'[q] = finals[q] + 0
          BY <3>3, <4>3
        <5>3. QED
          BY <2>2, <4>1, <5>1, <5>2
      <4>4. QED
        BY <4>2, <4>3
    <3>8. \A q \in Requests \ waiting : finals'[q] = finals[q] /\ claims'[q] = claims[q]
      <4>1. ASSUME NEW q \in Requests \ waiting PROVE finals'[q] = finals[q]
        <5>1. finals'[q] = finals[q] + 0 /\ finals[q] \in Nat
          BY <2>1, <3>2, <3>3
        <5>2. QED
          BY <5>1
      <4>2. ASSUME NEW q \in Requests \ waiting PROVE claims'[q] = claims[q]
        BY <3>2, <3>6
      <4>3. QED
        BY <4>1, <4>2
    <3>9. \A q \in Requests : finals'[q] \in {finals[q], finals[q] + 1}
            /\ claims'[q] \subseteq claims[q] \cup {"over"}
      <4>1. ASSUME NEW q \in Requests PROVE finals'[q] \in {finals[q], finals[q] + 1}
        BY <2>1, <3>3
      <4>2. ASSUME NEW q \in Requests PROVE claims'[q] \subseteq claims[q] \cup {"over"}
        BY <3>6
      <4>3. QED
        BY <4>1, <4>2
    <3>10. QED
      BY <3>1, <3>2, <3>4, <3>5, <3>7, <3>8, <3>9
  <2>5. QED
    BY <2>3, <2>4
<1>4. copies' \in Nat /\ lists' \in [Requests -> Nat] /\ words' \in BOOLEAN /\ DiceInv'
  <2>1. /\ copies \in Nat /\ lists \in [Requests -> Nat] /\ words \in BOOLEAN
        /\ waiting \subseteq Requests
    BY DEF IInv, TypeOK
  <2>2. CASE WordsLoaded
    BY <2>1, <2>2 DEF WordsLoaded, IInv, DiceInv
  <2>3. CASE AddLists
    <3>1. Cardinality(waiting) \in Nat
      BY <2>1, RequestsAssumption, FS_Subset, FS_CardinalityType
    <3>2. waiting # {} /\ copies = 0
      BY <2>3 DEF AddLists, IInv, DiceInv
    <3>3. copies' \in Nat /\ waiting' = {} /\ words' = words
      BY <2>1, <2>3, <3>1 DEF AddLists
    <3>4. lists' \in [Requests -> Nat] /\ \A r \in Requests : lists'[r] \in {copies', lists[r]}
      BY <2>1, <2>3, <3>3 DEF AddLists
    <3>5. \A r \in Requests : lists[r] = 0
      BY <3>2 DEF IInv, DiceInv
    <3>6. QED
      BY <2>1, <3>3, <3>4, <3>5 DEF DiceInv
  <2>4. QED
    BY <2>2, <2>3
<1>5. TypeOK'
  BY <1>1, <1>3, <1>4 DEF IInv, TypeOK
<1>6. ChildInv'
  <2>1. \A c \in running \cup closing : Fits(c)'
    BY <1>1 DEF IInv, ChildInv, Fits, Arrived
  <2>2. \A q \in waiting' : Asks(q, "dice")'
    BY <1>1, <1>3 DEF IInv, ChildInv, Asks, Arrived
  <2>3. \A q \in Requests : ~Arrived(q)' => q \notin waiting
    BY <1>1 DEF IInv, ChildInv, Asks, Arrived
  <2>4. \A q \in Requests : ~Arrived(q)' => finals'[q] = 0 /\ spawns'[q] = 0
    BY <1>1, <1>3, <2>3 DEF IInv, ChildInv, Arrived
  <2>5. QED
    BY <1>1, <1>3, <2>1, <2>2, <2>4 DEF IInv, ChildInv
<1>7. OnceInv'
  <2> SUFFICES ASSUME NEW q \in Requests, q \notin unspawned
               PROVE  /\ finals'[q] <= 1
                      /\ finals'[q] = 1 => Children(q) = {} /\ q \notin waiting'
                      /\ \A c, d \in Children(q) : c = d
    BY <1>1, <1>2 DEF OnceInv
  <2>1. /\ finals[q] \in Nat /\ finals[q] <= 1
             /\ (finals[q] = 1 => Children(q) = {} /\ q \notin waiting)
        /\ \A c, d \in Children(q) : c = d
    BY DEF IInv, TypeOK, OnceInv
  <2>2. CASE q \notin waiting
    BY <1>3, <2>1, <2>2
  <2>3. CASE q \in waiting
    <3>1. Children(q) = {}
      BY <2>3 DEF IInv, ChildInv, Fits, Asks, Children
    <3>2. finals[q] = 0
      BY <2>1, <2>3
    <3>3. QED
      BY <1>3, <2>1, <3>1, <3>2
  <2>4. QED
    BY <2>2, <2>3
<1>8. CardInv'
  <2>1. \A q \in Requests : Asks(q, "card") => q \notin waiting
    BY DEF IInv, ChildInv, Asks
  <2>2. QED
    BY <1>1, <1>2, <1>3, <2>1 DEF IInv, CardInv, Asks, Arrived
<1>9. PinHonest' /\ ClaimsDone' /\ DownForAReason'
  BY <1>1, <1>3 DEF IInv, PinHonest, ClaimsDone, DownForAReason, Asks, Arrived
<1>10. NotHalfDeleted'
  BY <1>1, <1>2 DEF IInv, NotHalfDeleted, Asks, Arrived
<1>11. QED
  BY <1>4, <1>5, <1>6, <1>7, <1>8, <1>9, <1>10 DEF IInv

LEMMA Leaving ==
  ASSUME IInv, UNCHANGED vars \/ \E b \in Browsers : Disconnect(b)
  PROVE  IInv'
<1>1. /\ UNCHANGED <<up, req, spawns, running, closing, finals, claims, waiting, words, copies,
           lists>>
      /\ UNCHANGED <<secret, public, attrs, did, failed, unspawned, dropped, faults>>
      /\ browsers' \subseteq browsers
  BY DEF vars, Disconnect, told, dice, gpg
<1>2. TypeOK'
  BY <1>1 DEF IInv, TypeOK
<1>3. ChildInv' /\ OnceInv' /\ DiceInv'
  BY <1>1 DEF IInv, ChildInv, OnceInv, DiceInv, Fits, Asks, Arrived, Children
<1>4. CardInv' /\ PinHonest' /\ ClaimsDone' /\ NotHalfDeleted'
  BY <1>1 DEF IInv, CardInv, PinHonest, ClaimsDone, NotHalfDeleted, Asks, Arrived, Children
<1>5. DownForAReason'
  BY <1>1 DEF IInv, DownForAReason, Asks, Arrived, Here
<1>6. QED
  BY <1>2, <1>3, <1>4, <1>5 DEF IInv

-----------------------------------------------------------------------------
(* Theorems. *)

LEMMA Invariant == Spec => []IInv
<1>1. IInv /\ [Next]_vars => IInv'
  <2> SUFFICES ASSUME IInv, [Next]_vars PROVE IInv'
    OBVIOUS
  <2>1. CASE \E r \in Requests, b \in Browsers : Handles(r, b)
    BY <2>1, Handling
  <2>2. CASE (\E c \in running : Ends(c) \/ SpawnFails(c)) \/ \E c \in closing : Closes(c)
    BY <2>2, CallsBack
  <2>3. CASE WordsLoaded \/ AddLists
    BY <2>3, Listing
  <2>4. CASE UNCHANGED vars \/ \E b \in Browsers : Disconnect(b)
    BY <2>4, Leaving
  <2>5. QED
    BY <2>1, <2>2, <2>3, <2>4 DEF Next
<1>2. QED
  BY Start, <1>1, PTL DEF Spec

\* Every variable has its type in every state of the server.
THEOREM TypeCorrect == Spec => []TypeOK
<1>1. IInv => TypeOK
  BY DEF IInv
<1>2. QED
  BY Invariant, <1>1, PTL

\* Whatever the order in which children of other requests end, browsers go and lists
\* load: the callbacks tell a browser the end once, and nothing of the request is
\* left then.
THEOREM EndsOnce == Spec => []ToldOnce
<1>1. IInv => ToldOnce
  BY DEF IInv, OnceInv, ToldOnce
<1>2. QED
  BY Invariant, <1>1, PTL

\* Half a key is left only by a deletion that still goes on, that failed, that lost
\* its browser, or whose server went down.
THEOREM HalfAKeyHasAReason == Spec => []NotHalfDeleted
<1>1. IInv => NotHalfDeleted
  BY DEF IInv
<1>2. QED
  BY Invariant, <1>1, PTL

\* The server survives everything but a gpg that cannot be started for a deletion
\* or for a browser that is gone.
THEOREM GoesDownForAReason == Spec => []DownForAReason
<1>1. IInv => DownForAReason
  BY DEF IInv
<1>2. QED
  BY Invariant, <1>1, PTL

\* All browsers are sent the same dice ware lists.
THEOREM AllGetTheSame == Spec => []SameLists
<1>1. IInv => SameLists
  BY DEF IInv, DiceInv, SameLists
<1>2. QED
  BY Invariant, <1>1, PTL

\* What a browser is told of pins, cards, resets and deletions is true, unless a
\* child of that very request failed; for a pin even then.
THEOREM TellsTheTruth == Spec => []ToldTrue
<1>1. IInv => CardWritten
  BY DEF IInv, CardInv, CardWritten
<1>2. IInv => ToldTrue
  BY <1>1 DEF IInv, ToldTrue
<1>3. QED
  BY Invariant, <1>2, PTL
=============================================================================
