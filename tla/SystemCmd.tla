------------------------------ MODULE SystemCmd ------------------------------
(***************************************************************************)
(* SystemCmd::run of the PAM module: fork a child, feed its stdin, collect *)
(* its stdout and stderr and wait for SIGCHLD, all as handlers of one      *)
(* io_service (DuringExec) that stops when each pipe and the signal have   *)
(* reported, or at once when a pipe fails.  A command with a retry action  *)
(* is run once more after a non-zero exit code.                            *)
(*                                                                         *)
(* Data is counted in chunks.  The process may have other children, which  *)
(* raise SIGCHLD too, and ignores SIGPIPE.  A command with a pipe of its   *)
(* own is not retried here: the descriptors of that pipe are closed by     *)
(* then, and what their numbers stand for is undefined.                    *)
(***************************************************************************)
EXTENDS Integers, FiniteSets

CONSTANTS
  Stdin, Stdout, Stderr,
  ExtraIn,     \* pipes added with toChildPipe
  Size,        \* Size[p]: chunks to be written to pipe p
  Retries,     \* the command has a retry action
  MaxOut,      \* bound: chunks a child that does what it likes writes to a pipe
  Cap,         \* chunks that fit into a pipe
  MaxForeign   \* bound: deaths of other children

InPipes == {Stdin} \cup ExtraIn
OutPipes == {Stdout, Stderr}
Pipes == InPipes \cup OutPipes

ASSUME PipesAssumption ==
  /\ IsFiniteSet(ExtraIn) /\ Stdout # Stderr
  /\ Stdin \notin OutPipes \cup ExtraIn /\ ExtraIn \cap OutPipes = {}
ASSUME SizeAssumption == Size \in [InPipes -> Nat]
ASSUME RetriesAssumption == Retries \in BOOLEAN /\ (Retries => ExtraIn = {})
ASSUME BoundsAssumption ==
  MaxOut \in Nat /\ MaxForeign \in Nat /\ Cap \in Nat \ {0}

VARIABLES
  attempt,    \* argument retry of run
  phase,      \* "ready", "running" (io_service.run), "stopped", "returned"
  completed,  \* DuringExec.completed
  forced,     \* handle_completed was called with force
  reader,     \* reader[p]: "reading" or "eof"
  got,        \* got[p]: chunks read from p
  writer,     \* writer[p]: "writing" or "closed"
  sent,       \* sent[p]: chunks written to p
  sinEof,     \* the eof bit of the stream sin
  armed,      \* async_wait for SIGCHLD is pending
  raised,     \* a SIGCHLD waits for that
  exitCode,   \* SystemResult.exitCode
  ok,         \* SystemResult.ok
  child,      \* "none", "running", "exited", "killed" or, reaped, "gone" (external)
  code,       \* its exit code (external)
  program,    \* what the child runs, see Programs (external)
  holds,      \* pipes the child has open (external)
  lingers,    \* pipes a grandchild has open (external)
  buf,        \* chunks in each pipe (external)
  produced,   \* chunks the child wrote (external)
  consumed,   \* chunks the child read (external)
  straggler,  \* the child of the first attempt still runs (external)
  foreign     \* deaths of other children so far (external)

mother == <<attempt, sinEof, exitCode, ok>>
ends == <<reader, got, writer, sent>>
proc == <<child, code, program, holds, lingers>>
data == <<buf, produced, consumed>>
others == <<straggler, foreign>>
vars == <<mother, phase, completed, forced, ends, armed, raised, proc, data, others>>

-----------------------------------------------------------------------------
Total == 1 + Cardinality(Pipes)

\* handle_completed: stop when everything has reported, or when forced.
HandleCompleted(n, force) ==
  /\ completed' = completed + n
  /\ forced' = force
  /\ phase' = IF completed' >= Total \/ force THEN "stopped" ELSE phase

\* The action of pipe p has a chunk after n chunks.
HasChunk(p, n) == n < Size[p] /\ ~(p = Stdin /\ n = 0 /\ sinEof)

\* Reading the n-th chunk of sin, the last one short, sets its eof bit.
ReadsSin(n) == sinEof \/ n + 1 >= Size[Stdin]

\* A child does what it likes, is a filter that writes two chunks for each it
\* reads and ends with its input, or could not be executed.
Programs == {"any", "filter", "none"}
execOk == program # "none"
Filters == program = "filter"

HeldByOthers(p) == p \in holds \cup lingers

\* The text an exec that failed leaves on both outputs, and its code.
IsExecError == exitCode = 42 /\ ~execOk /\ got[Stdout] = 1 /\ got[Stderr] = 1

-----------------------------------------------------------------------------
Init ==
  /\ attempt = 0 /\ phase = "ready" /\ sinEof = FALSE /\ ok = FALSE
  /\ completed = 0 /\ forced = FALSE
  /\ reader = [p \in OutPipes |-> "reading"] /\ got = [p \in OutPipes |-> 0]
  /\ writer = [p \in InPipes |-> "writing"] /\ sent = [p \in InPipes |-> 0]
  /\ armed = TRUE /\ raised = FALSE /\ exitCode = -1
  /\ child = "none" /\ code = -1 /\ program = "any" /\ holds = {} /\ lingers = {}
  /\ buf = [p \in Pipes |-> 0]
  /\ produced = [p \in OutPipes |-> 0] /\ consumed = [p \in InPipes |-> 0]
  /\ straggler = FALSE /\ foreign = 0

\* A pipe cannot be created.
NoPipe ==
  /\ phase = "ready"
  /\ phase' = "returned"
  /\ UNCHANGED <<mother, completed, forced, ends, armed, raised, proc, data, others>>

\* Everything up to io_service.run: fork, and the first chunk for every pipe.
Launch ==
  LET empty == {p \in InPipes : ~HasChunk(p, 0)} IN
  /\ phase = "ready"
  /\ \/ child' = "running" /\ holds' = Pipes /\ program' \in Programs
     \/ child' = "none" /\ UNCHANGED <<holds, program>>
  /\ writer' = [p \in InPipes |-> IF p \in empty THEN "closed" ELSE "writing"]
  /\ sinEof' = ReadsSin(0)
  /\ completed' = Cardinality(empty)
  /\ phase' = "running"
  /\ UNCHANGED <<attempt, exitCode, ok, forced, reader, got, sent, armed, raised,
                 code, lingers, data, others>>

\* Mutant: nothing is read until stdin is written.
ReadSomeAfterStdin(p) ==
  /\ phase = "running" /\ reader[p] = "reading" /\ buf[p] > 0
  /\ writer[Stdin] = "closed"
  /\ buf' = [buf EXCEPT ![p] = @ - 1]
  /\ got' = [got EXCEPT ![p] = @ + 1]
  /\ UNCHANGED <<mother, phase, completed, forced, reader, writer, sent, armed, raised,
                 proc, produced, consumed, others>>

\* The read handler got a chunk and reads on.
ReadSome(p) ==
  /\ phase = "running" /\ reader[p] = "reading" /\ buf[p] > 0
  /\ buf' = [buf EXCEPT ![p] = @ - 1]
  /\ got' = [got EXCEPT ![p] = @ + 1]
  /\ UNCHANGED <<mother, phase, completed, forced, reader, writer, sent, armed, raised,
                 proc, produced, consumed, others>>

\* Mutant: a pipe is at its end when it is empty.
ReadEofEmpty(p) ==
  /\ phase = "running" /\ reader[p] = "reading" /\ buf[p] = 0
  /\ reader' = [reader EXCEPT ![p] = "eof"]
  /\ HandleCompleted(1, FALSE)
  /\ UNCHANGED <<mother, got, writer, sent, armed, raised, proc, data, others>>

\* The read handler is at the end: the pipe is empty and nobody can write to it.
ReadEof(p) ==
  /\ phase = "running" /\ reader[p] = "reading" /\ buf[p] = 0 /\ ~HeldByOthers(p)
  /\ reader' = [reader EXCEPT ![p] = "eof"]
  /\ HandleCompleted(1, FALSE)
  /\ UNCHANGED <<mother, got, writer, sent, armed, raised, proc, data, others>>

\* The write handler: a chunk is in the pipe, and the next one follows or the
\* pipe is closed.
Written(p) ==
  LET n == sent[p] + 1 IN
  /\ phase = "running" /\ writer[p] = "writing" /\ HeldByOthers(p) /\ buf[p] < Cap
  /\ buf' = [buf EXCEPT ![p] = @ + 1]
  /\ sent' = [sent EXCEPT ![p] = n]
  /\ sinEof' = IF p = Stdin THEN ReadsSin(n) ELSE sinEof
  /\ IF HasChunk(p, n)
     THEN UNCHANGED <<writer, completed, forced, phase>>
     ELSE writer' = [writer EXCEPT ![p] = "closed"] /\ HandleCompleted(1, FALSE)
  /\ UNCHANGED <<attempt, exitCode, ok, reader, got, armed, raised, proc, produced,
                 consumed, others>>

\* Nobody reads the pipe any more: the whole command is stopped.
WriteFails(p) ==
  /\ phase = "running" /\ writer[p] = "writing" /\ ~HeldByOthers(p)
  /\ writer' = [writer EXCEPT ![p] = "closed"]
  /\ HandleCompleted(1, TRUE)
  /\ UNCHANGED <<mother, reader, got, sent, armed, raised, proc, data, others>>

\* Mutant: a handler that takes every SIGCHLD for the death of the child.
ExitCodeGuessed == IF child = "exited" THEN code ELSE 0

\* waitpid with WNOHANG and WEXITED: only a child that ended by itself has a code.
ExitCodeSeen == IF child = "exited" THEN code ELSE exitCode

\* The handler of SIGCHLD, which is never armed again.  Whose SIGCHLD it was is
\* not looked at.  Without a child it does nothing.
SigChild ==
  /\ phase = "running" /\ armed /\ raised
  /\ armed' = FALSE /\ raised' = FALSE
  /\ IF child = "none"
     THEN UNCHANGED <<exitCode, child, phase, completed, forced>>
     ELSE /\ exitCode' = ExitCodeSeen
          /\ child' = IF child \in {"exited", "killed"} THEN "gone" ELSE child
          /\ HandleCompleted(1, FALSE)
  /\ UNCHANGED <<attempt, sinEof, ok, ends, code, program, holds, lingers, data, others>>

\* io_service.run has nothing left to wait for.
OutOfWork ==
  /\ phase = "running" /\ ~armed
  /\ \A p \in OutPipes : reader[p] = "eof"
  /\ \A p \in InPipes : writer[p] = "closed"
  /\ phase' = "stopped"
  /\ UNCHANGED <<mother, completed, forced, ends, armed, raised, proc, data, others>>

\* Mutant: a command is also run again when it went well.
MayRetryAlways == attempt = 0 /\ Retries

\* The retry action wants another attempt: a non-zero exit code, at first.
MayRetry == attempt = 0 /\ Retries /\ exitCode # 0

\* run returns its result, also if gpgagent_start failed before a retry.
Return ==
  /\ phase = "stopped"
  /\ phase' = "returned"
  /\ ok' = ~IsExecError
  /\ UNCHANGED <<attempt, sinEof, exitCode, completed, forced, ends, armed, raised,
                 proc, data, others>>

\* run calls itself once more, after gpgagent_start went well.  What is left of
\* the first attempt is its child, if that still runs, and the stream sin.
Again ==
  /\ phase = "stopped" /\ MayRetry
  /\ phase' = "ready" /\ attempt' = attempt + 1
  /\ straggler' = (straggler \/ child = "running")
  /\ completed' = 0 /\ forced' = FALSE
  /\ reader' = [p \in OutPipes |-> "reading"] /\ got' = [p \in OutPipes |-> 0]
  /\ writer' = [p \in InPipes |-> "writing"] /\ sent' = [p \in InPipes |-> 0]
  /\ armed' = TRUE /\ raised' = FALSE /\ exitCode' = -1
  /\ child' = "none" /\ code' = -1 /\ program' = "any" /\ holds' = {} /\ lingers' = {}
  /\ buf' = [p \in Pipes |-> 0]
  /\ produced' = [p \in OutPipes |-> 0] /\ consumed' = [p \in InPipes |-> 0]
  /\ UNCHANGED <<sinEof, ok, foreign>>

-----------------------------------------------------------------------------
(***************************************************************************)
(* The child and its relatives (external).                                 *)
(***************************************************************************)

ChildIO == child = "running" /\ phase \in {"running", "stopped"}

\* What the child may write now.  One that failed to exec says so on both
\* outputs.
MayWrite(p) ==
  /\ p \in holds \cap OutPipes /\ buf[p] < Cap
  /\ CASE program = "none" -> produced[p] = 0
       [] program = "filter" -> p = Stdout /\ produced[p] < 2 * consumed[Stdin]
       [] program = "any" -> produced[p] < MaxOut

ChildWrites(p) ==
  /\ ChildIO /\ MayWrite(p)
  /\ buf' = [buf EXCEPT ![p] = @ + 1]
  /\ produced' = [produced EXCEPT ![p] = @ + 1]
  /\ UNCHANGED <<mother, phase, completed, forced, ends, armed, raised, proc, consumed, others>>

ChildReads(p) ==
  /\ ChildIO /\ execOk /\ p \in holds /\ buf[p] > 0
  /\ Filters /\ p = Stdin => produced[Stdout] = 2 * consumed[Stdin]
  /\ buf' = [buf EXCEPT ![p] = @ - 1]
  /\ consumed' = [consumed EXCEPT ![p] = @ + 1]
  /\ UNCHANGED <<mother, phase, completed, forced, ends, armed, raised, proc, produced, others>>

\* A daemon closes its pipes and runs on.
ChildCloses(p) ==
  /\ ChildIO /\ program = "any" /\ p \in holds
  /\ holds' = holds \ {p}
  /\ UNCHANGED <<mother, phase, completed, forced, ends, armed, raised, child, code,
                 program, lingers, data, others>>

\* It leaves a process behind that has its pipes.
ChildForks ==
  /\ ChildIO /\ program = "any" /\ holds # {} /\ lingers = {}
  /\ lingers' = holds
  /\ UNCHANGED <<mother, phase, completed, forced, ends, armed, raised, child, code,
                 program, holds, data, others>>

GrandchildEnds ==
  /\ lingers # {}
  /\ lingers' = {}
  /\ UNCHANGED <<mother, phase, completed, forced, ends, armed, raised, child, code,
                 program, holds, data, others>>

\* The child may end now.
MayEnd ==
  IF ~execOk THEN \A p \in OutPipes : produced[p] = 1
  ELSE Filters => /\ buf[Stdin] = 0 /\ produced[Stdout] = 2 * consumed[Stdin]
                  /\ writer[Stdin] = "closed" \/ phase # "running"

Dies(state, c) ==
  /\ child = "running"
  /\ child' = state /\ code' = c /\ holds' = {} /\ raised' = (phase = "running" \/ raised)
  /\ UNCHANGED <<mother, phase, completed, forced, ends, armed, program, lingers, data, others>>

ChildExits ==
  /\ MayEnd
  /\ \E c \in IF execOk THEN {0, 1, 42} ELSE {42} : Dies("exited", c)

ChildKilled == program = "any" /\ Dies("killed", -1)

\* SIGCHLD for another child of the process, or for the child when it is stopped.
ForeignDies ==
  /\ foreign < MaxForeign
  /\ foreign' = foreign + 1 /\ raised' = (phase = "running" \/ raised)
  /\ UNCHANGED <<mother, phase, completed, forced, ends, armed, proc, data, straggler>>

StragglerDies ==
  /\ straggler
  /\ straggler' = FALSE /\ raised' = (phase = "running" \/ raised)
  /\ UNCHANGED <<mother, phase, completed, forced, ends, armed, proc, data, foreign>>

-----------------------------------------------------------------------------
Handler ==
  \/ \E p \in OutPipes : ReadSome(p) \/ ReadEof(p)
  \/ \E p \in InPipes : Written(p) \/ WriteFails(p)
  \/ SigChild \/ OutOfWork

Mother == NoPipe \/ Launch \/ Handler \/ Return \/ Again

ChildStep ==
  \/ \E p \in OutPipes : ChildWrites(p)
  \/ \E p \in InPipes : ChildReads(p)

Outside ==
  \/ \E p \in Pipes : ChildCloses(p)
  \/ ChildForks \/ ChildKilled \/ ForeignDies

Next == Mother \/ ChildStep \/ ChildExits \/ GrandchildEnds \/ StragglerDies \/ Outside

Spec == Init /\ [][Next]_vars

\* The io_service serves every handler; children work and end.
Fairness ==
  /\ \A p \in OutPipes : WF_vars(ReadSome(p)) /\ WF_vars(ReadEof(p))
  /\ \A p \in InPipes : WF_vars(Written(p)) /\ WF_vars(WriteFails(p))
  /\ WF_vars(SigChild) /\ WF_vars(OutOfWork)
  /\ WF_vars(ChildStep) /\ WF_vars(ChildExits) /\ WF_vars(GrandchildEnds)

FairSpec == Spec /\ Fairness
-----------------------------------------------------------------------------
(***************************************************************************)
(* Properties.                                                             *)
(***************************************************************************)

\* Every variable has its type; there are two attempts at most.
TypeOK ==
  /\ attempt \in 0 .. 1 /\ phase \in {"ready", "running", "stopped", "returned"}
  /\ completed \in 0 .. Total /\ forced \in BOOLEAN
  /\ sinEof \in BOOLEAN /\ armed \in BOOLEAN /\ raised \in BOOLEAN /\ ok \in BOOLEAN
  /\ reader \in [OutPipes -> {"reading", "eof"}] /\ got \in [OutPipes -> Nat]
  /\ writer \in [InPipes -> {"writing", "closed"}] /\ sent \in [InPipes -> Nat]
  /\ exitCode \in {-1, 0, 1, 42} /\ code \in {-1, 0, 1, 42}
  /\ child \in {"none", "running", "exited", "killed", "gone"}
  /\ program \in Programs /\ straggler \in BOOLEAN
  /\ holds \subseteq Pipes /\ lingers \subseteq Pipes
  /\ buf \in [Pipes -> 0 .. Cap]
  /\ produced \in [OutPipes -> Nat] /\ consumed \in [InPipes -> Nat]
  /\ foreign \in 0 .. MaxForeign

\* The io_service ran and was not stopped by a pipe that failed.
RanToTheEnd == phase \in {"stopped", "returned"} /\ completed > 0 /\ ~forced

\* The io_service does not stop early: each pipe is at its end and SIGCHLD was
\* handled, no matter in which order the handlers came.
StopsWhenDone ==
  RanToTheEnd => /\ \A p \in OutPipes : reader[p] = "eof"
                 /\ \A p \in InPipes : writer[p] = "closed"
                 /\ ~armed

\* The result holds all the child and its relatives ever write, though SIGCHLD
\* may come before the last output; the child was offered its input whole, or
\* nothing of it, which happens in the second attempt, when sin was read before.
OutputComplete ==
  RanToTheEnd => /\ \A p \in OutPipes : got[p] = produced[p] /\ ~HeldByOthers(p)
                 /\ \A p \in InPipes : sent[p] = Size[p] \/ (attempt = 1 /\ sent[p] = 0)

\* An exit code in the result is the one the child ended with, also when other
\* children of the process die meanwhile.
ExitCodeHonest == exitCode # -1 => child = "gone" /\ exitCode = code

\* A command that went well is run again only if a pipe failed, or if another
\* child died meanwhile and took the only wait for SIGCHLD.
SuccessIsFinal ==
  [][attempt' # attempt /\ child \in {"exited", "gone"} /\ code = 0
       => forced \/ (child = "exited" /\ foreign > 0)]_vars

\* What the test 'not launched' says: no execution, no ok.
NotLaunchedIsNotOk == phase = "returned" /\ ~execOk => ~ok

\* A run that could fork ends: nobody waits for a pipe the other side waits with,
\* and no signal is waited for in vain.  One that could not ends if it has input,
\* since the write of it fails; without input it waits for a SIGCHLD for ever.
RunEnds ==
  phase = "running" /\ (child # "none" \/ \E p \in InPipes : writer[p] = "writing")
    ~> phase # "running"
=============================================================================
