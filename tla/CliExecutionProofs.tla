-------------------------- MODULE CliExecutionProofs --------------------------
(***************************************************************************)
(* Proofs about CliExecution for every length of the answer, every cap and *)
(* every way in which the output is cut into writes.                       *)
(***************************************************************************)
EXTENDS CliExecution, TLAPS

Process == [agent : {"none", "claude", "codex", "adapter"},
            purpose : {"none", "run", "task", "probe"}, pc : {"none", "running", "exited"}, status : {"none", "ok", "error"}]
Output == [written : 0 .. Size, read : Nat, kept : Nat, truncated : BOOLEAN]

CliTypeOK == cli \in Process /\ output \in Output

ReadIsWritten == output.read <= output.written

\* What has been read is kept, as long as nothing was cut.
KeptIsRead == ~ output.truncated => output.kept = output.read

\* A configured adapter serves planning runs, and only what has exited has a status.
ProcessIsSound ==
  /\ cli.agent = "adapter" => cli.purpose = "run"
  /\ cli.pc = "exited" <=> cli.status # "none"

\* Before there is a result, the copy of a pipe has ended because it was complete,
\* or because the process was killed.
CopyIsComplete ==
  cli.pc = "exited" /\ ~ copying /\ result = Pending /\ cli.agent # "codex"
    => cli.status = "error" \/ output.read = output.written

\* Only a process that has exited succeeds, and it is listened to while it runs, and
\* not before or after.
RunsInOrder ==
  /\ result # Pending \/ cli.pc = "none" => ~ copying
  /\ result = "success" => cli.pc = "exited"
  /\ cli.pc = "running" => copying

\* The inductive invariant.
CliInv ==
  /\ CliTypeOK
  /\ ReadIsWritten
  /\ KeptIsRead
  /\ ProcessIsSound
  /\ CopyIsComplete
  /\ RunsInOrder
  /\ SuccessIsWhole

-----------------------------------------------------------------------------
\* A write keeps at most what it is given, and all of it unless it sets the flag
\* (boundedWriter.Write).
LEMMA WriteKeeps ==
  ASSUME CliTypeOK, ReadIsWritten, KeptIsRead, NEW n \in 1 .. output.written - output.read,
         output' = BoundedWrite([output EXCEPT !.read = @ + n], n)
  PROVE  /\ output' \in Output
         /\ output'.written = output.written
         /\ output'.read <= output'.written
         /\ ~ output'.truncated => output'.kept = output'.read
<1>1. Cap \in Nat
  BY CliExecutionAssumption DEF Cap
<1> DEFINE out == [output EXCEPT !.read = @ + n]
<1>2. /\ out.written = output.written
      /\ out.read = output.read + n
      /\ out.kept = output.kept
      /\ out.truncated = output.truncated
  BY DEF CliTypeOK, Output, ReadIsWritten
<1>3. output.read + n \in Nat /\ output.read + n <= output.written
  BY CliExecutionAssumption DEF CliTypeOK, Output, ReadIsWritten
<1>4. out \in Output
  BY <1>3 DEF CliTypeOK, Output, ReadIsWritten
<1>5. output' = BoundedWrite(out, n)
  OBVIOUS
<1> HIDE DEF out
<1>6. CASE ~ out.truncated /\ n <= Cap - out.kept
  <2>1. output' = [out EXCEPT !.kept = @ + n]
    BY <1>5, <1>6 DEF BoundedWrite
  <2> QED
    BY <1>2, <1>3, <1>4, <1>6, <2>1 DEF KeptIsRead, Output
<1>7. CASE ~ (~ out.truncated /\ n <= Cap - out.kept)
  <2>1. output' = [out EXCEPT !.kept = IF out.truncated THEN @ ELSE Cap, !.truncated = TRUE]
    BY <1>5, <1>7 DEF BoundedWrite
  <2> QED
    BY <1>1, <1>2, <1>3, <1>4, <2>1 DEF Output
<1> QED
  BY <1>6, <1>7

\* Success has no error and, but for a probe, no cut, and every result is one.
LEMMA ResultsAreSound ==
  ASSUME NEW status,
         NEW r \in IF cli.agent = "adapter" THEN AdapterResults(status) ELSE Results(status)
  PROVE  /\ r # Pending
         /\ r = "success" =>
              status # "error" /\ (cli.agent = "adapter" \/ cli.purpose # "probe" => ~ output.truncated)
  BY CliExecutionAssumption DEF Results, AdapterResults

LEMMA InitInv == CliInit => CliInv
<1> SUFFICES ASSUME CliInit PROVE CliInv
  OBVIOUS
<1>1. cli \in Process
  BY DEF CliInit, NoCli, Process
<1>2. output \in Output
  BY CliExecutionAssumption DEF CliInit, Output
<1>3. result # "success" /\ ~ copying
  BY CliExecutionAssumption DEF CliInit
<1> QED
  BY <1>1, <1>2, <1>3 DEF CliInit, NoCli, CliInv, CliTypeOK, ReadIsWritten, KeptIsRead, ProcessIsSound, CopyIsComplete,
         RunsInOrder, SuccessIsWhole

\* Every step preserves the invariant.
LEMMA StepInv == CliInv /\ [CliNext]_cliVars => CliInv'
<1> SUFFICES ASSUME CliInv, [CliNext]_cliVars PROVE CliInv'
  OBVIOUS
<1> USE CliExecutionAssumption
<1>1. CASE UNCHANGED cliVars
  <2>1. CliTypeOK'
    <3>1. cli' \in Process
      BY <1>1 DEF cliVars, CliInv, CliTypeOK, Process
    <3>2. output' \in Output
      BY <1>1 DEF cliVars, CliInv, CliTypeOK, Output
    <3> QED
      BY <3>1, <3>2 DEF CliTypeOK
  <2> QED
    BY <1>1, <2>1
       DEF cliVars, CliInv, CliTypeOK, Process, Output, ReadIsWritten, KeptIsRead, ProcessIsSound,
           CopyIsComplete, RunsInOrder, SuccessIsWhole
<1>2. CASE Invoke
  <2>1. PICK agent \in {"claude", "codex", "adapter", "error"}, purpose \in {"run", "task", "probe"} :
          /\ cli.pc = "none" /\ result = Pending
          /\ agent = "adapter" => purpose = "run"
          /\ \/ /\ agent # "error"
                /\ cli' = [agent |-> agent, purpose |-> purpose, pc |-> "running", status |-> "none"]
                /\ copying' = TRUE
                /\ UNCHANGED result
             \/ result' = "failed" /\ UNCHANGED <<cli, copying>>
          /\ UNCHANGED <<output, held, context, signal>>
    <3>1. \A provider, env \in Agents \cup {Unset}, command \in BOOLEAN, named \in Agents,
             path \in SUBSET Agents :
            Resolve(provider, command, named, env, path) \in {"claude", "codex", "error"}
      BY DEF Resolve, Agents, Unset
    <3>2. PICK provider, env \in Agents \cup {Unset}, command, configured \in BOOLEAN,
               named \in Agents, path \in SUBSET Agents, purpose \in {"run", "task", "probe"} :
            Invoke!(provider, env, command, configured, named, path, purpose)
      BY <1>2 DEF Invoke
    <3> DEFINE a == IF configured THEN "adapter"
                    ELSE Resolve(provider, command, named, env, path)
    <3>3. /\ a \in {"claude", "codex", "adapter", "error"}
          /\ a = "adapter" => configured
      BY <3>1
    <3> HIDE DEF a
    <3> QED
      BY <3>2, <3>3 DEF a
  <2>2. cli' \in Process
    BY <2>1 DEF CliInv, CliTypeOK, Process
  <2>3. output' \in Output /\ result' # "success"
    BY <2>1 DEF CliInv, CliTypeOK
  <2> QED
    BY <2>1, <2>2, <2>3
       DEF CliInv, CliTypeOK, ReadIsWritten, KeptIsRead, ProcessIsSound, CopyIsComplete, RunsInOrder,
           SuccessIsWhole
<1>3. CASE CliWrites
  <2>1. CliTypeOK'
    <3>1. cli' \in Process
      BY <1>3 DEF CliWrites, Running, CliInv, CliTypeOK, Process
    <3>2. output' \in Output
      BY <1>3 DEF CliWrites, Running, CliInv, CliTypeOK, Output
    <3> QED
      BY <3>1, <3>2 DEF CliTypeOK
  <2> QED
    BY <1>3, <2>1
       DEF CliWrites, Running, CliInv, CliTypeOK, Process, Output, ReadIsWritten, KeptIsRead, ProcessIsSound,
           CopyIsComplete, RunsInOrder, SuccessIsWhole
<1>4. CASE CliExits
  <2>1. CliTypeOK'
    <3>1. cli' \in Process
      BY <1>4 DEF CliExits, Running, CliInv, CliTypeOK, Process
    <3>2. output' \in Output
      BY <1>4 DEF CliExits, Running, CliInv, CliTypeOK, Output
    <3> QED
      BY <3>1, <3>2 DEF CliTypeOK
  <2> QED
    BY <1>4, <2>1
       DEF CliExits, Running, CliInv, CliTypeOK, Process, Output, ReadIsWritten, KeptIsRead, ProcessIsSound,
           CopyIsComplete, RunsInOrder, SuccessIsWhole
<1>5. CASE DescendantEnds
  <2>1. CliTypeOK'
    <3>1. cli' \in Process
      BY <1>5 DEF DescendantEnds, CliInv, CliTypeOK, Process
    <3>2. output' \in Output
      BY <1>5 DEF DescendantEnds, CliInv, CliTypeOK, Output
    <3> QED
      BY <3>1, <3>2 DEF CliTypeOK
  <2> QED
    BY <1>5, <2>1
       DEF DescendantEnds, CliInv, CliTypeOK, Process, Output, ReadIsWritten, KeptIsRead, ProcessIsSound,
           CopyIsComplete, RunsInOrder, SuccessIsWhole
<1>6. ASSUME NEW reason, ContextDone(reason) PROVE CliInv'
  <2>1. CliTypeOK'
    <3>1. cli' \in Process
      BY <1>6 DEF ContextDone, Killed, Running, CliInv, CliTypeOK, Process
    <3>2. output' \in Output
      BY <1>6 DEF ContextDone, Killed, Running, CliInv, CliTypeOK, Output
    <3> QED
      BY <3>1, <3>2 DEF CliTypeOK
  <2> QED
    BY <1>6, <2>1
       DEF ContextDone, Killed, Running, CliInv, CliTypeOK, Process, Output, ReadIsWritten, KeptIsRead, ProcessIsSound,
           CopyIsComplete, RunsInOrder, SuccessIsWhole
<1>7. CASE GraceOver
  <2>1. CliTypeOK'
    <3>1. cli' \in Process
      BY <1>7 DEF GraceOver, Killed, Running, CliInv, CliTypeOK, Process
    <3>2. output' \in Output
      BY <1>7 DEF GraceOver, Killed, Running, CliInv, CliTypeOK, Output
    <3> QED
      BY <3>1, <3>2 DEF CliTypeOK
  <2> QED
    BY <1>7, <2>1
       DEF GraceOver, Killed, Running, CliInv, CliTypeOK, Process, Output, ReadIsWritten, KeptIsRead, ProcessIsSound,
           CopyIsComplete, RunsInOrder, SuccessIsWhole
<1>8. CASE Copy
  <2>1. PICK n \in 1 .. output.written - output.read :
          output' = BoundedWrite([output EXCEPT !.read = @ + n], n)
    BY <1>8 DEF Copy
  <2>2. CliTypeOK' /\ ReadIsWritten' /\ KeptIsRead' /\ output'.written = output.written
    BY <1>8, <2>1, WriteKeeps DEF Copy, CliInv, CliTypeOK, ReadIsWritten, KeptIsRead
  <2> QED
    BY <1>8, <2>2 DEF Copy, CliInv, CliTypeOK, Process, Output, ProcessIsSound, CopyIsComplete, RunsInOrder, SuccessIsWhole
<1>9. CASE CopyEnds
  <2>1. CliTypeOK'
    <3>1. cli' \in Process
      BY <1>9 DEF CopyEnds, CliInv, CliTypeOK, Process
    <3>2. output' \in Output
      BY <1>9 DEF CopyEnds, CliInv, CliTypeOK, Output
    <3> QED
      BY <3>1, <3>2 DEF CliTypeOK
  <2> QED
    BY <1>9, <2>1
       DEF CopyEnds, CliInv, CliTypeOK, Process, Output, ReadIsWritten, KeptIsRead, ProcessIsSound,
           CopyIsComplete, RunsInOrder, SuccessIsWhole
<1>10. CASE WaitReturns
  <2>1. /\ cli.pc = "exited" /\ result = Pending /\ ~ copying'
        /\ cli.agent # "codex" => ~ copying
        /\ result' # Pending
        /\ result' = "success" => cli.status # "error" /\ (cli.purpose # "probe" => ~ output.truncated)
        /\ UNCHANGED <<cli, output, held, context, signal>>
    BY <1>10, ResultsAreSound DEF WaitReturns, CliInv
  <2>2. result' = "success" /\ cli.agent # "codex" /\ cli.purpose # "probe"
          => output.kept = output.written
    BY <2>1 DEF CliInv, CliTypeOK, Process, Output, ReadIsWritten, KeptIsRead, ProcessIsSound, CopyIsComplete
  <2> QED
    BY <2>1, <2>2
       DEF CliInv, CliTypeOK, Process, Output, ReadIsWritten, KeptIsRead, ProcessIsSound, CopyIsComplete, RunsInOrder, SuccessIsWhole
<1>11. CASE PipesForced
  <2>1. result' # Pending /\ result' # "success"
    BY <1>11, ResultsAreSound DEF PipesForced
  <2> QED
    BY <1>11, <2>1 DEF PipesForced, CliInv, CliTypeOK, Process, Output, ReadIsWritten, KeptIsRead, ProcessIsSound, CopyIsComplete,
                       RunsInOrder, SuccessIsWhole
<1>12. CASE Again
  <2>1. CliTypeOK'
    <3>1. cli' \in Process
      BY <1>12 DEF Again, NoCli, CliInv, CliTypeOK, Process
    <3>2. output' \in Output
      BY <1>12 DEF Again, NoCli, CliInv, CliTypeOK, Output
    <3> QED
      BY <3>1, <3>2 DEF CliTypeOK
  <2> QED
    BY <1>12, <2>1
       DEF Again, NoCli, CliInv, CliTypeOK, Process, Output, ReadIsWritten, KeptIsRead, ProcessIsSound,
           CopyIsComplete, RunsInOrder, SuccessIsWhole
<1> QED
  BY <1>1, <1>2, <1>3, <1>4, <1>5, <1>6, <1>7, <1>8, <1>9, <1>10, <1>11, <1>12
     DEF CliNext, Deadline

\* The answer of a run or a task that is taken for good is all the CLI wrote to its
\* pipe, whatever its size, the cap, the pieces in which it was read and the signals
\* it was sent (boundedWriter, os/exec, and the two callers that look at the flag).
THEOREM SuccessIsWholeAlways == CliSafety => []SuccessIsWhole
<1>1. CliInv => SuccessIsWhole
  BY DEF CliInv
<1> QED
  BY InitInv, StepInv, <1>1, PTL DEF CliSafety
=============================================================================
