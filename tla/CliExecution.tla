----------------------------- MODULE CliExecution -----------------------------
(***************************************************************************)
(* One invocation of a CLI by the daemon, for a planning run, a role task  *)
(* or a probe (connector/builtin_adapter.go, connector/dispatch_safety.go, *)
(* connector/adapter.go, connector/probe.go): the process, the copy of its *)
(* output through a bounded writer, the deadline and the signals of        *)
(* os/exec, and what becomes of the output.  claude and a configured       *)
(* adapter write to a pipe, codex to a pseudo-terminal.                    *)
(***************************************************************************)
EXTENDS Integers, FiniteSets

CONSTANTS Size,        \* a bound on the pieces of output a CLI writes
          MaxOutput,   \* dispatchOutputMaxBytes in pieces, 0 switches the cap off
          AdapterMaxOutput,   \* max_output_bytes of the adapter in pieces
          HasTimeout,  \* whether the role of a task has a timeout (roles.TimeoutFor)
          Pending      \* an invocation without a result

ASSUME CliExecutionAssumption ==
  /\ Size \in Nat \ {0}
  /\ MaxOutput \in Nat
  /\ AdapterMaxOutput \in Nat \ {0}
  /\ HasTimeout \in BOOLEAN
  /\ Pending \notin {"success", "invalid", "failed", "timed_out", "output_too_large"}

VARIABLES cli,      \* the process: agent, purpose, pc and exit status
          output,   \* pieces written, read by the copy, kept, and truncated
          copying,  \* whether the copy goroutine runs
          held,     \* whether a descendant keeps the output open after the exit
          context,  \* "live", "deadline" or "cancelled"
          signal,   \* the last signal sent: "none", "term" or "kill"
          result

cliVars == <<cli, output, copying, held, context, signal, result>>

NoCli == [agent |-> "none", purpose |-> "none", pc |-> "none", status |-> "none"]

CliInit ==
  /\ cli = NoCli
  /\ output = [written |-> 0, read |-> 0, kept |-> 0, truncated |-> FALSE]
  /\ copying = FALSE
  /\ held = FALSE
  /\ context = "live"
  /\ signal = "none"
  /\ result = Pending

-----------------------------------------------------------------------------
(* Which CLI                                                               *)

Agents == {"claude", "codex"}
Unset == "unset"

\* The agent is that of the selected provider, else that of the selected command,
\* else that of the environment, else the first one on PATH.  The command of the
\* selection wins over PATH.  `named` is the agent the command's name begins with.
Resolve(provider, command, named, env, path) ==
  LET onPath(agent) == agent \in path
      agent == IF provider # Unset THEN provider
               ELSE IF command THEN named
               ELSE IF env # Unset THEN env
               ELSE IF onPath("claude") THEN "claude" ELSE "codex"
  IN  IF command \/ onPath(agent) THEN agent ELSE "error"

\* A configured adapter is used for all planning runs and for nothing else; a task
\* comes without a selection.
Invoke ==
  \E provider, env \in Agents \cup {Unset}, command, configured \in BOOLEAN,
     named \in Agents, path \in SUBSET Agents, purpose \in {"run", "task", "probe"} :
    LET agent == IF configured THEN "adapter"
                 ELSE Resolve(provider, command, named, env, path) IN
    /\ cli.pc = "none"
    /\ result = Pending
    /\ configured => purpose = "run"
    /\ purpose = "task" => provider = Unset /\ ~ command
    /\ \/ /\ agent # "error"
          /\ context = "live"
          /\ cli' = [agent |-> agent, purpose |-> purpose, pc |-> "running", status |-> "none"]
          /\ copying' = TRUE
          /\ UNCHANGED result
       \* No CLI, it cannot be started, or the daemon is on its way out.
       \/ /\ result' = "failed"
          /\ UNCHANGED <<cli, copying>>
    /\ UNCHANGED <<output, held, context, signal>>

-----------------------------------------------------------------------------
(* The process                                                             *)

Running == cli.pc = "running"

CliWrites ==
  /\ Running
  /\ output.written < Size
  /\ output' = [output EXCEPT !.written = @ + 1]
  /\ UNCHANGED <<cli, copying, held, context, signal, result>>

\* With either status, also on SIGTERM; it may leave a descendant behind.
CliExits ==
  /\ Running
  /\ \E status \in {"ok", "error"} : cli' = [cli EXCEPT !.pc = "exited", !.status = status]
  /\ held' \in BOOLEAN
  /\ UNCHANGED <<output, copying, context, signal, result>>

\* A descendant that held the output open is gone.
DescendantEnds ==
  /\ held
  /\ held' = FALSE
  /\ UNCHANGED <<cli, output, copying, context, signal, result>>

Killed ==
  /\ signal' = "kill"
  /\ cli' = [cli EXCEPT !.pc = "exited", !.status = "error"]
  /\ held' \in BOOLEAN

\* The deadline of the invocation or the end of the daemon's context: SIGTERM to
\* a CLI, SIGKILL to an adapter.
ContextDone(reason) ==
  /\ result = Pending
  /\ cli.pc # "none"
  /\ context = "live"
  /\ context' = reason
  /\ IF Running /\ cli.agent = "adapter" THEN Killed
     ELSE signal' = (IF Running THEN "term" ELSE signal) /\ UNCHANGED <<cli, held>>
  /\ UNCHANGED <<output, copying, result>>

\* Only the deadline of a task can be switched off.
HasDeadline == HasTimeout \/ cli.purpose # "task"

Deadline == HasDeadline /\ ContextDone("deadline")

\* Mutant: SIGTERM is sent again instead of SIGKILL.
GraceOver_AsksAgain ==
  /\ Running
  /\ signal = "term"
  /\ UNCHANGED cliVars

\* WaitDelay after SIGTERM: SIGKILL, and the pipes are closed.
GraceOver ==
  /\ Running
  /\ signal = "term"
  /\ Killed
  /\ copying' = (copying /\ cli.agent = "codex")
  /\ UNCHANGED <<output, context, result>>

-----------------------------------------------------------------------------
(* The output                                                              *)

\* What is kept; the cap of a CLI may be switched off.
Cap == IF cli.agent = "adapter" THEN AdapterMaxOutput
       ELSE IF MaxOutput = 0 THEN Size ELSE MaxOutput

\* Mutant: sets the flag when a write finds the buffer full, not when it fills it up.
BoundedWrite_LateFlag(out, n) ==
  IF ~ out.truncated /\ n <= Cap - out.kept
  THEN [out EXCEPT !.kept = @ + n]
  ELSE [out EXCEPT !.kept = Cap, !.truncated = (out.kept = Cap)]

\* Beyond the cap everything is accepted, nothing is kept and a flag is set.
BoundedWrite(out, n) ==
  IF ~ out.truncated /\ n <= Cap - out.kept
  THEN [out EXCEPT !.kept = @ + n]
  ELSE [out EXCEPT !.kept = IF out.truncated THEN @ ELSE Cap, !.truncated = TRUE]

\* io.Copy takes what is there, in writes of any size.
Copy ==
  /\ copying
  /\ \E n \in 1 .. output.written - output.read :
       output' = BoundedWrite([output EXCEPT !.read = @ + n], n)
  /\ UNCHANGED <<cli, copying, held, context, signal, result>>

CopyEnds ==
  /\ copying
  /\ cli.pc = "exited"
  /\ ~ held
  /\ output.read = output.written
  /\ copying' = FALSE
  /\ UNCHANGED <<cli, output, held, context, signal, result>>

-----------------------------------------------------------------------------
(* The answer                                                              *)

\* An error takes precedence over the truncation.  A probe looks for its word in
\* what was kept, cut or not; the output of a run or a task is looked at only when
\* it was not cut.
Results(status) ==
  IF status = "error" THEN {IF context = "deadline" THEN "timed_out" ELSE "failed"}
  ELSE IF output.truncated /\ cli.purpose # "probe" THEN {"output_too_large"}
  ELSE {"success", "invalid"}

\* An adapter fails as well when its error stream, which is not modelled, is too
\* long, when it reports an error, and when it returns no candidates.
AdapterResults(status) ==
  LET overflow == output.truncated IN
  IF status = "error"
  THEN IF context = "deadline" THEN {"timed_out"}
       ELSE IF overflow THEN {"output_too_large"} ELSE {"failed", "output_too_large"}
  ELSE IF overflow THEN {"output_too_large"}
  ELSE {"success", "invalid", "failed", "output_too_large"}

\* For a pipe, Wait waits for the copy, of an adapter without a limit; for a
\* terminal only for the process, and then the terminal is closed.
WaitReturns ==
  /\ result = Pending
  /\ cli.pc = "exited"
  /\ cli.agent # "codex" => ~ copying
  /\ copying' = FALSE
  /\ result' \in IF cli.agent = "adapter" THEN AdapterResults(cli.status) ELSE Results(cli.status)
  /\ UNCHANGED <<cli, output, held, context, signal>>

\* WaitDelay after the exit of the process: the pipes are closed, an error.
PipesForced ==
  /\ result = Pending
  /\ cli.pc = "exited"
  /\ cli.agent = "claude"
  /\ copying
  /\ copying' = FALSE
  /\ result' \in Results("error")
  /\ UNCHANGED <<cli, output, held, context, signal>>

\* The next invocation of the daemon.
Again ==
  /\ result # Pending
  /\ cli' = NoCli
  /\ output' = [written |-> 0, read |-> 0, kept |-> 0, truncated |-> FALSE]
  /\ copying' = FALSE
  /\ held' = FALSE
  /\ context' = IF context = "cancelled" THEN context ELSE "live"
  /\ signal' = "none"
  /\ result' = Pending

CliNext ==
  \/ Invoke
  \/ CliWrites
  \/ CliExits
  \/ DescendantEnds
  \/ Deadline
  \/ ContextDone("cancelled")
  \/ GraceOver
  \/ Copy
  \/ CopyEnds
  \/ WaitReturns
  \/ PipesForced
  \/ Again

CliSafety == CliInit /\ [][CliNext]_cliVars

-----------------------------------------------------------------------------
\* The answer of a run or a task that is taken for good is all the CLI wrote,
\* whatever the pieces in which it was copied, the cap, the signals, and descendants
\* that keep the pipe open.  It does not hold for codex, whose terminal is closed
\* before it is drained, nor for a probe, which drops the flag of the cap.
SuccessIsWhole ==
  result = "success" /\ cli.agent # "codex" /\ cli.purpose # "probe"
    => output.kept = output.written

(* The clock, os/exec and the daemon go on; the CLI and its descendants owe *)
(* nothing.                                                                *)
CliFairness ==
  /\ WF_cliVars(Deadline)
  /\ WF_cliVars(GraceOver)
  /\ WF_cliVars(Copy)
  /\ WF_cliVars(CopyEnds)
  /\ WF_cliVars(WaitReturns)
  /\ WF_cliVars(PipesForced)

CliSpec == CliSafety /\ CliFairness

\* An invocation with a deadline ends, also when the CLI hangs, ignores SIGTERM
\* or leaves a process behind that holds its output open.  Only an adapter waits
\* for such a process as long as it lives: it has no WaitDelay.
InvocationEnds ==
  (cli.pc # "none" /\ HasDeadline) ~> (result # Pending \/ (cli.agent = "adapter" /\ held))
=============================================================================
