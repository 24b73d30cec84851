------------------------------- MODULE Command -------------------------------
(****************************************************************************)
(* The geas command (cmd/geas/geas.go): one process that reads its input,   *)
(* runs the assembler (-a), the disassembler (-d), the formatter (-f) or a  *)
(* question about forks (-i), writes a file or standard output, and exits   *)
(* with a code.  It composes InstructionSets, Disassembler and Format.      *)
(*                                                                          *)
(* A command before has assembled what -d reads; after the end the next one *)
(* formats, or assembles, what this one has printed.                        *)
(****************************************************************************)
EXTENDS Disassembler, Format

CONSTANT Invocations   \* command lines, each with the sets of inputs it is tried on

VARIABLES cmd,
          phase,      \* "start", "open", "work", "output", "write" or "exit"
          exit,       \* the exit code, or Running or Killed
          dest        \* the file that is written: "before", "partial" or "result"

cmdVars == <<cmd, phase, exit, dest>>
vars == <<cmdVars, setVars, disVars, fmtVars>>

\* What can be wrong with a command or its input.
Faults(mode) ==
  {"none", "flags"} \cup
  CASE mode = "-i" -> {}
    [] mode = "-f" -> {"missing"}
    [] mode = "-a" -> {"missing", "malformed"}
    [] mode = "-d" -> {"missing", "malformed", "target"}

\* The mode, where the output goes, and what is wrong.
ASSUME InvocationsOK ==
  \A i \in Invocations :
    /\ i.cmd.mode \in {"-a", "-d", "-f", "-i"}
    /\ i.cmd.to \in {"stdout", "file", "check"}   \* -o or -w write a file; -check compares
    /\ i.cmd.to = "file" => i.cmd.mode # "-i"
    /\ i.cmd.to = "check" => i.cmd.mode = "-f"
    /\ i.cmd.fault \in Faults(i.cmd.mode)

\* Questions are asked of tables of forks, well-formed or not; programs are what the
\* assembler can be given.
ASSUME InputsOK ==
  \A i \in Invocations :
    /\ \A r \in i.requests : IsRegistry(r[1])
    /\ \A j \in i.jobs : IsInput(j)

Running == -1   \* no exit code yet
Killed == -9    \* the process was ended by a signal

Exit(status) == phase' = "exit" /\ exit' = status

Machines == UNCHANGED <<setVars, disVars, fmtVars>>

\* parseFlags, fileArg, the checks on combinations (-w with -check or with standard
\* input, two topics at once): nothing is read yet.
Start ==
  /\ phase = "start" /\ (cmd.mode = "-d" => stage # "generate")
  /\ IF cmd.fault = "flags" THEN Exit(2)
     ELSE phase' = (IF cmd.mode = "-d" THEN "open" ELSE "work") /\ UNCHANGED exit
  /\ UNCHANGED <<cmd, dest>> /\ Machines

\* The input cannot be read, or is no hexadecimal text (-d).  The assembler reports
\* a file it cannot read like any other error.
InputFails ==
  /\ phase = "open" \/ (phase = "work" /\ cmd.mode # "-i")
  /\ cmd.fault = "missing" \/ (cmd.fault = "malformed" /\ cmd.mode \in {"-a", "-d"})
  /\ Exit(1)
  /\ UNCHANGED <<cmd, dest>> /\ Machines

InputFine == cmd.fault \notin {"missing", "malformed"}

\* The disassembler opens, and truncates, its output before it knows the target.
OpenOutput ==
  /\ phase = "open" /\ InputFine
  /\ IF cmd.to = "file"
     THEN \/ phase' = "work" /\ dest' = "partial" /\ UNCHANGED exit
          \/ Exit(1) /\ UNCHANGED dest
     ELSE phase' = "work" /\ UNCHANGED <<exit, dest>>
  /\ UNCHANGED cmd /\ Machines

UnknownTarget ==
  /\ phase = "work" /\ cmd.mode = "-d" /\ cmd.fault = "target"
  /\ Exit(2)
  /\ UNCHANGED <<cmd, dest>> /\ Machines

\* mutant: the output file is opened while the source is still being parsed.
FormatsEarly == FmtNext /\ dest' = (IF cmd.to = "file" THEN "partial" ELSE dest)

Formats == FmtNext /\ UNCHANGED dest

Works ==
  /\ phase = "work" /\ InputFine
  /\ \/ /\ cmd.mode = "-i" /\ SetNext
        /\ UNCHANGED <<disVars, fmtVars, dest>>
     \/ /\ cmd.mode = "-a" /\ stage = "generate" /\ DisNext
        /\ UNCHANGED <<setVars, fmtVars, dest>>
     \/ /\ cmd.mode = "-d" /\ cmd.fault # "target" /\ stage = "disassemble" /\ DisNext
        /\ UNCHANGED <<setVars, fmtVars, dest>>
     \/ /\ cmd.mode = "-f" /\ round = 1 /\ step # "errors" /\ Formats
        /\ UNCHANGED <<setVars, disVars>>
  /\ UNCHANGED <<cmd, phase, exit>>

\* The questions print their answer; an unknown fork is an error, and a table of
\* forks that makes no sense a panic, with the code of one.
Informed ==
  /\ phase = "work" /\ cmd.mode = "-i" /\ state \in {"done", "unknown", "panic"}
  /\ Exit(IF state = "done" THEN 0 ELSE 2)
  /\ UNCHANGED <<cmd, dest>> /\ Machines

DocumentHasErrors ==
  /\ phase = "work" /\ cmd.mode = "-f" /\ step = "errors"
  /\ Exit(2)
  /\ UNCHANGED <<cmd, dest>> /\ Machines

\* What the machine has to offer for this mode is there.
Ready ==
  CASE cmd.mode = "-a" -> stage # "generate"
    [] cmd.mode = "-d" -> stage \in {"reassemble", "end"}
    [] cmd.mode = "-f" -> round = 2
    [] OTHER           -> FALSE

\* The disassembler has written as it went, which may have failed.
Finished ==
  /\ phase = "work" /\ InputFine /\ Ready
  /\ IF cmd.mode = "-d"
     THEN \/ Exit(0) /\ dest' = IF cmd.to = "file" THEN "result" ELSE dest
          \/ Exit(1) /\ UNCHANGED dest
     ELSE phase' = "output" /\ UNCHANGED <<exit, dest>>
  /\ UNCHANGED cmd /\ Machines

\* The assembler's -o and the formatter's deferred function: an existing file is
\* truncated, then written.
Output ==
  /\ phase = "output"
  /\ CASE cmd.to = "stdout" -> (Exit(0) \/ Exit(1)) /\ UNCHANGED dest
       [] cmd.to = "check"  ->
            \* Blanks may differ where the tokens are the same.
            /\ \E same \in IF outputs[1] = source THEN BOOLEAN ELSE {FALSE} :
                 Exit(IF same THEN 0 ELSE 1)
            /\ UNCHANGED dest
       [] cmd.to = "file"   ->
            \/ phase' = "write" /\ dest' = "partial" /\ UNCHANGED exit
            \/ Exit(1) /\ UNCHANGED dest
  /\ UNCHANGED cmd /\ Machines

Write ==
  /\ phase = "write"
  /\ \/ Exit(0) /\ dest' = "result"
     \/ Exit(1) /\ UNCHANGED dest
  /\ UNCHANGED cmd /\ Machines

\* The process is killed, or the machine stops, at any moment.
Kill ==
  /\ phase # "exit"
  /\ Exit(Killed)
  /\ UNCHANGED <<cmd, dest>> /\ Machines

\* The command before, which has assembled what this one disassembles.
Earlier ==
  /\ phase = "start" /\ cmd.mode = "-d" /\ stage = "generate" /\ DisNext
  /\ UNCHANGED <<cmdVars, setVars, fmtVars>>

\* The next command, on what this one has printed.
Later ==
  /\ phase = "exit" /\ exit = 0
  /\ \/ cmd.mode = "-f" /\ FmtNext /\ UNCHANGED <<setVars, disVars>>
     \/ cmd.mode = "-d" /\ stage # "end" /\ DisNext /\ UNCHANGED <<setVars, fmtVars>>
  /\ UNCHANGED cmdVars

\* All is over.  (In no other state may there be nothing left to do: deadlock is
\* checked.)
Over ==
  /\ phase = "exit"
  /\ exit = 0 => CASE cmd.mode = "-f" -> step \in {"errors", "end"}
                   [] cmd.mode = "-d" -> stage = "end"
                   [] OTHER           -> TRUE
  /\ UNCHANGED vars

Init ==
  \E i \in Invocations :
    /\ cmd = i.cmd /\ phase = "start" /\ exit = Running /\ dest = "before"
    /\ SetInit(i.requests) /\ DisInit(i.jobs) /\ FmtInit(i.sources)

Next ==
  Start \/ InputFails \/ OpenOutput \/ UnknownTarget \/ Works \/ Informed \/ DocumentHasErrors
  \/ Finished \/ Output \/ Write \/ Kill \/ Earlier \/ Later \/ Over

Spec == Init /\ [][Next]_vars

-----------------------------------------------------------------------------
(* Properties.                                                               *)

\* The exit code tells what has become of the file.  With 0 it has the whole result of
\* an input without errors.  With 1 or 2 it is as it was before, so that an error in
\* the source never costs the source or an earlier output, unless a write failed; and
\* a disassembler that does not know its target has destroyed it already.  A process
\* that is killed leaves the old file, the new one, or a part of it.
OutcomeIsHonest ==
  phase = "exit" =>
    /\ exit = 0 =>
         /\ cmd.fault = "none"
         /\ dest = IF cmd.to = "file" THEN "result" ELSE "before"
         /\ IF cmd.mode = "-i" THEN state = "done" ELSE Ready
    /\ exit \in {1, 2} =>
         \/ dest = "before"
         \/ dest = "partial" /\ cmd.to = "file" /\ exit = 1 /\ cmd.fault = "none"
         \/ dest = "partial" /\ cmd.to = "file" /\ exit = 2 /\ cmd.fault = "target"
    /\ cmd.to # "file" => dest = "before"
=============================================================================
