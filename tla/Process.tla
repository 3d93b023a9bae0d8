------------------------------ MODULE Process ------------------------------
(* A child process and the pipes to it (platform/posix/process.c).  The      *)
(* child reads its input to the end, writes its output, and exits; the       *)
(* parent calls the functions of iProcess.  Data are counted in blocks.      *)
(* Standard error is a second output and is left out.                        *)
EXTENDS Naturals

CONSTANTS PipeSize,       \* what a pipe holds
          Input, Output   \* what the parent writes and the child produces

VARIABLES pin, pout,      \* what is in the pipes
          inputOpen,      \* the parent's end of pin
          child,          \* "none", "reading", "writing", "zombie", "reaped"
          produced,       \* what the child has written
          known,          \* d->pid is set
          parent,         \* the function the parent is in
          written, got    \* what the parent has written and read

processVars == <<pin, pout, inputOpen, child, produced, known, parent, written, got>>

Init == /\ pin = 0 /\ pout = 0 /\ inputOpen = TRUE /\ child = "none" /\ produced = 0
        /\ known = FALSE /\ parent = "idle" /\ written = 0 /\ got = 0

(* posix_spawn; the parent closes the child's ends of the pipes.             *)
start_Process == /\ parent = "idle" /\ child = "none"
                 /\ child' = "reading"
                 /\ known' = TRUE
                 /\ UNCHANGED <<pin, pout, inputOpen, produced, parent, written, got>>

(* The child, which is any program of this form.                             *)
ChildReads == /\ child = "reading"
              /\ \/ pin > 0 /\ pin' = pin - 1 /\ UNCHANGED child
                 \/ pin = 0 /\ ~inputOpen /\ child' = "writing" /\ UNCHANGED pin
              /\ UNCHANGED <<pout, inputOpen, produced, known, parent, written, got>>

ChildWrites == /\ child = "writing"
               /\ IF produced = Output
                  THEN child' = "zombie" /\ UNCHANGED <<pout, produced>>
                  ELSE /\ pout < PipeSize
                       /\ pout' = pout + 1
                       /\ produced' = produced + 1
                       /\ UNCHANGED child
               /\ UNCHANGED <<pin, inputOpen, known, parent, written, got>>

(* kill_Process ends the child wherever it is.                               *)
kill_Process == /\ parent = "idle" /\ known /\ child \in {"reading", "writing"}
                /\ child' = "zombie"
                /\ UNCHANGED <<pin, pout, inputOpen, produced, known, parent, written, got>>

(* writeInput_Process: write() waits while the pipe is full.                 *)
writeInput_Process ==
  /\ parent = "idle" /\ child = "reading" /\ inputOpen /\ written < Input
  /\ pin < PipeSize
  /\ pin' = pin + 1
  /\ written' = written + 1
  /\ UNCHANGED <<pout, inputOpen, child, produced, known, parent, got>>

(* readOutput_Process: what is there, without waiting.                       *)
readOutput_Process ==
  /\ parent = "idle" /\ child # "none" /\ pout > 0
  /\ got' = got + pout
  /\ pout' = 0
  /\ UNCHANGED <<pin, inputOpen, child, produced, known, parent, written>>

(* A zombie can still be signalled: it counts as running until it was waited *)
(* for.                                                                      *)
isRunning_Process == known /\ child # "reaped"

Begin(call) == /\ parent = "idle" /\ known
               /\ parent' = call
               /\ inputOpen' = FALSE
               /\ UNCHANGED <<pin, pout, child, produced, known, written, got>>

(* waitForFinished_Process: waitpid() returns when the child has ended.      *)
waitForFinished_Process ==
  /\ parent = "waiting" /\ child = "zombie"
  /\ child' = "reaped"
  /\ known' = FALSE
  /\ parent' = "idle"
  /\ UNCHANGED <<pin, pout, inputOpen, produced, written, got>>

(* readOutputUntilClosed_Process: read() waits until there is output, or no  *)
(* child to write any.                                                       *)
readOutputUntilClosed_Process ==
  /\ parent = "draining"
  /\ \/ pout > 0 /\ got' = got + pout /\ pout' = 0 /\ UNCHANGED parent
     \/ pout = 0 /\ child \in {"zombie", "reaped"} /\ parent' = "idle" /\ UNCHANGED <<pout, got>>
  /\ UNCHANGED <<pin, inputOpen, child, produced, known, written>>

ParentStep == waitForFinished_Process \/ readOutputUntilClosed_Process
ChildStep == ChildReads \/ ChildWrites

Next == \/ start_Process \/ kill_Process \/ writeInput_Process \/ readOutput_Process
        \/ ParentStep \/ ChildStep \/ \E call \in {"waiting", "draining"} : Begin(call)

Fairness == WF_processVars(ParentStep) /\ WF_processVars(ChildStep)

(* A call that waits for the child returns, for its input has been closed;   *)
(* only waitForFinished_Process may wait for a child that waits for the      *)
(* parent, its output pipe full.  When readOutputUntilClosed_Process         *)
(* returns, nothing is left in the pipe and the child has ended.             *)
ChildIsAwaited ==
  /\ parent = "waiting" ~> parent = "idle" \/ pout = PipeSize
  /\ parent = "draining" ~> parent = "idle" /\ pout = 0 /\ child \in {"zombie", "reaped"}
=============================================================================
