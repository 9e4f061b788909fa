------------------------------- MODULE Pipes -------------------------------
(***************************************************************************)
(* The demo program src/demos/processes-communicating-through-pipes.c: a   *)
(* master and a slave process talk through two pipes.  Each runs an event  *)
(* loop with one group of two file descriptor sources, and the handlers    *)
(* enable and disable the sources as the conversation goes on.             *)
(*                                                                         *)
(* Of the loop the module keeps what the program relies on: the sources    *)
(* take turns, a source that is disabled or not ready is passed over, and  *)
(* a request to leave is seen before the next turn.                        *)
(***************************************************************************)
EXTENDS RingOps, FiniteSets

CONSTANT PIPE_CAPACITY \* messages a pipe can hold

ASSUME PipesAssumption == PIPE_CAPACITY \in Nat \ {0}

Procs == {"master", "slave"}
Partner(p) == IF p = "master" THEN "slave" ELSE "master"

\* The ends that p reads from and writes to.
ReadEnd(p) ==
  IF p = "master" THEN "parent_read_child_write" ELSE "child_read_parent_write"
WriteEnd(p) ==
  IF p = "master" THEN "parent_write_child_read" ELSE "child_write_parent_read"

Filedes == {ReadEnd(p) : p \in Procs} \cup {WriteEnd(p) : p \in Procs}

VARIABLES pipe,    \* p |-> the messages sent to p and not read
          open,    \* p |-> the ends that p has open
          state,   \* p |-> field "state", the place in the conversation
          enabled, \* p |-> the sources of p that are enabled
          queue,   \* p |-> the sources in the group of p
          leave,   \* p |-> a request to leave the loop is posted
          pc,      \* p |-> what p is doing
          source,  \* p |-> the source that p attempts
          failing  \* the processes whose system calls may fail

task == <<state, enabled, queue, leave>>
vars == <<pipe, open, task, pc, source, failing>>

(***************************************************************************)
(* Initialisation, up to the first turn of both loops.                     *)
(***************************************************************************)

\* Both sources are enqueued and enabled, one of them is then disabled.
master_state_init == [state |-> "SEND_GREETINGS", enabled |-> {"write"}]
slave_state_init == [state |-> "READ_GREETINGS", enabled |-> {"read"}]

FirstQueue == Enqueued(Enqueued(<<>>, "read"), "write")

Fresh(p) == IF p = "master" THEN master_state_init ELSE slave_state_init

\* Fault: after the fork the processes close the ends they do not use.
Fault_fork_closes_other_ends(p) == {ReadEnd(p), WriteEnd(p)}

ends_after_fork(p) == Filedes

Init ==
  /\ pipe = [p \in Procs |-> <<>>]
  /\ open = [p \in Procs |-> ends_after_fork(p)]
  /\ state = [p \in Procs |-> Fresh(p).state]
  /\ enabled = [p \in Procs |-> Fresh(p).enabled]
  /\ queue = [p \in Procs |-> FirstQueue]
  /\ leave = [p \in Procs |-> FALSE]
  /\ pc = [p \in Procs |-> "loop"]
  /\ source = [p \in Procs |-> "read"]
  /\ failing \in SUBSET Procs

(***************************************************************************)
(* The event loop of p.                                                    *)
(***************************************************************************)

At(p, place) == pc[p] = place
Goto(p, place) == pc' = [pc EXCEPT ![p] = place]

attempt(p) ==
  /\ At(p, "loop") /\ ~leave[p] /\ queue[p] # <<>>
  /\ source' = [source EXCEPT ![p] = Head(queue[p])]
  /\ queue' = [queue EXCEPT ![p] = Advanced(@)]
  /\ Goto(p, IF Head(queue[p]) \in enabled[p] THEN "inquirer" ELSE "loop")
  /\ UNCHANGED <<pipe, open, state, enabled, leave, failing>>

EndOfFile(p) ==
  pipe[p] = <<>> /\ \A q \in Procs : WriteEnd(Partner(p)) \notin open[q]
BrokenPipe(p) == \A q \in Procs : ReadEnd(Partner(p)) \notin open[q]
HasRoom(p) == Len(pipe[Partner(p)]) < PIPE_CAPACITY

\* Fault: the set of descriptors is not looked at.
Fault_always_readable(p) == TRUE

\* What select(2) says.
query_fd_readability(p) == pipe[p] # <<>> \/ EndOfFile(p)
query_fd_writability(p) == HasRoom(p) \/ BrokenPipe(p)

query(p) ==
  /\ At(p, "inquirer")
  /\ LET ready == IF source[p] = "read" THEN query_fd_readability(p)
                                        ELSE query_fd_writability(p)
     IN  Goto(p, IF ready THEN "handler" ELSE "loop")
  /\ UNCHANGED <<pipe, open, task, source, failing>>

\* The exception ends the attempt; the loop goes on.
query_fails(p) ==
  /\ At(p, "inquirer") /\ p \in failing
  /\ Goto(p, "loop")
  /\ UNCHANGED <<pipe, open, task, source, failing>>

(***************************************************************************)
(* What handlers have in common.                                           *)
(***************************************************************************)

Handles(p, s) == At(p, "handler") /\ source[p] = s

\* The process dies: of a failed assertion or of the signal SIGPIPE.
abort(p) ==
  /\ Goto(p, "aborted")
  /\ open' = [open EXCEPT ![p] = {}]
  /\ UNCHANGED <<pipe, task>>

\* The source that had its event is disabled, the other one enabled.
Continue(p, next) ==
  /\ state' = [state EXCEPT ![p] = next]
  /\ enabled' = [enabled EXCEPT ![p] =
                   (@ \ {source[p]}) \cup ({"read", "write"} \ {source[p]})]
  /\ Goto(p, "loop")
  /\ UNCHANGED <<queue, leave, open>>

\* All handlers but the reading one of the master disable their source before
\* they do anything else.
EnabledInHandler(p) ==
  IF p = "master" /\ source[p] = "read" THEN enabled[p]
  ELSE enabled[p] \ {source[p]}

\* Fault: the source that is not having an event is left in the group.
Fault_task_final_of_source(p) ==
  /\ state' = [state EXCEPT ![p] = "DONE"]
  /\ enabled' = [enabled EXCEPT ![p] = EnabledInHandler(p)]
  /\ queue' = [queue EXCEPT ![p] = Without(@, source[p])]
  /\ leave' = [leave EXCEPT ![p] = TRUE]
  /\ Goto(p, "loop")
  /\ UNCHANGED open

\* master_task_final and slave_task_final.
task_final(p) ==
  /\ state' = [state EXCEPT ![p] = "DONE"]
  /\ enabled' = [enabled EXCEPT ![p] = EnabledInHandler(p)]
  /\ queue' = [queue EXCEPT ![p] = Without(Without(@, "read"), "write")]
  /\ leave' = [leave EXCEPT ![p] = TRUE]
  /\ Goto(p, "loop")
  /\ UNCHANGED open

\* strncmp compares the beginning of what was read.
Received(p) == IF pipe[p] = <<>> THEN "nothing" ELSE Head(pipe[p])

\* Everything in the pipe is read; read blocks while there is nothing.
read(p) ==
  /\ pipe[p] # <<>> \/ EndOfFile(p)
  /\ pipe' = [pipe EXCEPT ![p] = <<>>]

\* Fault: the loop around write goes round once more.
Fault_write_twice(p, message) ==
  /\ HasRoom(p)
  /\ pipe' = [pipe EXCEPT ![Partner(p)] = @ \o <<message, message>>]

\* A message is shorter than PIPE_BUF: it is written at once, and write blocks
\* while there is no room.
write(p, message) ==
  /\ HasRoom(p)
  /\ pipe' = [pipe EXCEPT ![Partner(p)] = Append(@, message)]

\* The system call of the handler raises an exception: its error handler ends
\* the task.
handler_fails(p) ==
  /\ At(p, "handler") /\ p \in failing
  /\ task_final(p)
  /\ UNCHANGED <<pipe, source, failing>>

(***************************************************************************)
(* The handlers.  A state that the switch does not know, or an unexpected  *)
(* message, is a failed assertion.                                         *)
(***************************************************************************)

Reads(p, place, message) == state[p] = place /\ Received(p) = message

master_read_event_handler ==
  /\ Handles("master", "read")
  /\ \/ /\ Reads("master", "READ_GREETINGS", "hello")
        /\ read("master") /\ Continue("master", "SEND_FAREWELL")
     \/ /\ Reads("master", "READ_FAREWELL", "quit")
        /\ read("master") /\ task_final("master")
     \/ /\ pipe["master"] # <<>> \/ EndOfFile("master")
        /\ ~Reads("master", "READ_GREETINGS", "hello")
        /\ ~Reads("master", "READ_FAREWELL", "quit")
        /\ abort("master")
  /\ UNCHANGED <<source, failing>>

\* Fault: reading is not enabled after the greetings.
Fault_write_forgets_reading ==
  /\ Handles("master", "write") /\ ~BrokenPipe("master")
  /\ write("master", "hello")
  /\ state' = [state EXCEPT !["master"] = "READ_GREETINGS"]
  /\ enabled' = [enabled EXCEPT !["master"] = @ \ {"write"}]
  /\ Goto("master", "loop")
  /\ UNCHANGED <<queue, leave, open, source, failing>>

master_write_event_handler ==
  /\ Handles("master", "write")
  /\ \/ /\ state["master"] = "SEND_GREETINGS" /\ ~BrokenPipe("master")
        /\ write("master", "hello") /\ Continue("master", "READ_GREETINGS")
     \/ /\ state["master"] = "SEND_FAREWELL" /\ ~BrokenPipe("master")
        /\ write("master", "quit") /\ Continue("master", "READ_FAREWELL")
     \/ /\ state["master"] \notin {"SEND_GREETINGS", "SEND_FAREWELL"}
           \/ BrokenPipe("master")
        /\ abort("master")
  /\ UNCHANGED <<source, failing>>

slave_read_event_handler ==
  /\ Handles("slave", "read")
  /\ \/ /\ Reads("slave", "READ_GREETINGS", "hello")
        /\ read("slave") /\ Continue("slave", "SEND_GREETINGS")
     \/ /\ Reads("slave", "READ_FAREWELL", "quit")
        /\ read("slave") /\ Continue("slave", "SEND_FAREWELL")
     \/ /\ pipe["slave"] # <<>> \/ EndOfFile("slave")
        /\ ~Reads("slave", "READ_GREETINGS", "hello")
        /\ ~Reads("slave", "READ_FAREWELL", "quit")
        /\ abort("slave")
  /\ UNCHANGED <<source, failing>>

slave_write_event_handler ==
  /\ Handles("slave", "write")
  /\ \/ /\ state["slave"] = "SEND_GREETINGS" /\ ~BrokenPipe("slave")
        /\ write("slave", "hello") /\ Continue("slave", "READ_FAREWELL")
     \/ /\ state["slave"] = "SEND_FAREWELL" /\ ~BrokenPipe("slave")
        /\ write("slave", "quit") /\ task_final("slave")
     \/ /\ state["slave"] \notin {"SEND_GREETINGS", "SEND_FAREWELL"}
           \/ BrokenPipe("slave")
        /\ abort("slave")
  /\ UNCHANGED <<source, failing>>

(***************************************************************************)
(* The end of the processes.                                               *)
(***************************************************************************)

\* The loop is left and finalised, the process closes the ends it has used.
parent_process ==
  /\ At("master", "loop") /\ leave["master"]
  /\ open' = [open EXCEPT !["master"] = @ \ {ReadEnd("master"), WriteEnd("master")}]
  /\ Goto("master", "waitpid")
  /\ UNCHANGED <<pipe, task, source, failing>>

\* The same, and exit closes the others.
child_process ==
  /\ At("slave", "loop") /\ leave["slave"]
  /\ open' = [open EXCEPT !["slave"] = {}]
  /\ Goto("slave", "exited")
  /\ UNCHANGED <<pipe, task, source, failing>>

\* The parent asserts that the child has exited.
main ==
  /\ At("master", "waitpid") /\ pc["slave"] \in {"exited", "aborted"}
  /\ open' = [open EXCEPT !["master"] = {}]
  /\ Goto("master", pc["slave"])
  /\ UNCHANGED <<pipe, task, source, failing>>

(***************************************************************************)
(* The specification.                                                      *)
(***************************************************************************)

Master == master_read_event_handler \/ master_write_event_handler
          \/ parent_process \/ main
Slave == slave_read_event_handler \/ slave_write_event_handler \/ child_process

Step(p) == attempt(p) \/ query(p) \/ (IF p = "master" THEN Master ELSE Slave)

Next == \E p \in Procs : Step(p) \/ query_fails(p) \/ handler_fails(p)

\* Both processes are scheduled; failures are not inevitable.
Spec == Init /\ [][Next]_vars /\ \A p \in Procs : WF_vars(Step(p))

(***************************************************************************)
(* Properties.                                                             *)
(***************************************************************************)

States ==
  {"READ_GREETINGS", "SEND_GREETINGS", "READ_FAREWELL", "SEND_FAREWELL", "DONE"}

TypeOK ==
  /\ pipe \in [Procs -> Seq({"hello", "quit"})]
  /\ open \in [Procs -> SUBSET Filedes]
  /\ state \in [Procs -> States]
  /\ enabled \in [Procs -> SUBSET {"read", "write"}]
  /\ queue \in [Procs -> {<<>>, <<"read", "write">>, <<"write", "read">>}]
  /\ leave \in [Procs -> BOOLEAN]
  /\ pc \in [Procs -> {"loop", "inquirer", "handler", "waitpid", "exited", "aborted"}]
  /\ source \in [Procs -> {"read", "write"}]
  /\ failing \subseteq Procs

\* The two state machines fit together: no handler is called in a state it does
\* not expect, reads a message it does not expect or the end of a pipe, or writes
\* into a pipe nobody reads (the assertions at lines 449 to 464, 504, 525, 747 to
\* 763, 802 and 824 of the demo), also when system calls of one or both processes fail.
NobodyAborts == \A p \in Procs : pc[p] # "aborted"

\* The processes speak in turns: there is never more than one message on the way,
\* so a read of up to 10 bytes gets one message and the whole of it (lines 442
\* and 740; two messages would overrun buf[count] = '\0').
OneMessage ==
  /\ \A p \in Procs : Len(pipe[p]) <= 1
  /\ \E p \in Procs : pipe[p] = <<>>

\* A handler runs some time after the inquirer: what it was called for is still
\* there, and its system call does not block the loop.
NobodyBlocks ==
  \A p \in Procs :
    /\ Handles(p, "read") => pipe[p] # <<>> \/ EndOfFile(p)
    /\ Handles(p, "write") => HasRoom(p) \/ BrokenPipe(p)

\* If no system call fails, both processes come to the end of the conversation
\* and exit, and every message was read.
BothFinish ==
  failing = {} ~> \A p \in Procs : pc[p] = "exited" /\ pipe[p] = <<>>
=============================================================================
