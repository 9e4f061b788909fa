---------------------------- MODULE PipesProofs ----------------------------
(***************************************************************************)
(* The conversation of module Pipes, for pipes of any capacity and for     *)
(* system calls that fail in neither, one or both of the processes.        *)
(***************************************************************************)
EXTENDS Pipes, RingOpsProofs

(***************************************************************************)
(* The inductive invariant.                                                *)
(***************************************************************************)

\* A place in the conversation: what both processes go on with, unless their
\* task has ended, and what is on the way to the master and to the slave.
On(masterState, slaveState, toMaster, toSlave) ==
  /\ state["master"] \in {masterState, "DONE"}
  /\ state["slave"] \in {slaveState, "DONE"}
  /\ pipe["master"] = toMaster /\ pipe["slave"] = toSlave

\* The conversation never leaves these nine places.  An error ends the task of a
\* process, but it neither writes nor reads, so the other one finds what it would
\* have found.
Conversation ==
  \/ On("SEND_GREETINGS", "READ_GREETINGS", <<>>, <<>>)
  \/ On("READ_GREETINGS", "READ_GREETINGS", <<>>, <<"hello">>)
  \/ On("READ_GREETINGS", "SEND_GREETINGS", <<>>, <<>>)
  \/ On("READ_GREETINGS", "READ_FAREWELL", <<"hello">>, <<>>)
  \/ On("SEND_FAREWELL", "READ_FAREWELL", <<>>, <<>>)
  \/ On("READ_FAREWELL", "READ_FAREWELL", <<>>, <<"quit">>)
  \/ On("READ_FAREWELL", "SEND_FAREWELL", <<>>, <<>>)
  \/ On("READ_FAREWELL", "DONE", <<"quit">>, <<>>)
  \/ On("DONE", "DONE", <<>>, <<>>)

SourceFor(place) ==
  IF place \in {"SEND_GREETINGS", "SEND_FAREWELL"} THEN "write" ELSE "read"

Looping(p) == pc[p] \in {"loop", "inquirer", "handler"}

\* While its task goes on, a process has one source enabled, the one that its
\* state asks for, and attempts no other; while it is in its loop it holds all
\* ends of both pipes, so that neither side finds a pipe closed.
Ready(p) ==
  /\ pc[p] # "aborted"
  /\ leave[p] <=> state[p] = "DONE"
  /\ ~leave[p] => enabled[p] = {SourceFor(state[p])}
  /\ pc[p] \in {"inquirer", "handler"} => ~leave[p] /\ source[p] = SourceFor(state[p])
  /\ Looping(p) => open[p] = Filedes
  /\ ~Looping(p) => leave[p]
  /\ Handles(p, "read") => pipe[p] # <<>>

IInv == TypeOK /\ Conversation /\ \A p \in Procs : Ready(p)

(***************************************************************************)
(* What the invariant says of a process that handles an event.             *)
(***************************************************************************)

LEMMA NoClosedPipe ==
  ASSUME IInv, NEW p \in Procs, Looping(p)
  PROVE  ~EndOfFile(p) /\ ~BrokenPipe(p)
<1>1. open[p] = Filedes
  BY DEF IInv, Ready
<1>2. ReadEnd(Partner(p)) \in Filedes /\ WriteEnd(Partner(p)) \in Filedes
  BY DEF Filedes, Procs, Partner
<1>. QED
  BY <1>1, <1>2 DEF EndOfFile, BrokenPipe

\* A process that speaks finds both pipes empty.
LEMMA RoomToWrite ==
  ASSUME IInv, NEW p \in Procs, Handles(p, "write")
  PROVE  HasRoom(p) /\ pipe["master"] = <<>> /\ pipe["slave"] = <<>>
<1>1. /\ state[p] \in {"SEND_GREETINGS", "SEND_FAREWELL"}
      /\ p = "master" \/ p = "slave"
  BY DEF IInv, Ready, Handles, At, SourceFor, Procs
<1>2. pipe["master"] = <<>> /\ pipe["slave"] = <<>>
  BY <1>1 DEF IInv, Conversation, On
<1>3. Len(<<>>) < PIPE_CAPACITY
  BY PipesAssumption
<1>. QED
  BY <1>1, <1>2, <1>3 DEF HasRoom, Partner

LEMMA JoinedPair ==
  ASSUME NEW a, NEW b
  PROVE  <<a>> \o <<b>> = <<a, b>>
<1>. DEFINE joined == <<a>> \o <<b>>
<1>1. joined \in Seq({a, b}) /\ Len(joined) = 2 /\ joined[1] = a /\ joined[2] = b
  OBVIOUS
<1>. HIDE DEF joined
<1>2. joined = <<a, b>>
  BY <1>1
<1>. QED
  BY <1>2 DEF joined

\* A ring of two nodes, and what is left of it without one of them.
LEMMA TurnedPair ==
  ASSUME NEW a, NEW b
  PROVE  /\ Advanced(<<a, b>>) = <<b, a>>
         /\ Head(<<a, b>>) = a
<1>1. Tail(<<a, b>>) = <<b>> /\ Head(<<a, b>>) = a
  OBVIOUS
<1>2. Append(<<b>>, a) = <<b, a>>
  <2>. DEFINE longer == Append(<<b>>, a)
  <2>1. longer \in Seq({a, b}) /\ Len(longer) = 2 /\ longer[1] = b /\ longer[2] = a
    OBVIOUS
  <2>. HIDE DEF longer
  <2>2. longer = <<b, a>>
    BY <2>1
  <2>. QED
    BY <2>2 DEF longer
<1>3. <<a, b>> # <<>>
  OBVIOUS
<1>. QED
  BY <1>1, <1>2, <1>3 DEF Advanced

LEMMA WithoutOfPair ==
  ASSUME NEW a, NEW b, a # b
  PROVE  /\ Without(<<a, b>>, a) = <<b>>
         /\ Without(<<a, b>>, b) = <<a>>
<1>. DEFINE ring == <<a, b>>
<1>1. ring \in Seq({a, b}) /\ Len(ring) = 2 /\ ring[1] = a /\ ring[2] = b
      /\ DOMAIN ring = 1..2
  OBVIOUS
<1>. HIDE DEF ring
<1>2. a \in Members(ring) /\ b \in Members(ring)
  BY <1>1 DEF Members
<1>3. ASSUME NEW x \in {a, b}, NEW y \in {a, b}, x # y
      PROVE  Without(ring, x) = <<y>>
  <2>. DEFINE rest == Without(ring, x)
  <2>. HIDE DEF rest
  <2>1. x \in Members(ring) /\ ring \in Seq({a, b})
    BY <1>1, <1>2, <1>3
  <2>2. PICK k \in 1..Len(ring) :
          /\ ring[k] = x
          /\ rest \in Seq({a, b}) /\ Len(rest) = Len(ring) - 1
          /\ \A i \in 1..(Len(ring) - 1) :
               IF i < k THEN rest[i] = ring[i] ELSE rest[i] = ring[i + 1]
    BY <2>1, WithoutShape DEF rest
  <2>3. rest \in Seq({a, b}) /\ Len(rest) = 1 /\ rest[1] = y
    BY <1>1, <1>3, <2>2
  <2>4. rest = <<y>>
    BY <2>3
  <2>. QED
    BY <2>4 DEF rest
<1>. QED
  BY <1>3 DEF ring

LEMMA WithoutAlone ==
  ASSUME NEW a
  PROVE  Without(<<a>>, a) = <<>>
<1>. DEFINE ring == <<a>>
            rest == Without(ring, a)
<1>1. a \in Members(ring) /\ ring \in Seq({a}) /\ Len(ring) = 1
  BY DEF Members
<1>. HIDE DEF ring, rest
<1>2. \E k \in 1..Len(ring) : rest \in Seq({a}) /\ Len(rest) = Len(ring) - 1
  BY <1>1, WithoutShape DEF rest
<1>3. rest = <<>>
  BY <1>1, <1>2
<1>. QED
  BY <1>3 DEF ring, rest

(***************************************************************************)
(* The steps of the loop.                                                  *)
(***************************************************************************)

Rings == {<<>>, <<"read", "write">>, <<"write", "read">>}

LEMMA AttemptKeeps ==
  ASSUME IInv, NEW p \in Procs, attempt(p)
  PROVE  IInv'
<1>1. queue[p] \in {<<"read", "write">>, <<"write", "read">>}
  BY DEF IInv, TypeOK, attempt
<1>2. Advanced(queue[p]) \in Rings /\ Head(queue[p]) \in {"read", "write"}
  BY <1>1, TurnedPair DEF Rings
<1>3. TypeOK'
  BY <1>2 DEF IInv, TypeOK, Rings, attempt, Goto
<1>4. Conversation'
  BY DEF IInv, Conversation, On, attempt
<1>5. ASSUME NEW q \in Procs PROVE Ready(q)'
  <2>1. CASE q # p
    BY <2>1 DEF IInv, TypeOK, Ready, Looping, Handles, At, attempt, Goto
  <2>2. CASE q = p
    BY <2>2, <1>2 DEF IInv, TypeOK, Ready, Looping, Handles, At, attempt, Goto
  <2>. QED
    BY <2>1, <2>2
<1>. QED
  BY <1>3, <1>4, <1>5 DEF IInv

\* The inquirer finds a source readable only for a message: while the process is
\* in its loop there is no end of file.
LEMMA QueryKeeps ==
  ASSUME IInv, NEW p \in Procs, query(p) \/ query_fails(p)
  PROVE  IInv'
<1>1. Looping(p) /\ ~EndOfFile(p)
  BY NoClosedPipe DEF query, query_fails, At, Looping
<1>2. /\ UNCHANGED <<pipe, open, state, enabled, queue, leave, source, failing>>
      /\ At(p, "inquirer")
      /\ \/ pc' = [pc EXCEPT ![p] = "loop"]
         \/ /\ pc' = [pc EXCEPT ![p] = "handler"]
            /\ source[p] = "read" => pipe[p] # <<>>
  BY <1>1 DEF query, query_fails, query_fd_readability, Goto, task
<1>3. TypeOK'
  BY <1>2 DEF IInv, TypeOK
<1>4. Conversation'
  BY <1>2 DEF IInv, Conversation, On
<1>5. ASSUME NEW q \in Procs PROVE Ready(q)'
  BY <1>2 DEF IInv, TypeOK, Ready, Looping, Handles, At
<1>. QED
  BY <1>3, <1>4, <1>5 DEF IInv

\* Leaving the loop, finalisation and exit close ends, but only those of a
\* process whose task has ended.
LEMMA EndKeeps ==
  ASSUME IInv, parent_process \/ child_process \/ main
  PROVE  IInv'
<1>1. PICK p \in Procs, place \in {"waitpid", "exited"}, ends \in SUBSET Filedes :
        /\ leave[p]
        /\ pc' = [pc EXCEPT ![p] = place]
        /\ open' = [open EXCEPT ![p] = ends]
        /\ UNCHANGED <<pipe, state, enabled, queue, leave, source, failing>>
  <2>. /\ "master" \in Procs /\ "slave" \in Procs
       /\ {} \in SUBSET Filedes
       /\ open["master"] \ {ReadEnd("master"), WriteEnd("master")} \in SUBSET Filedes
    BY DEF Procs, IInv, TypeOK
  <2>1. CASE parent_process
    BY <2>1 DEF parent_process, Goto, task
  <2>2. CASE child_process
    BY <2>2 DEF child_process, Goto, task
  <2>3. CASE main
    <3>1. pc["slave"] = "exited" /\ leave["master"]
      BY <2>3 DEF main, IInv, Ready, Looping, At
    <3>. QED
      BY <2>3, <3>1 DEF main, Goto, task
  <2>. QED
    BY <2>1, <2>2, <2>3
<1>2. TypeOK'
  BY <1>1 DEF IInv, TypeOK
<1>3. Conversation'
  BY <1>1 DEF IInv, Conversation, On
<1>4. ASSUME NEW q \in Procs PROVE Ready(q)'
  BY <1>1 DEF IInv, TypeOK, Ready, Looping, Handles, At
<1>. QED
  BY <1>2, <1>3, <1>4 DEF IInv

(***************************************************************************)
(* The steps of handlers.  What is written or read is left to the          *)
(* assumptions: the pipes stay sequences of messages, and nobody takes a   *)
(* message from the other process.                                         *)
(***************************************************************************)

Messages == {"hello", "quit"}

LEMMA HandlerHolds ==
  ASSUME IInv, NEW p \in Procs, At(p, "handler")
  PROVE  /\ ~leave[p] /\ state[p] # "DONE"
         /\ source[p] \in {"read", "write"} /\ source[p] = SourceFor(state[p])
         /\ enabled[p] = {source[p]}
         /\ open[p] = Filedes /\ ~EndOfFile(p) /\ ~BrokenPipe(p)
         /\ source[p] = "read" => pipe[p] # <<>>
<1>1. Looping(p) /\ Ready(p)
  BY DEF IInv, Looping, At
<1>. QED
  BY <1>1, NoClosedPipe DEF IInv, TypeOK, Ready, At, Handles

LEMMA ContinueKeeps ==
  ASSUME IInv, NEW p \in Procs, At(p, "handler"),
         NEW place \in States \ {"DONE"}, SourceFor(place) # source[p],
         Continue(p, place), UNCHANGED <<source, failing>>,
         pipe' \in [Procs -> Seq(Messages)],
         \A q \in Procs : q # p /\ pipe[q] # <<>> => pipe'[q] # <<>>
  PROVE  TypeOK' /\ \A q \in Procs : Ready(q)'
<1>1. /\ source[p] \in {"read", "write"} /\ enabled[p] = {source[p]}
      /\ ~leave[p] /\ open[p] = Filedes
  BY HandlerHolds
<1>2. /\ enabled' = [enabled EXCEPT ![p] = {SourceFor(place)}]
      /\ state' = [state EXCEPT ![p] = place]
      /\ pc' = [pc EXCEPT ![p] = "loop"]
      /\ UNCHANGED <<queue, leave, open, source, failing>>
  BY <1>1 DEF Continue, Goto, SourceFor
<1>3. SourceFor(place) \in {"read", "write"}
  BY DEF SourceFor
<1>4. TypeOK'
  BY <1>2, <1>3 DEF IInv, TypeOK, Messages
<1>5. ASSUME NEW q \in Procs PROVE Ready(q)'
  <2>1. CASE q # p
    BY <1>2, <2>1 DEF IInv, TypeOK, Ready, Looping, Handles, At
  <2>2. CASE q = p
    BY <1>1, <1>2, <2>2 DEF IInv, TypeOK, Ready, Looping, Handles, At
  <2>. QED
    BY <2>1, <2>2
<1>. QED
  BY <1>4, <1>5

LEMMA FinalKeeps ==
  ASSUME IInv, NEW p \in Procs, At(p, "handler"),
         task_final(p), UNCHANGED <<source, failing>>,
         pipe' \in [Procs -> Seq(Messages)],
         \A q \in Procs : q # p /\ pipe[q] # <<>> => pipe'[q] # <<>>
  PROVE  TypeOK' /\ \A q \in Procs : Ready(q)'
<1>1. Without(Without(queue[p], "read"), "write") \in Rings
  <2>1. Without(<<>>, "read") = <<>> /\ Without(<<>>, "write") = <<>>
    BY DEF Without, Members
  <2>2. /\ Without(<<"read", "write">>, "read") = <<"write">>
        /\ Without(<<"write", "read">>, "read") = <<"write">>
    BY WithoutOfPair
  <2>3. Without(<<"write">>, "write") = <<>>
    BY WithoutAlone
  <2>4. queue[p] \in {<<>>, <<"read", "write">>, <<"write", "read">>}
    BY DEF IInv, TypeOK
  <2>. QED
    BY <2>1, <2>2, <2>3, <2>4 DEF Rings
<1>2. EnabledInHandler(p) \in SUBSET {"read", "write"}
  BY DEF EnabledInHandler, IInv, TypeOK
<1>3. TypeOK'
  BY <1>1, <1>2 DEF IInv, TypeOK, task_final, Goto, Rings, Messages, States
<1>4. ASSUME NEW q \in Procs PROVE Ready(q)'
  <2>1. CASE q # p
    BY <2>1 DEF IInv, TypeOK, Ready, Looping, Handles, At, task_final, Goto
  <2>2. CASE q = p
    BY <2>2, HandlerHolds DEF IInv, TypeOK, Ready, Looping, Handles, At, task_final, Goto
  <2>. QED
    BY <2>1, <2>2
<1>. QED
  BY <1>3, <1>4

LEMMA HandlerFailsKeeps ==
  ASSUME IInv, NEW p \in Procs, handler_fails(p)
  PROVE  IInv'
<1>1. At(p, "handler") /\ task_final(p) /\ UNCHANGED <<pipe, source, failing>>
  BY DEF handler_fails
<1>2. TypeOK' /\ \A q \in Procs : Ready(q)'
  BY <1>1, FinalKeeps DEF IInv, TypeOK, Messages
<1>3. state' = [state EXCEPT ![p] = "DONE"] /\ pipe' = pipe
  BY <1>1 DEF task_final
<1>4. Conversation'
  BY <1>3 DEF IInv, TypeOK, Conversation, On
<1>. QED
  BY <1>2, <1>4 DEF IInv

(***************************************************************************)
(* The handlers: each of them moves the conversation to its next place and *)
(* never to a failed assertion.                                            *)
(***************************************************************************)

LEMMA TakenOut ==
  ASSUME IInv, NEW p \in Procs, read(p)
  PROVE  /\ pipe' = [pipe EXCEPT ![p] = <<>>]
         /\ pipe' \in [Procs -> Seq(Messages)]
         /\ \A q \in Procs : q # p /\ pipe[q] # <<>> => pipe'[q] # <<>>
<1>1. pipe' = [pipe EXCEPT ![p] = <<>>]
  BY DEF read
<1>2. pipe \in [Procs -> Seq(Messages)]
  BY DEF IInv, TypeOK, Messages
<1>3. <<>> \in Seq(Messages)
  OBVIOUS
<1>. QED
  BY <1>1, <1>2, <1>3

LEMMA MasterReadKeeps ==
  ASSUME IInv, master_read_event_handler
  PROVE  IInv'
<1>. DEFINE p == "master"
<1>1. p \in Procs /\ At(p, "handler") /\ source[p] = "read" /\ UNCHANGED <<source, failing>>
  BY DEF master_read_event_handler, Handles, Procs
<1>2. pipe[p] # <<>> /\ SourceFor(state[p]) = "read" /\ state[p] # "DONE" /\ ~EndOfFile(p)
  BY <1>1, HandlerHolds
<1>3. /\ state[p] = "READ_GREETINGS" => Received(p) = "hello"
      /\ state[p] = "READ_FAREWELL" => Received(p) = "quit"
      /\ state[p] \in {"READ_GREETINGS", "READ_FAREWELL"}
  <2>1. state[p] \in {"READ_GREETINGS", "READ_FAREWELL"}
    BY <1>1, <1>2 DEF IInv, TypeOK, States, SourceFor
  <2>2. /\ state[p] = "READ_GREETINGS" => pipe[p] = <<"hello">>
        /\ state[p] = "READ_FAREWELL" => pipe[p] = <<"quit">>
    BY <1>2 DEF IInv, Conversation, On
  <2>. QED
    BY <1>2, <2>1, <2>2 DEF Received
<1>4. \/ /\ state[p] = "READ_GREETINGS" /\ read(p) /\ Continue(p, "SEND_FAREWELL")
      \/ /\ state[p] = "READ_FAREWELL" /\ read(p) /\ task_final(p)
  BY <1>3 DEF master_read_event_handler, Reads
<1>5. /\ pipe' = [pipe EXCEPT ![p] = <<>>]
      /\ pipe' \in [Procs -> Seq(Messages)]
      /\ \A q \in Procs : q # p /\ pipe[q] # <<>> => pipe'[q] # <<>>
  BY <1>1, <1>4, TakenOut
<1>6. CASE state[p] = "READ_GREETINGS"
  <2>1. Continue(p, "SEND_FAREWELL")
    BY <1>4, <1>6
  <2>2. TypeOK' /\ \A q \in Procs : Ready(q)'
    BY <1>1, <1>5, <2>1, ContinueKeeps DEF States, SourceFor
  <2>3. Conversation'
    BY <1>2, <1>5, <1>6, <2>1 DEF Continue, IInv, TypeOK, Procs, Conversation, On
  <2>. QED
    BY <2>2, <2>3 DEF IInv
<1>7. CASE state[p] = "READ_FAREWELL"
  <2>1. task_final(p)
    BY <1>4, <1>7
  <2>2. TypeOK' /\ \A q \in Procs : Ready(q)'
    BY <1>1, <1>5, <2>1, FinalKeeps
  <2>3. Conversation'
    BY <1>2, <1>5, <1>7, <2>1 DEF task_final, IInv, TypeOK, Procs, Conversation, On
  <2>. QED
    BY <2>2, <2>3 DEF IInv
<1>. QED
  BY <1>3, <1>6, <1>7

LEMMA SlaveReadKeeps ==
  ASSUME IInv, slave_read_event_handler
  PROVE  IInv'
<1>. DEFINE p == "slave"
<1>1. p \in Procs /\ At(p, "handler") /\ source[p] = "read" /\ UNCHANGED <<source, failing>>
  BY DEF slave_read_event_handler, Handles, Procs
<1>2. pipe[p] # <<>> /\ SourceFor(state[p]) = "read" /\ state[p] # "DONE" /\ ~EndOfFile(p)
  BY <1>1, HandlerHolds
<1>3. /\ state[p] = "READ_GREETINGS" => Received(p) = "hello"
      /\ state[p] = "READ_FAREWELL" => Received(p) = "quit"
      /\ state[p] \in {"READ_GREETINGS", "READ_FAREWELL"}
  <2>1. state[p] \in {"READ_GREETINGS", "READ_FAREWELL"}
    BY <1>1, <1>2 DEF IInv, TypeOK, States, SourceFor
  <2>2. /\ state[p] = "READ_GREETINGS" => pipe[p] = <<"hello">>
        /\ state[p] = "READ_FAREWELL" => pipe[p] = <<"quit">>
    BY <1>2 DEF IInv, Conversation, On
  <2>. QED
    BY <1>2, <2>1, <2>2 DEF Received
<1>4. PICK place \in {"SEND_GREETINGS", "SEND_FAREWELL"} :
        /\ read(p) /\ Continue(p, place)
        /\ state[p] = IF place = "SEND_GREETINGS" THEN "READ_GREETINGS" ELSE "READ_FAREWELL"
  BY <1>3 DEF slave_read_event_handler, Reads
<1>5. /\ pipe' = [pipe EXCEPT ![p] = <<>>]
      /\ pipe' \in [Procs -> Seq(Messages)]
      /\ \A q \in Procs : q # p /\ pipe[q] # <<>> => pipe'[q] # <<>>
  BY <1>1, <1>4, TakenOut
<1>6. TypeOK' /\ \A q \in Procs : Ready(q)'
  BY <1>1, <1>4, <1>5, ContinueKeeps DEF States, SourceFor
<1>7. Conversation'
  BY <1>2, <1>4, <1>5 DEF Continue, IInv, TypeOK, Procs, Conversation, On
<1>. QED
  BY <1>6, <1>7 DEF IInv

\* What a handler that writes finds and does, for either process.
LEMMA Written ==
  ASSUME IInv, NEW p \in Procs, Handles(p, "write"), NEW message \in Messages,
         write(p, message)
  PROVE  /\ pipe' = [pipe EXCEPT ![Partner(p)] = <<message>>]
         /\ pipe' \in [Procs -> Seq(Messages)]
         /\ \A q \in Procs : q # p /\ pipe[q] # <<>> => pipe'[q] # <<>>
<1>1. pipe[Partner(p)] = <<>> /\ Partner(p) \in Procs
  BY RoomToWrite DEF Partner, Procs
<1>2. pipe' = [pipe EXCEPT ![Partner(p)] = <<message>>]
  BY <1>1 DEF write
<1>. QED
  BY <1>1, <1>2 DEF IInv, TypeOK, Messages

LEMMA MasterWriteKeeps ==
  ASSUME IInv, master_write_event_handler
  PROVE  IInv'
<1>. DEFINE p == "master"
<1>1. /\ p \in Procs /\ At(p, "handler") /\ source[p] = "write" /\ Handles(p, "write")
      /\ UNCHANGED <<source, failing>>
  BY DEF master_write_event_handler, Handles, Procs
<1>2. SourceFor(state[p]) = "write" /\ state[p] # "DONE" /\ ~BrokenPipe(p)
      /\ pipe["master"] = <<>> /\ pipe["slave"] = <<>>
  BY <1>1, HandlerHolds, RoomToWrite
<1>3. state[p] \in {"SEND_GREETINGS", "SEND_FAREWELL"}
  BY <1>2 DEF SourceFor
<1>4. PICK place \in {"READ_GREETINGS", "READ_FAREWELL"}, message \in Messages :
        /\ write(p, message) /\ Continue(p, place)
        /\ IF place = "READ_GREETINGS"
             THEN state[p] = "SEND_GREETINGS" /\ message = "hello"
             ELSE state[p] = "SEND_FAREWELL" /\ message = "quit"
  BY <1>2, <1>3 DEF master_write_event_handler, Messages
<1>5. /\ pipe' = [pipe EXCEPT !["slave"] = <<message>>]
      /\ pipe' \in [Procs -> Seq(Messages)]
      /\ \A q \in Procs : q # p /\ pipe[q] # <<>> => pipe'[q] # <<>>
  BY <1>1, <1>4, Written DEF Partner
<1>6. TypeOK' /\ \A q \in Procs : Ready(q)'
  BY <1>1, <1>4, <1>5, ContinueKeeps DEF States, SourceFor
<1>7. Conversation'
  BY <1>2, <1>4, <1>5 DEF Continue, IInv, TypeOK, Procs, Conversation, On
<1>. QED
  BY <1>6, <1>7 DEF IInv

LEMMA SlaveWriteKeeps ==
  ASSUME IInv, slave_write_event_handler
  PROVE  IInv'
<1>. DEFINE p == "slave"
<1>1. /\ p \in Procs /\ At(p, "handler") /\ source[p] = "write" /\ Handles(p, "write")
      /\ UNCHANGED <<source, failing>>
  BY DEF slave_write_event_handler, Handles, Procs
<1>2. SourceFor(state[p]) = "write" /\ state[p] # "DONE" /\ ~BrokenPipe(p)
      /\ pipe["master"] = <<>> /\ pipe["slave"] = <<>>
  BY <1>1, HandlerHolds, RoomToWrite
<1>3. state[p] \in {"SEND_GREETINGS", "SEND_FAREWELL"}
  BY <1>2 DEF SourceFor
<1>4. CASE state[p] = "SEND_GREETINGS"
  <2>1. write(p, "hello") /\ Continue(p, "READ_FAREWELL") /\ "hello" \in Messages
    BY <1>2, <1>4 DEF slave_write_event_handler, Messages
  <2>2. /\ pipe' = [pipe EXCEPT !["master"] = <<"hello">>]
        /\ pipe' \in [Procs -> Seq(Messages)]
        /\ \A q \in Procs : q # p /\ pipe[q] # <<>> => pipe'[q] # <<>>
    BY <1>1, <2>1, Written DEF Partner
  <2>3. TypeOK' /\ \A q \in Procs : Ready(q)'
    BY <1>1, <2>1, <2>2, ContinueKeeps DEF States, SourceFor
  <2>4. Conversation'
    BY <1>2, <1>4, <2>1, <2>2 DEF Continue, IInv, TypeOK, Procs, Conversation, On
  <2>. QED
    BY <2>3, <2>4 DEF IInv
<1>5. CASE state[p] = "SEND_FAREWELL"
  <2>1. write(p, "quit") /\ task_final(p) /\ "quit" \in Messages
    BY <1>2, <1>5 DEF slave_write_event_handler, Messages
  <2>2. /\ pipe' = [pipe EXCEPT !["master"] = <<"quit">>]
        /\ pipe' \in [Procs -> Seq(Messages)]
        /\ \A q \in Procs : q # p /\ pipe[q] # <<>> => pipe'[q] # <<>>
    BY <1>1, <2>1, Written DEF Partner
  <2>3. TypeOK' /\ \A q \in Procs : Ready(q)'
    BY <1>1, <2>1, <2>2, FinalKeeps
  <2>4. Conversation'
    BY <1>2, <1>5, <2>1, <2>2 DEF task_final, IInv, TypeOK, Procs, Conversation, On
  <2>. QED
    BY <2>3, <2>4 DEF IInv
<1>. QED
  BY <1>3, <1>4, <1>5

(***************************************************************************)
(* The theorems.                                                           *)
(***************************************************************************)

LEMMA InitEstablishes == Init => IInv
<1>. SUFFICES ASSUME Init PROVE IInv
  OBVIOUS
<1>1. FirstQueue = <<"write", "read">>
  <2>1. <<"read">> \o <<>> = <<"read">>
    OBVIOUS
  <2>2. <<"write">> \o <<"read">> = <<"write", "read">>
    BY JoinedPair
  <2>. QED
    BY <2>1, <2>2 DEF FirstQueue, Enqueued
<1>2. TypeOK
  BY <1>1 DEF Init, TypeOK, Fresh, master_state_init, slave_state_init, States,
     ends_after_fork
<1>3. Conversation
  BY DEF Init, Conversation, On, Procs, Fresh, master_state_init, slave_state_init
<1>4. \A p \in Procs : Ready(p)
  BY DEF Init, Ready, Looping, Handles, At, SourceFor, Procs, Fresh, ends_after_fork,
     master_state_init, slave_state_init
<1>. QED
  BY <1>2, <1>3, <1>4 DEF IInv

LEMMA StepKeeps == IInv /\ [Next]_vars => IInv'
<1>. SUFFICES ASSUME IInv, [Next]_vars PROVE IInv'
  OBVIOUS
<1>1. ASSUME NEW p \in Procs, attempt(p) PROVE IInv'
  BY <1>1, AttemptKeeps
<1>2. ASSUME NEW p \in Procs, query(p) \/ query_fails(p) PROVE IInv'
  BY <1>2, QueryKeeps
<1>3. ASSUME NEW p \in Procs, handler_fails(p) PROVE IInv'
  BY <1>3, HandlerFailsKeeps
<1>4. ASSUME Master \/ Slave PROVE IInv'
  BY <1>4, MasterReadKeeps, MasterWriteKeeps, SlaveReadKeeps, SlaveWriteKeeps, EndKeeps
     DEF Master, Slave
<1>5. CASE UNCHANGED vars
  BY <1>5 DEF vars, task, IInv, TypeOK, Conversation, On, Ready, Looping, Handles, At
<1>. QED
  BY <1>1, <1>2, <1>3, <1>4, <1>5 DEF Next, Step

\* Every reachable state of the two processes is one of the nine places of the
\* conversation, and a handler that is about to run is ready for its descriptor.
THEOREM PipesInvariance == Spec => []IInv
<1>. QED
  BY InitEstablishes, StepKeeps, PTL DEF Spec

\* The state of both processes and of the pipes between them keeps its type; in
\* particular the group of a process never holds anything but its two sources.
THEOREM PipesTypeCorrect == Spec => []TypeOK
<1>1. IInv => TypeOK
  BY DEF IInv
<1>. QED
  BY <1>1, PipesInvariance, PTL

\* No handler of the demo meets a state or a message it does not expect, and no
\* process writes into a closed pipe, whichever system calls fail.
THEOREM NobodyAbortsCorrect == Spec => []NobodyAborts
<1>1. IInv => NobodyAborts
  BY DEF IInv, Ready, NobodyAborts
<1>. QED
  BY <1>1, PipesInvariance, PTL

\* There is never more than one message on the way, in either direction.
THEOREM OneMessageCorrect == Spec => []OneMessage
<1>1. IInv => OneMessage
  <2>1. Len(<<>>) <= 1 /\ Len(<<"hello">>) <= 1 /\ Len(<<"quit">>) <= 1
    OBVIOUS
  <2>. QED
    BY <2>1 DEF IInv, Conversation, On, OneMessage, Procs
<1>. QED
  BY <1>1, PipesInvariance, PTL

\* A handler that reads finds a message, one that writes finds room: neither
\* system call blocks the loop, however small the pipes are.
THEOREM NobodyBlocksCorrect == Spec => []NobodyBlocks
<1>1. IInv => NobodyBlocks
  BY RoomToWrite DEF IInv, Ready, NobodyBlocks
<1>. QED
  BY <1>1, PipesInvariance, PTL
=============================================================================
