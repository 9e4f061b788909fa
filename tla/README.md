# CCEvents in TLA+

CCEvents is a C library for event loops: a program enqueues *event sources* in
*groups*, groups in a *loop*, and enters the loop, which calls the program back
when a source has an event or its time has passed. The library has one thread,
no locks and no persistent state. What is hard about it is

  * hand-written circular doubly linked lists with a separate counter, on which
    everything else is built;
  * callbacks that change the queues, the flags and the sources while the
    library walks over them, that raise exceptions, and that may enter the
    library again;
  * requests to leave that are written and erased from several places;
  * fairness: who gets a turn, how long a group may keep the loop;
  * Unix signals, which arrive between any two instructions;
  * arithmetic on times at the limits of `long`.

This directory holds TLA+ modules of these parts, configurations that check
them with TLC and proofs that TLAPS checks.

## The parts of the library

| part | state | operations | correct when |
|---|---|---|---|
| queues (`ccevents-queues.c`) | per node `base`, `next`, `prev`; per queue `current`, `number_of_nodes` | init, enqueue, dequeue, advance, node dequeues itself | pointers form one ring per queue, counter exact, order as expected |
| loops (`ccevents-loops.c`) | queue of groups, `request_to_leave` | init, final, enter, enqueue and dequeue group, post request | groups take turns, a request ends the loop, final finalises everything |
| groups (`ccevents-groups.c`) | queue of sources, `request_to_leave`, watermark | init, final, enter, enqueue and dequeue source, post request | sources take turns, a call makes at most watermark attempts and returns, exceptions are contained |
| sources (`ccevents-sources-base.c`) | `enabled`, `expiration_time`, method tables, callbacks | init, final, set timeout, enable, disable, do one event | a disabled source is not called, an expired one gets its expiration handler, otherwise inquirer then handler |
| fd, task, timer sources | descriptor, inquirer, handler | init, set, select(2) inquirers | what is called is what the program set last; an fd source that is not set does nothing |
| signal sources (`ccevents-sources-signal.c`) | a flag per signal, the process mask and dispositions | bub init, final, acquire, delivered, source init and set | a signal sent is reported, once per merge, and none is handled outside acquire |
| time values, timeouts | seconds and micro, milli seconds in `long` | init, normalise, add, subtract, compare, expired, start | normalised results of the exact value, overflow reported |
| conditions, core | descriptor tables, an initialisation flag | module initialisation, constructors and predicates | each descriptor has its parent |
| pipes demo | two processes, states of a conversation | read and write handlers, finalisation tasks | both processes finish |

How they interact: `ccevents_loop_enter` takes the current group, advances its
queue and calls `ccevents_group_enter`, which takes the current source,
advances and calls `ccevents_source_do_one_event` under an exception location;
that calls the expiration handler, or the inquirer and then the event handler.
These are code of the program and may call every function above again. Groups
look at the request flag of the loop they are enqueued in, which need not be
the loop that runs them.

## Modules

| module | what it is |
|---|---|
| `RingOps` | the four queue operations on sequences (current node first) |
| `Ring` | what a queue promises: sequences without repetition, one edit per operation |
| `Queue` | the linked lists, pointer by pointer, one action per function; `ImplementsRing` maps them to `Ring` |
| `RingOpsProofs` | facts that several proofs need: what the operations of `RingOps` return, and induction over sets of numbers |
| `QueueProofs`, `EventLoopProofs`, `TurnsProofs`, `SignalBubProofs`, `SourcesProofs`, `TimesProofs`, `PipesProofs` | theorems about `Queue`, `EventLoop`, `Turns`, `SignalBub`, `Sources`, `Times` and `Pipes` |
| `EventLoop` | loops, groups, sources, callbacks and finalisation, on the sequences of `RingOps` |
| `Turns` | `EventLoop` with a history variable: who had a turn while whom was waiting |
| `SignalBub` | the block/unblock interface to signals, the handler and the kernel's part |
| `Sources` | `EventLoop` and `SignalBub` composed: fd, task, timer and signal sources in a loop |
| `Conditions` | the descriptors of the exceptional conditions and the initialisation of the library |
| `Times` | time spans and expiration times, their arithmetic and its limits |
| `Pipes` | the demo program: two processes with an event loop each, talking through two pipes |
| `MCQueue`, `MCEventLoop`, `MCTurns`, `MCSignalBub`, `MCSources` | small instances for TLC |

### Queue

One variable per struct field. The functions are sequential code of a
single-threaded library, so each is one action; where the code assigns
pointers one after the other the action gives the final values, with old
values read where the code saved them. `extract` is the branch of
`ccevents_queue_node_dequeue_itself` for a node that is not the current one.
The guard of `enqueue` (the node is in no queue) is a duty of the caller: the
code does not test it.

### EventLoop

The C stack is the variable `stack`, a sequence of frames with the innermost
first. A frame is a call of `loop_enter`, of `group_enter` with its local
`servicing_attempts_count`, or of `do_one_event` with the place where it is:

    entered --> inquirer --> event_handler --> unwinding
       |           |                             ^
       |           +-- no event, exception ------+
       +--> expiration_handler ------------------+
       +--> (disabled) --------------------------+

`loop_turn`, `group_turn`, `loop_return`, `group_return` are the iterations and
the ends of the two `while` loops; `is_disabled`, `is_expired`, `query` the
branches of `do_one_event`. In a callback, and in `unwinding`, where handlers
that callbacks registered at the exception location are run, the program
executes: any operation in the constant `Ops` may happen, any number of times,
and so may nested calls while the stack is shorter than `MaxDepth`. With an
empty stack the program's main function executes. `raise` is an exception from
a callback: the frame goes to `unwinding` and the group continues.

Abstractions: an expiration time is `"never"`, `"future"` or `"past"` and the
action `clock_passes` moves it; inquirers answer freely, which covers select(2),
signal flags, timers and programs; final methods only record the source in
`finalised`; `loop_final` and `group_final` are one step each, since the final
methods are not supposed to touch the queues. `release` is a program that calls
`ccevents_source_final` for a source of its own and frees it, in a callback or
outside. `loop_post_request_to_leave` is
declared `pure` in the header although it writes: it is modelled as the write.

Some operations are right only if the caller keeps to a rule that the code does
not test. The rules are guards of the model: an object that is enqueued is in
no queue of its kind and not finalised; the settings of a finalised source are
not written; a source that is released is in no queue, and is not the one whose
inquirer runs, since `do_one_event` reads its event handler afterwards
(`ccevents-sources-base.c:166`); `ccevents_group_dequeue_source` is called for a
group that has a source. For `group_final` and `loop_final` `EventLoop` has no such rule:
an inquirer may finalise the group it is attempted from, and `do_one_event` goes on
with a finalised source. That is harmless as long as its final method does not
release it; `FinalisedIsGone` is about attempts that begin, and the rule is in
`Sources`. The guard of `group_dequeue_source` is there because the code follows
a null pointer otherwise (`ccevents.h:881`), although the manual says that it returns null
(`doc/ccevents.texi:2178`); `ccevents_loop_dequeue_group` goes through the queue's own
function, which tests for that, so it has no guard.

### Sources

`Sources` extends `EventLoop` with what a source is (`type`, chosen by the
program and never changed), with what its pointers to functions hold
(`callbacks`: `"stale"` when the init function leaves the memory as it was,
`"default"` for the library's own, `"set"` for the program's) and with an instance
of `SignalBub`. Where `EventLoop` has a free inquirer, here is the one of each
kind: a timer never finds an event; an fd source finds none until it is set and
then asks select(2), which may fail; a task source calls the program; a signal
source calls `ccevents_signal_bub_delivered`, whose two steps are those of
`SignalBub`. One task, `Acquirer`, is the task of the manual that calls
`ccevents_signal_bub_acquire`: its inquirer stays at its place while signals are
delivered one after the other. Signals are sent at any time. While a function
of the interface runs (`pc` is not `"client"`), nothing else does but the kernel.

Every step is a step of `EventLoop` or leaves its state alone, and likewise of
`SignalBub`; both are theorems. The init functions are those of `EventLoop`
together with what they do to the pointers, which is where the kinds differ:
`ccevents_fd_source_init` stores the default callbacks,
`ccevents_task_source_init` and `ccevents_signal_bub_source_init` store none, and
the latter clears the flag of its signal. `unhandled` is a history variable: the
signals delivered and not yet given to an event handler.

The program uses all operations of `EventLoop`: it takes sources and groups out of
their queues, also in callbacks (`DequeueOp`), and finalises sources, groups and the
loop (`FinalisingOp`). Rules for it, beside those of `EventLoop`: a task or signal
source is set before it is enqueued or entered (`MayBeEnqueued`, `MayBeEntered`), a
source is not initialised while a call for it is on the stack, and while its
inquirer runs nobody finalises it, its group or its loop, since the final method may
release it. The program enqueues only while no call is on the stack; that a callback
enqueues is in `EventLoop` and `Turns`.

### Conditions

The exceptional conditions of the library are objects with a descriptor each,
and a descriptor points to its parent. `static_parents` is what the compiler
stores; the pointer of the base descriptor to the root of CCExceptions, an
object of another library, is stored by
`ccevents_conditions_module_initialisation`. `lineage` is the walk along the
parents that `cce_is_condition` makes. `ccevents_init` is a constructor, called
before main and perhaps again by the program. See the finding below.

### SignalBub

Signals may be sent between any two steps, so here a C function is several
actions: each system call and each access to `arrived_signals` is a step of its
own (`init_block`, then `init_clear` and `init_action` for each signal, and so
on; `delivered` reads the flag, `delivered_clear` clears it). `pc` is the place
in the function that runs, `"client"` when none does. The kernel is modelled
after POSIX: pending signals are merged; a call of `sigprocmask` that unblocks
pending signals delivers at least one before it returns (`"unblocking"`) and
any others may follow (`"unblocked"`). An ignored signal that is blocked may be
kept or dropped. The model has the signals that can be caught; for the others
`sigaction` fails and the code ignores the error. The program calls `acquire`
and `final` only while the interface is initialised and does not initialise it
twice.

`owed` and `fresh` are history variables: the signals the program has still to
be told of, and those delivered since the calls the documentation names. Some
functions forget signals on purpose (`Forgetting`): initialisation and
finalisation, and the initialisation of a signal source (`source_init_clear`).
The properties except what was sent before these.

### Times

Timevals and timeouts are records of C longs. `LONG_MAX` and the radix `K`,
which stands for 1000, are constants; sums of longs wrap around (`Long`), and
division truncates (`Quot`, `Rem`). `distribute` is what
`ccevents_timeval_normalise` and `normalise_little_into_big` have in common: a
`borrow` for negative counts, the test for a negative result, and a guarded
`carry`. `normalise_through_huge` is the second function when it is given a
count of seconds, with the call of itself on the milliseconds. A function that
may raise returns a record with the condition or the value.

The state is one value that a program computes with the functions (`held`) and
what the last one raised. The history variables `due`, `forever` and `limit` hold
the exact result in microseconds, whether an infinite time was named, and
whether the request is at the limits of what can be represented. The clock is any
normalised timeval, whenever it is read: `gettimeofday` may jump. That operands
are normalised is asserted by the code and a guard of the model, so
`CCEVENTS_TIMEVAL_NEVER`, which is not, is compared and tested but not added to.

A timeout that a program sets with LONG_MAX seconds and a negative count of
smaller units is finite; this is what the code does, and `forever` records only
what was named.

### Pipes

The demo is the repository's one complete program, and the place where loops,
groups and fd sources work together: two processes, each with one group of a
read and a write source, whose handlers enable and disable the sources as a
conversation of four messages goes on (`hello`, `hello`, `quit`, `quit`). The
module keeps of the loop what the program relies on, which is what `EventLoop`
and `Turns` are checked for: `attempt` takes the first source of the queue, passes
over a disabled one, and begins only while no request to leave is posted;
`query` is the inquirer, and the handler runs in a later step, when the other
process has perhaps gone on. A pipe is a sequence of messages with room for
`PIPE_CAPACITY`; `open` says which ends each process has open, since the end of
a file, and the signal SIGPIPE, depend on all of them. A read takes what is
there and a write is not split: a message is shorter than PIPE_BUF. `failing` is
the set of processes in which a system call of an inquirer (`query_fails`) or of a
handler (`handler_fails`) may raise an exception. An assertion that does not
hold, or SIGPIPE, is `abort`.

`NobodyAborts` holds with failures because neither process closes the ends it does
not use after the fork: a process whose partner has gone never sees the end of
its pipe. The price is that it polls for ever, and so does a parent that waits
for such a child; `BothFinish` is therefore stated for runs without failures.
With the ends closed (`Fault_fork_closes_other_ends`) the end of the file would be
read as an empty message, and the assertion on the greetings fail.

Definitions whose name begins with `Fault_` are variants with a mistake that
such code might have. No specification uses them: each stands next to the
definition it varies and documents which property would notice the mistake.

## Runs

| run | instance | what it shows |
|---|---|---|
| `queues` | 5 nodes, 2 queues | type invariant, `Links`, `CurrentInside`, `CountExact`, `OneRing`; `ImplementsRing`: the lists behave as the sequences of `Ring` |
| `callbacks` | 1 loop, 2 groups, 2 sources; callbacks move, finalise and initialise them, post requests and raise, fair | `TypeOK`, `FinalisedIsGone`, `AttemptsWithinWatermark`, `RequestStands`, `LoopIsLeft`, `GroupIsLeft` |
| `nested_calls` | 1 loop, 1 group, 2 sources, calls nested to two levels | `AttemptsWithinWatermark`, `RequestStands` for every call on the stack, `SourcesTakeTurns` across the calls |
| `turns` | 3 groups of one loop, 3 sources of one group | `SourcesTakeTurns`, `GroupsTakeTurns` |
| `service` | 2 groups, 3 sources, timeouts, enabling, everything but enqueuing, fair | `NoStarvation`, `TimeoutIsHandled` |
| `sources` | 1 group, 3 sources: the acquiring task, a source of a signal, and one of any kind, also of the same signal; fair | `SourcesTypeOK`, `CallbacksAreCurrent`, `OneHandlerPerDelivery`, `ReleasedIsLeftAlone`, `SignalIsHandled` |
| `signals` | 3 signals, init, final and init again, fair | `TypeOK`, `NoSignalLost`, `HandledInAcquireOnly`, `NeverTerminated`, `SignalIsReported` |
| `signal_fresh` | 2 signals, a program that polls | violation of `ReportIsFresh`, see below |
| `times` | radix 3, LONG_MAX 20, all arguments | `TypeOK`, `HeldIsExact`, `InfiniteOnDemand`, `RaisesOnlyAtLimit`, `CompareIsOrder`, `ExpiresWhenDue` |
| `pipes` | the demo, pipes for two messages, either process, both or none may fail, fair | `TypeOK`, `NobodyAborts`, `OneMessage`, `NobodyBlocks`, `BothFinish` |
| `times_unfit` | as `times` | violation of `RaisesOnlyIfUnfit`, see below |
| `conditions` | all the descriptors | violation of `ConditionsDescendFromRoot`, see below |

Finding: representable spans are refused. The comment of
`ccevents_timeout_init` (`ccevents-timeouts.c:129`) promises an exception if the
values would overflow the representation. A negative count of small units
borrows one unit more than an exact multiple needs (`ccevents-timevals.c:84`,
`ccevents-timeouts.c:96`); a carry would give it back, but the test for a negative
count comes first. So `ccevents_timeval_init(L, 1, -1000000)`, which is 0,
raises an overflow, and so does `ccevents_timeout_init(L, 1, 0, -999500)`, which is
500 microseconds: there the milliseconds become -1000, and borrowing for them
takes two seconds. Milliseconds are also normalised before the microseconds are
looked at: `ccevents_timeout_init(L, 0, -1, 1000000)`, 999 milliseconds, is
refused. `RaisesOnlyAtLimit`, which holds, says where exactly: for a timeval of
zero, for a timeout of at most one millisecond, and where seconds and
milliseconds alone are out of range. The condition for a negative timeout is, by
the way, `timeval_overflow`, not `timeout_overflow` (`ccevents-timeouts.c:106`).

Finding: an old report. `signal_fresh` checks what the documentation says of
`ccevents_signal_bub_delivered`: that it is true if the signal was delivered
since the last call of `acquire`, `final` or `delivered`
(`doc/ccevents.texi:1921`, and the comment at `ccevents-sources-signal.c:117`).
The code does not clear flags in `acquire`, so a signal handled in one call of
`acquire` is reported after the next one too. `SignalIsReported` and
`NoSignalLost` show that the code's behaviour is the more useful one: with
clearing, a signal nobody asked for between two calls would be lost.

Finding: the module initialisation never runs. `ccevents_init`
(`ccevents-core.c:35`) initialises the module of conditions if its flag says that
this was done before, and sets the flag only then. The flag is false at first, so
it stays false, the base descriptor keeps a null parent, and no condition of
the library is one of the root type, which the manual gives as the parent of the
base type (`doc/ccevents.texi:305`) and the comment at
`ccevents-conditions.c:39` expects the initialisation to store. A handler that
tests for the root type would not recognise the library's conditions.

Bounds. Five nodes in two queues give rings of zero to five nodes, so that all
alias cases (a node that is its own neighbour, two neighbours that are the
same node) and the general one occur, beside another queue. Three items in a
ring are the fewest for which skipping one is visible as a change of order.
Round robin is therefore checked with three sources and three groups; with nested
calls there are two sources, enough for one to be passed over by the other's calls.
Watermarks 1 and 2 give a group that ends by its watermark after one attempt
and one that goes round. `MaxDepth` bounds the frames below a nested call: 1
lets only the main function enter, 4 lets a callback under it enter again. Nothing else is bounded: callbacks may do any number of
operations. Three signals give the loops of init and final a first, a middle and
a last one; `SignalBub` needs no other bound. `Sources` has one signal, because what is
new there is sources that share a signal; signals do not interact in the flags,
and `signals` has three. The third source is of every kind in turn, among them
the same signal and a second task. Its settings are the only ones the program
changes, and it is the only one that is initialised again (`Adjusted`), so that the source of
the signal stays enabled and the premise of `SignalIsHandled` is not left to chance; all
three may be dequeued, finalised and, if they are not, enqueued again. The theorems
about `Sources` have no such restriction. The watermark is 1, so that the loop goes on between any two
attempts. In `Times` a second has 9
microseconds, so that LONG_MAX, 20, holds two seconds and a rest of them:
arguments reach from several seconds below zero to several above in each unit,
every remainder occurs at every limit, and every argument is tried. A pipe for two
messages has room for one more than the conversation needs, so that `OneMessage`
is not true by the capacity.

Fairness. `FairSpec` assumes that the library's own steps go on (it never
blocks by itself: its select(2) calls have a zero timeout) and that callbacks
return. It assumes nothing about inquirers finding events, the clock, or what
the program does. The liveness properties are for programs that do not nest
calls; `NoStarvation` and `TimeoutIsHandled` also for programs that enqueue
nothing while the loop runs, because an enqueued source becomes the current
one and a callback that enqueues at every turn does starve the others.
`SignalBub!FairSpec` assumes that functions return, that the program calls
`acquire`, and `delivered` for each signal, again and again, and that the kernel
does not pass over a signal for ever that is unblocked again and again. The
last is strong fairness of `handle`: one call of `acquire` need not deliver
everything. `SourcesFairSpec` is the fairness of both. That callbacks return is
strong fairness there (`CallbackMoves`): a callback may call
`ccevents_signal_bub_source_init` again and again, and inside of that function it does not
return, so its return is enabled infinitely often and not always. `SignalIsHandled` is the
promise of the library's two halves together: a loop in which the acquirer and a
source of the signal stay hands each signal to an event handler, unless
the initialisation of another source of the same signal forgets it. `Pipes` assumes of each process that it is scheduled (`WF` of its
steps); a failure is never inevitable.

## Proofs

`QueueProofs` proves, for every finite set of nodes and every set of queues,
that `Queue!Spec` keeps `TypeOK`, `Links`, `CurrentInside`, `CountExact` and
`OneRing`. The only assumption is `QueueAssumption`: the nodes are finitely
many and the null pointer is neither a node nor a queue. The inductive
invariant `IInv` is the conjunction of the five. None is inductive alone:
`dequeue` decides by the counter whether the node is the last one, so the
counter must be exact; when it is not the last one, cutting it out is right
only if its neighbours are other nodes, and that they are follows from
`OneRing`, since a node that is its own successor would be a closed set without
the other members. `OneRing` says "everything is reached from the current
node" without recursion, by quantifying over closed sets, so that preservation
is shown by naming the set that was closed before the step. The proof has one
lemma per operation; the two removals that leave nodes behind share
`UnlinkKeeps`.

The same module proves that the lists implement `Ring` (`QueueImplementsRing`),
so that what `EventLoop` says on sequences holds on pointers. The mapping,
`RingOf`, walks from the current node along `next` as often as the counter says. The
proof works with what such a walk finds instead of how it goes: `RingIs(q, ring)`, a
sequence of the members of `q`, each once, in the order of `next`, beginning with the
current one. There is one such sequence at most, and it is the walk (`RingOfIs`): two
walks that begin alike and go on alike agree after any number of steps, which is
induction over the set of places where they agree (`WalksAgree`, `SetInduction`). That there is one is
an invariant (`RingInv`), on top of `IInv`. Each function then has
a lemma which says that the operation of `RingOps`, applied to the old sequence,
`RingIs` of the new state. Two things are not obvious in them: `ccevents_queue_enqueue` puts the
node before the current one and makes it current, so that in the sequence it
is the first and not the last; and `extract`, of a node in the middle, does not touch the
current one, so that the places behind the node move up by one (`WithoutPlace`). `OthersKept` is the frame: an
operation on a queue writes no pointer of a node of another queue.

`EventLoopProofs` proves, for any loops, groups, sources and watermarks, any
set of operations the program uses and any `MaxDepth`, that `EventLoop!Spec`
keeps `TypeOK`, `AttemptsWithinWatermark` and `FinalisedIsGone`, and that its steps
satisfy `RequestStands`. The assumption
is `EventLoopAssumption`: types, and that in the queues the program starts from
a source is in one group at a time. The inductive invariant adds what the
properties need from the rest of the state:

  * `BelowTop`: only the innermost frame can be at the start of an attempt, so
    that a return never uncovers one whose source was finalised meanwhile;
  * `QueuesOK`: a source is in one group at a time. Without it the finaliser of
    a group would leave its sources in the queues of other groups;
  * `AttemptIsLive`: the source of an attempt that a group begins is not
    finalised. It is a member of its queue when `group_turn` takes it, and the
    program does not run between that step and the start of the attempt.

The proof has a lemma for each way the stack changes (call, return, going on
in the same frame), one for each of the program's groups of operations, with a
step per operation, and one for the steps of the library. What the operations
of `RingOps` do to the members of a sequence is stated once, in the lemmas of
`RingOpsProofs`: `EnqueuedMembers`, `DequeuedMembers`, `AdvancedMembers`, `WithoutMembers`.

For `RequestStands` the lemmas `LoopFlagReset` and `GroupFlagReset` find the steps
that reset a flag, and `OneMoreCall` shows that a call that starts or returns
changes the number of calls: the frames below it are the same ones at shifted
places, which is a bijection.

`TurnsProofs` proves round robin, `SourcesTakeTurns` and `GroupsTakeTurns`, for any
number of sources and groups. It assumes of the queues the program starts from
that they are without repetition (`TurnsAssumption`), which `RingsOK` shows to
last. `KeepsOrder` says that those who stay in a queue stay in their order, which
each operation of `RingOps` does except `Advanced`, which puts the current one
behind all others. So a step either keeps the order of a queue and gives
nobody in it a turn, or it gives the current one its turn and puts it
behind those it overtook; in both cases whoever overtook stays behind.

`SignalBubProofs` proves `TypeOK`, `NoSignalLost`, `HandledInAcquireOnly` and
`NeverTerminated` for any number of signals (`SignalAssumption`: at least one).
The inductive invariant says at which places the signals are blocked or have no
handler (`Shielded`), how far the loops of init and final came
(`LoopProgress`), that the local `flag` of `delivered` still is the flag of the
signal when that is cleared (`FlagIsCurrent`), and that a default action is
left only while everything is blocked (`DefaultsBlocked`). There is a step for
each action of `SignalBub`.

`SourcesProofs` proves that `SourcesSpec` implements `EventLoop!Spec`
(`SourcesImplementEventLoop`), for any kinds of sources and any number of signals, so that
all that is proved of `EventLoop` holds for each kind of source, and that
`SourcesSpec` keeps what `SignalBub` keeps: each step of `Sources` is a step of
`SignalBub` that uses acquire, delivered and source_init, and the state
with the interface initialised satisfies its inductive invariant
(`PollingInvariance`), although it is not an initial state of `SignalBub`. From
these follow `SourcesTypeOK` and `NoSignalLost` for signals in a loop. The further
invariant has these parts:

  * `ReportsOK`: a flag is set only for a delivery that no handler was given, and
    what `delivered` read is still the flag; with `MaskOK`, that nothing is delivered
    outside acquire, this gives `OneHandlerPerDelivery`;
  * `FramesOK`: the source of an attempt that has not yet come to its event handler
    is not finalised and has current callbacks, in every frame of the stack;
  * `QueuedOK`: a source in a queue has callbacks, so that a new attempt starts with
    some. It is kept because the program enqueues such sources only and because
    `source_init` is not applied to sources in queues; finalisation only
    empties queues;
  * `KindsOK`: which kinds can be without callbacks.

`LoopPromisesKept` names what follows from the first theorem: `AttemptsWithinWatermark`,
`FinalisedIsGone` and `RequestStands` for loops of real sources, whichever functions
finalise them. `CallbacksAreCurrent` and `ReleasedIsLeftAlone` follow from the last three
parts. Without the rule that no source is finalised while its inquirer runs `FramesOK`
would not be kept.

`TimesProofs` proves all properties of the run `times`: `TypeOK`, `HeldIsExact`,
`InfiniteOnDemand`, `RaisesOnlyAtLimit`, `CompareIsOrder` and `ExpiresWhenDue`, for every
LONG_MAX and every radix `K` with `LONG_MAX >= 2 * K * K` (`TimesAssumption`). C
guarantees that: a second has 10^6 microseconds, a `long` holds at least 2^31 - 1.
It is needed, as the sum of the microseconds of two normalised times is a `long`.
The inductive invariant is the conjunction of the first four properties: an operation takes what
is held as its argument, and only a normalised and exact argument gives an exact
result. The comparisons are consequences: they hold in each state
that satisfies the invariant. There is a lemma per function of the code, which says what it
returns or raises, down to the three steps that normalisation consists of:
`Borrows` (negative microseconds), `Carries` (too many), `Distributes` (a timeout's
negative microseconds taken from milliseconds and seconds). `ThroughHuge` is the
middle one of the three normalisations in `ccevents_timeout_init`, with the distribution
on the seconds that is nested in it. The arithmetic is not linear, since a
second is `K * K` microseconds; `Products` and `Quotient` state the few facts about
products and quotients, and everything else is linear in these. `Lexicographic`
says when comparing the leading digit first is comparing the numbers.

`PipesProofs` proves `TypeOK`, `NobodyAborts`, `OneMessage` and `NobodyBlocks` for
pipes of any capacity (`PipesAssumption`: at least one message), with any system
call failing at any time. The inductive invariant has two parts:

  * `Conversation`: the states of the two processes and the contents of the two
    pipes are in one of nine places, in the order of the conversation. An error ends
    the task of a process, which counts as `"DONE"` at any place, and neither writes
    nor reads. So the partner of a process that failed still finds what it expects;
  * `Ready`: a process has the one source enabled that its state asks for, attempts no other,
    and holds all ends of both pipes while it is in its loop; that is why no write
    finds a closed pipe. What a reader was called for is still in the pipe.

`NobodyBlocks` needs both: a process that is about to write finds its pipe empty,
because of the nine places the ones in which it speaks have both pipes empty
(`RoomToWrite`), and nobody else reads or writes the end that it was called for.

Model-checked only is liveness, which is out of the prover's reach: `LoopIsLeft`,
`GroupIsLeft`, `NoStarvation`, `TimeoutIsHandled`, `SignalIsReported`, `SignalIsHandled`
and `BothFinish`. `Conditions` has no theorem: its one property is the one that the
code does not have. All other properties of the passing runs are proved for every value of
the constants.

## Not modelled, and the plan

What could be added:

 1. `Queue` in the place of the sequences of `EventLoop`, one queue per group and per
    loop. `QueueImplementsRing` is the step by step part; what is left is that the
    calls are composed as the guards of `Queue` ask for.
 2. Liveness on larger instances, with two nested calls.

Final methods that the program gives a source with `ccevents_source_set_otable` only
record the source as finalised; a final method that changes queues is not
modelled. In `task.c` and `signal.c` a source that is attempted without being set
calls whatever the memory holds, which may be anything: the model has
no such step, it excludes the call by `MayBeEnqueued`.

Left out: `ccevents-version.c` (constants of the build), the internal and debug
headers, the tests and the build system.
