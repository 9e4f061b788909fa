----------------------------- MODULE SignalBub -----------------------------
(***************************************************************************)
(* The block/unblock interface to Unix signals                             *)
(* (src/src/ccevents-sources-signal.c): all signals are blocked, except    *)
(* inside ccevents_signal_bub_acquire, where a handler turns those that    *)
(* are pending into flags; the inquirer of a signal source reads and       *)
(* clears the flag of its signal.                                          *)
(*                                                                         *)
(* Signals are sent at any time, so the functions are split at the points  *)
(* where it matters: every system call and every access to a flag is a     *)
(* step.  The kernel's part follows POSIX: a blocked signal stays pending, *)
(* once; when sigprocmask unblocks signals that are pending, at least one  *)
(* is delivered before it returns; setting SIG_IGN discards a pending      *)
(* signal; an ignored signal that is blocked may be kept or discarded.     *)
(***************************************************************************)
EXTENDS Naturals

CONSTANTS NSIG, \* number of signals
          Ops   \* the functions the program calls after initialisation

ASSUME SignalAssumption ==
  /\ NSIG \in Nat \ {0}
  /\ Ops \subseteq {"acquire", "delivered", "source_init", "init", "final"}

Signals == 0..(NSIG - 1)

VARIABLES blocked,     \* the mask of the process
          pending,     \* signals sent and not delivered
          disposition, \* signal |-> default, handler or ignore
          arrived,     \* arrived_signals
          pc,          \* where the program is
          signum,      \* loop counter or argument of the function that runs
          flag,        \* local variable of ccevents_signal_bub_delivered
          \* What was sent and what was told; not part of the code.
          owed,        \* sent, neither reported nor written off
          fresh        \* delivered since the last acquire, final or report

kernel == <<blocked, pending, disposition>>
history == <<owed, fresh>>
vars == <<kernel, arrived, pc, signum, flag, history>>

Active == \A s \in Signals : disposition[s] = "handler"

\* The signals that have to be reported once the flag of s is cleared: an
\* instance of s that is pending was sent after the one that set the flag.
OwedWithout(s) == owed \ ({s} \ pending)

Init ==
  /\ blocked = {} /\ pending = {}
  /\ disposition = [s \in Signals |-> "default"]
  /\ arrived = [s \in Signals |-> FALSE]
  /\ pc = "init_block" /\ signum = 0 /\ flag = FALSE
  /\ owed = {} /\ fresh = {}

(***************************************************************************)
(* The kernel.                                                             *)
(***************************************************************************)

send(s) ==
  /\ \/ pending' = pending \cup {s} /\ owed' = owed \cup {s}
     \/ disposition[s] = "ignore" /\ UNCHANGED <<pending, owed>>
  /\ UNCHANGED <<blocked, disposition, arrived, pc, signum, flag, fresh>>

\* signal_bub_handler runs.
handle(s) ==
  /\ s \in pending \ blocked /\ disposition[s] = "handler"
  /\ pending' = pending \ {s}
  /\ arrived' = [arrived EXCEPT ![s] = TRUE]
  /\ pc' = IF pc = "unblocking" THEN "unblocked" ELSE pc
  /\ fresh' = fresh \cup {s}
  /\ UNCHANGED <<blocked, disposition, signum, flag, owed>>

discard(s) ==
  /\ s \in pending \ blocked /\ disposition[s] = "ignore"
  /\ pending' = pending \ {s}
  /\ owed' = owed \ {s}
  /\ UNCHANGED <<blocked, disposition, arrived, pc, signum, flag, fresh>>

\* The default action.
terminate(s) ==
  /\ s \in pending \ blocked /\ disposition[s] = "default"
  /\ pc' = "terminated"
  /\ UNCHANGED <<kernel, arrived, signum, flag, history>>

\* The fate of signals of a terminated process is of no interest.
Kernel ==
  /\ pc # "terminated"
  /\ \E s \in Signals : send(s) \/ handle(s) \/ discard(s) \/ terminate(s)

(***************************************************************************)
(* The loops over all signals of ccevents_signal_bub_init and _final.      *)
(***************************************************************************)

\* Fault: "<=" instead of "<" in the for.
Fault_one_signal_more(loop, after) ==
  /\ signum' = signum + 1
  /\ pc' = IF signum < NSIG THEN loop ELSE after

next_signal(loop, after) ==
  /\ signum' = IF signum + 1 < NSIG THEN signum + 1 ELSE 0
  /\ pc' = IF signum + 1 < NSIG THEN loop ELSE after

clear_flag(s) ==
  /\ arrived' = [arrived EXCEPT ![s] = FALSE]
  /\ owed' = OwedWithout(s)

(***************************************************************************)
(* ccevents_signal_bub_init.                                               *)
(***************************************************************************)

init ==
  /\ pc = "client" /\ "init" \in Ops /\ ~Active
  /\ pc' = "init_block"
  /\ UNCHANGED <<kernel, arrived, signum, flag, history>>

\* Fault: the set of signals is used before it is filled.
Fault_block_before_filling ==
  /\ pc = "init_block"
  /\ pc' = "init_clear"
  /\ UNCHANGED <<kernel, arrived, signum, flag, history>>

init_block ==
  /\ pc = "init_block"
  /\ blocked' = Signals
  /\ pc' = "init_clear"
  /\ UNCHANGED <<pending, disposition, arrived, signum, flag, history>>

init_clear ==
  /\ pc = "init_clear"
  /\ clear_flag(signum)
  /\ pc' = "init_action"
  /\ UNCHANGED <<kernel, signum, flag, fresh>>

init_action ==
  /\ pc = "init_action"
  /\ disposition' = [disposition EXCEPT ![signum] = "handler"]
  /\ next_signal("init_clear", "client")
  /\ UNCHANGED <<blocked, pending, arrived, flag, history>>

(***************************************************************************)
(* ccevents_signal_bub_final.                                              *)
(***************************************************************************)

\* Fault: the signals are unblocked before the handlers are gone.
Fault_final_unblocks_first ==
  /\ pc = "client" /\ "final" \in Ops /\ Active
  /\ blocked' = {}
  /\ pc' = "final_clear"
  /\ fresh' = {}
  /\ UNCHANGED <<pending, disposition, arrived, signum, flag, owed>>

final ==
  /\ pc = "client" /\ "final" \in Ops /\ Active
  /\ pc' = "final_clear"
  /\ fresh' = {}
  /\ UNCHANGED <<kernel, arrived, signum, flag, owed>>

final_clear ==
  /\ pc = "final_clear"
  /\ clear_flag(signum)
  /\ pc' = "final_action"
  /\ UNCHANGED <<kernel, signum, flag, fresh>>

final_action ==
  /\ pc = "final_action"
  /\ disposition' = [disposition EXCEPT ![signum] = "ignore"]
  /\ pending' = pending \ {signum}
  /\ owed' = owed \ {signum}
  /\ next_signal("final_clear", "final_unblock")
  /\ UNCHANGED <<blocked, arrived, flag, fresh>>

final_unblock ==
  /\ pc = "final_unblock"
  /\ blocked' = {}
  /\ pc' = "client"
  /\ UNCHANGED <<pending, disposition, arrived, signum, flag, history>>

(***************************************************************************)
(* ccevents_signal_bub_acquire.                                            *)
(***************************************************************************)

\* Fault: only what this call delivers is kept, as the documentation has it.
Fault_acquire_clears_flags ==
  /\ pc = "client" /\ "acquire" \in Ops /\ Active
  /\ blocked' = {}
  /\ arrived' = [s \in Signals |-> FALSE]
  /\ pc' = IF pending = {} THEN "unblocked" ELSE "unblocking"
  /\ fresh' = {}
  /\ UNCHANGED <<pending, disposition, signum, flag, owed>>

acquire ==
  /\ pc = "client" /\ "acquire" \in Ops /\ Active
  /\ blocked' = {}
  /\ pc' = IF pending = {} THEN "unblocked" ELSE "unblocking"
  /\ fresh' = {}
  /\ UNCHANGED <<pending, disposition, arrived, signum, flag, owed>>

\* Fault: the second call unblocks again.
Fault_acquire_leaves_open ==
  /\ pc = "unblocked"
  /\ pc' = "client"
  /\ UNCHANGED <<kernel, arrived, signum, flag, history>>

acquire_block ==
  /\ pc = "unblocked"
  /\ blocked' = Signals
  /\ pc' = "client"
  /\ UNCHANGED <<pending, disposition, arrived, signum, flag, history>>

(***************************************************************************)
(* ccevents_signal_bub_delivered, also the inquirer of signal sources, and *)
(* ccevents_signal_bub_source_init.                                        *)
(***************************************************************************)

\* Fault: the flag is cleared before it is read.
Fault_clear_before_read(s) ==
  /\ pc = "client" /\ "delivered" \in Ops
  /\ clear_flag(s)
  /\ flag' = FALSE
  /\ signum' = s
  /\ pc' = "delivered_clear"
  /\ UNCHANGED <<kernel, fresh>>

delivered(s) ==
  /\ pc = "client" /\ "delivered" \in Ops
  /\ flag' = arrived[s]
  /\ signum' = s
  /\ pc' = "delivered_clear"
  /\ UNCHANGED <<kernel, arrived, history>>

\* Fault: the flag is not cleared.
Fault_delivered_keeps_flag ==
  /\ pc = "delivered_clear"
  /\ owed' = IF flag THEN OwedWithout(signum) ELSE owed
  /\ fresh' = fresh \ {signum}
  /\ flag' = FALSE /\ signum' = 0 /\ pc' = "client"
  /\ UNCHANGED <<kernel, arrived>>

\* The flag is returned: the signal is reported, or nothing is.
delivered_clear ==
  /\ pc = "delivered_clear"
  /\ arrived' = [arrived EXCEPT ![signum] = FALSE]
  /\ owed' = IF flag THEN OwedWithout(signum) ELSE owed
  /\ fresh' = fresh \ {signum}
  /\ flag' = FALSE /\ signum' = 0 /\ pc' = "client"
  /\ UNCHANGED kernel

source_init(s) ==
  /\ pc = "client" /\ "source_init" \in Ops
  /\ signum' = s
  /\ pc' = "source_init"
  /\ UNCHANGED <<kernel, arrived, flag, history>>

source_init_clear ==
  /\ pc = "source_init"
  /\ clear_flag(signum)
  /\ signum' = 0 /\ pc' = "client"
  /\ UNCHANGED <<kernel, flag, fresh>>

(***************************************************************************)
(* The specification.                                                      *)
(***************************************************************************)

Inside ==
  \/ init_block \/ init_clear \/ init_action
  \/ final_clear \/ final_action \/ final_unblock
  \/ acquire_block \/ delivered_clear \/ source_init_clear

Call ==
  \/ init \/ final \/ acquire
  \/ \E s \in Signals : delivered(s) \/ source_init(s)

Next == Kernel \/ Inside \/ Call

Spec == Init /\ [][Next]_vars

\* The functions return; the program acquires signals and asks for each of
\* them for ever; the kernel does not neglect a signal that is unblocked again
\* and again.
FairSpec ==
  /\ Spec
  /\ WF_vars(Inside)
  /\ SF_vars(acquire)
  /\ \A s \in Signals : SF_vars(delivered(s)) /\ SF_vars(handle(s))

(***************************************************************************)
(* Properties.                                                             *)
(***************************************************************************)

Places ==
  {"client", "init_block", "init_clear", "init_action",
   "final_clear", "final_action", "final_unblock",
   "unblocking", "unblocked", "delivered_clear", "source_init", "terminated"}

TypeOK ==
  /\ blocked \subseteq Signals /\ pending \subseteq Signals
  /\ disposition \in [Signals -> {"default", "handler", "ignore"}]
  /\ arrived \in [Signals -> BOOLEAN]
  /\ pc \in Places
  /\ signum \in Signals
  /\ flag \in BOOLEAN
  /\ owed \subseteq Signals /\ fresh \subseteq Signals

Reporting(s) == pc = "delivered_clear" /\ signum = s /\ flag

\* No signal is lost: one that was sent is pending, flagged or about to be
\* reported until it is reported or written off by a function whose purpose is
\* to forget (initialisation, finalisation, source_init).  In particular no
\* signal is handled between the two accesses of "delivered" to the flag
\* (ccevents-sources-signal.c:105-106), where it would be erased.
NoSignalLost ==
  \A s \in owed : s \in pending \/ arrived[s] \/ Reporting(s)

\* The handler runs only inside acquire: not while the program reads flags, nor
\* while the interface is set up or taken down (lines 68-72, 85-89, 98-99).
HandledInAcquireOnly ==
  [][\A s \in Signals :
       ~arrived[s] /\ arrived'[s] => pc \in {"unblocking", "unblocked"}]_vars

\* From the first system call of init on, for ever, no signal terminates the
\* process: signals are blocked before the handlers are in place, and ignored
\* before they are unblocked (lines 68-72 and 85-89).
NeverTerminated == [][pc # "init_block" => pc' # "terminated"]_vars

\* The functions whose purpose is to forget what was sent.
Forgetting(s) ==
  \/ pc \in {"init_clear", "final_clear", "source_init"} /\ signum = s
  \/ disposition[s] = "ignore"

\* A signal sent to a program that keeps acquiring and asking is reported to it,
\* unless the program has it forgotten, however many other signals and
\* instances of the same one are sent meanwhile.
SignalIsReported ==
  \A s \in Signals :
    (s \in pending /\ pc # "init_block")
      ~> (Reporting(s) \/ Forgetting(s) \/ pc = "terminated")

\* What the documentation promises: a signal is reported only if it was
\* delivered since the last call of acquire, final or delivered
\* (ccevents.texi:1921-1923; also the comment at ccevents-sources-signal.c:117).
ReportIsFresh == \A s \in Signals : Reporting(s) => s \in fresh
=============================================================================
