-------------------------- MODULE SignalBubProofs --------------------------
(***************************************************************************)
(* The safety properties of module SignalBub for any number of signals.    *)
(***************************************************************************)
EXTENDS SignalBub, TLAPS

(***************************************************************************)
(* The inductive invariant.  What protects the flags is that at each place *)
(* in the code where a handler must not run, the signals are blocked or    *)
(* have no handler.                                                        *)
(***************************************************************************)

NoHandler == \A s \in Signals : disposition[s] # "handler"

AllIgnored == \A s \in Signals : disposition[s] = "ignore"

InitLoop == {"init_clear", "init_action"}
FinalLoop == {"final_clear", "final_action"}

Shielded ==
  /\ pc \in {"init_block", "terminated"} => NoHandler
  /\ pc \in InitLoop \cup FinalLoop \cup {"final_unblock"} => blocked = Signals
  /\ pc \in {"client", "delivered_clear", "source_init"} => AllIgnored \/ (Active /\ blocked = Signals)
  /\ pc \in {"unblocking", "unblocked"} => Active

\* How far the loops over all signals came.
LoopProgress ==
  /\ pc \in InitLoop => \A s \in Signals : s < signum => disposition[s] = "handler"
  /\ pc \in FinalLoop => \A s \in Signals : s < signum => disposition[s] = "ignore"
  /\ pc = "final_unblock" => AllIgnored

\* The loops start at the first signal.
AtFirst ==
  pc \in {"client", "init_block", "unblocking", "unblocked", "final_unblock"}
    => signum = 0

FlagIsCurrent == pc = "delivered_clear" => flag = arrived[signum]

\* The default actions are gone once the first initialisation is complete, and
\* until then nothing is unblocked.
DefaultsBlocked ==
  pc = "init_block" \/ pc = "terminated" \/ blocked = Signals
    \/ \A s \in Signals : disposition[s] # "default"

IInv ==
  /\ TypeOK /\ NoSignalLost
  /\ Shielded /\ LoopProgress /\ AtFirst /\ FlagIsCurrent /\ DefaultsBlocked

LEMMA SignalFacts ==
  /\ 0 \in Signals /\ NSIG \in Nat \ {0}
  /\ \A s \in Signals : s \in Nat /\ s < NSIG
  /\ \A s \in Signals : s + 1 < NSIG => s + 1 \in Signals
  BY SignalAssumption DEF Signals

LEMMA InitEstablishes == Init => IInv
<1>. SUFFICES ASSUME Init PROVE IInv
  OBVIOUS
<1>1. TypeOK /\ NoSignalLost
  BY SignalFacts DEF Init, TypeOK, Places, NoSignalLost
<1>2. Shielded /\ LoopProgress /\ AtFirst /\ FlagIsCurrent /\ DefaultsBlocked
  BY DEF Init, Shielded, NoHandler, InitLoop, FinalLoop, LoopProgress, AtFirst,
         FlagIsCurrent, DefaultsBlocked
<1>. QED
  BY <1>1, <1>2 DEF IInv

\* One turn of the loops of init and final.
LEMMA NextSignal ==
  ASSUME NEW loop, NEW after, signum \in Signals, next_signal(loop, after)
  PROVE  /\ signum' \in Signals
         /\ \/ pc' = loop /\ signum' = signum + 1
            \/ pc' = after /\ signum' = 0 /\ signum + 1 = NSIG
         /\ \A s \in Signals : s < signum + 1 => s = signum \/ s < signum
  BY SignalFacts DEF next_signal, Signals

LEMMA KernelKeeps ==
  ASSUME IInv, pc # "terminated", NEW s \in Signals
  PROVE  /\ send(s) => IInv'
         /\ handle(s) => IInv'
         /\ discard(s) => IInv'
         /\ terminate(s) => IInv'
<1>. USE DEF IInv, InitLoop, FinalLoop
<1>1. ASSUME send(s) PROVE IInv'
  <2>1. TypeOK' /\ NoSignalLost'
    BY <1>1 DEF send, TypeOK, NoSignalLost, Reporting
  <2>2. Shielded' /\ LoopProgress' /\ AtFirst' /\ FlagIsCurrent' /\ DefaultsBlocked'
    BY <1>1 DEF send, Shielded, NoHandler, AllIgnored, Active, LoopProgress, AtFirst,
                FlagIsCurrent, DefaultsBlocked
  <2>. QED
    BY <2>1, <2>2
<1>2. ASSUME handle(s) PROVE IInv'
  <2>1. pc \in {"unblocking", "unblocked"} /\ pc' = "unblocked"
    BY <1>2 DEF handle, TypeOK, Places, Shielded, NoHandler, AllIgnored
  <2>2. TypeOK' /\ NoSignalLost'
    BY <1>2, <2>1 DEF handle, TypeOK, Places, NoSignalLost, Reporting
  <2>3. Shielded' /\ LoopProgress' /\ AtFirst' /\ FlagIsCurrent' /\ DefaultsBlocked'
    BY <1>2, <2>1 DEF handle, Shielded, Active, LoopProgress, AtFirst, FlagIsCurrent,
                      DefaultsBlocked
  <2>. QED
    BY <2>2, <2>3
<1>3. ASSUME discard(s) PROVE IInv'
  <2>1. TypeOK' /\ NoSignalLost'
    BY <1>3 DEF discard, TypeOK, NoSignalLost, Reporting
  <2>2. Shielded' /\ LoopProgress' /\ AtFirst' /\ FlagIsCurrent' /\ DefaultsBlocked'
    BY <1>3 DEF discard, Shielded, NoHandler, AllIgnored, Active, LoopProgress, AtFirst,
                FlagIsCurrent, DefaultsBlocked
  <2>. QED
    BY <2>1, <2>2
<1>4. ASSUME terminate(s) PROVE IInv'
  <2>1. pc = "init_block" /\ pc' = "terminated" /\ UNCHANGED <<kernel, arrived, signum, flag, history>>
    BY <1>4 DEF terminate, DefaultsBlocked
  <2>2. TypeOK' /\ NoSignalLost'
    BY <2>1 DEF kernel, history, TypeOK, Places, NoSignalLost, Reporting
  <2>3. Shielded' /\ LoopProgress' /\ AtFirst' /\ FlagIsCurrent' /\ DefaultsBlocked'
    BY <2>1 DEF kernel, history, Shielded, NoHandler, LoopProgress, AtFirst, FlagIsCurrent,
                DefaultsBlocked
  <2>. QED
    BY <2>2, <2>3
<1>. QED
  BY <1>1, <1>2, <1>3, <1>4

LEMMA InitStepsKeep ==
  ASSUME IInv, init_block \/ init_clear \/ init_action
  PROVE  IInv'
<1>. USE DEF IInv, InitLoop, FinalLoop
<1>1. CASE init_block
  <2>1. TypeOK' /\ NoSignalLost'
    BY <1>1 DEF init_block, history, TypeOK, Places, NoSignalLost, Reporting
  <2>2. Shielded' /\ LoopProgress' /\ AtFirst' /\ FlagIsCurrent' /\ DefaultsBlocked'
    BY <1>1, SignalFacts DEF init_block, Shielded, LoopProgress, AtFirst, FlagIsCurrent,
                             DefaultsBlocked
  <2>. QED
    BY <2>1, <2>2
<1>2. CASE init_clear
  <2>1. TypeOK' /\ NoSignalLost'
    BY <1>2 DEF init_clear, clear_flag, OwedWithout, kernel, TypeOK, Places, NoSignalLost, Reporting
  <2>2. Shielded' /\ LoopProgress' /\ AtFirst' /\ FlagIsCurrent' /\ DefaultsBlocked'
    BY <1>2 DEF init_clear, kernel, Shielded, LoopProgress, AtFirst, FlagIsCurrent, DefaultsBlocked
  <2>. QED
    BY <2>1, <2>2
<1>3. CASE init_action
  <2>1. /\ pc = "init_action" /\ blocked' = Signals
        /\ disposition' = [disposition EXCEPT ![signum] = "handler"]
        /\ UNCHANGED <<blocked, pending, arrived, flag, history>>
    BY <1>3 DEF init_action, Shielded
  <2>2. /\ signum' \in Signals
        /\ \/ pc' = "init_clear" /\ signum' = signum + 1
           \/ pc' = "client" /\ signum' = 0 /\ signum + 1 = NSIG
        /\ \A s \in Signals : s < signum + 1 => s = signum \/ s < signum
    BY <1>3, NextSignal DEF init_action, TypeOK
  <2>3. \A s \in Signals : s < signum + 1 => disposition'[s] = "handler"
    BY <2>1, <2>2 DEF LoopProgress, TypeOK
  <2>4. pc' = "client" => Active'
    BY <2>2, <2>3, SignalFacts DEF Active
  <2>5. TypeOK' /\ NoSignalLost'
    BY <2>1, <2>2 DEF history, TypeOK, Places, NoSignalLost, Reporting
  <2>6. Shielded' /\ LoopProgress' /\ AtFirst' /\ FlagIsCurrent' /\ DefaultsBlocked'
    BY <2>1, <2>2, <2>3, <2>4 DEF Shielded, LoopProgress, AtFirst, FlagIsCurrent, DefaultsBlocked
  <2>. QED
    BY <2>5, <2>6
<1>. QED
  BY <1>1, <1>2, <1>3

LEMMA FinalStepsKeep ==
  ASSUME IInv, final \/ final_clear \/ final_action \/ final_unblock
  PROVE  IInv'
<1>. USE DEF IInv, InitLoop, FinalLoop
<1>1. CASE final
  <2>1. blocked = Signals
    BY <1>1, SignalFacts DEF final, Shielded, Active, AllIgnored
  <2>2. TypeOK' /\ NoSignalLost'
    BY <1>1 DEF final, kernel, TypeOK, Places, NoSignalLost, Reporting
  <2>3. Shielded' /\ LoopProgress' /\ AtFirst' /\ FlagIsCurrent' /\ DefaultsBlocked'
    BY <1>1, <2>1, SignalFacts DEF final, kernel, Shielded, LoopProgress, AtFirst,
                                   FlagIsCurrent, DefaultsBlocked
  <2>. QED
    BY <2>2, <2>3
<1>2. CASE final_clear
  <2>1. TypeOK' /\ NoSignalLost'
    BY <1>2 DEF final_clear, clear_flag, OwedWithout, kernel, TypeOK, Places, NoSignalLost, Reporting
  <2>2. Shielded' /\ LoopProgress' /\ AtFirst' /\ FlagIsCurrent' /\ DefaultsBlocked'
    BY <1>2 DEF final_clear, kernel, Shielded, LoopProgress, AtFirst, FlagIsCurrent, DefaultsBlocked
  <2>. QED
    BY <2>1, <2>2
<1>3. CASE final_action
  <2>1. /\ pc = "final_action" /\ blocked' = Signals
        /\ disposition' = [disposition EXCEPT ![signum] = "ignore"]
        /\ pending' = pending \ {signum} /\ owed' = owed \ {signum}
        /\ UNCHANGED <<blocked, arrived, flag, fresh>>
    BY <1>3 DEF final_action, Shielded
  <2>2. /\ signum' \in Signals
        /\ \/ pc' = "final_clear" /\ signum' = signum + 1
           \/ pc' = "final_unblock" /\ signum' = 0 /\ signum + 1 = NSIG
        /\ \A s \in Signals : s < signum + 1 => s = signum \/ s < signum
    BY <1>3, NextSignal DEF final_action, TypeOK
  <2>3. \A s \in Signals : s < signum + 1 => disposition'[s] = "ignore"
    BY <2>1, <2>2 DEF LoopProgress, TypeOK
  <2>4. pc' = "final_unblock" => AllIgnored'
    BY <2>2, <2>3, SignalFacts DEF AllIgnored
  <2>5. TypeOK' /\ NoSignalLost'
    BY <2>1, <2>2 DEF TypeOK, Places, NoSignalLost, Reporting
  <2>6. Shielded' /\ LoopProgress' /\ AtFirst' /\ FlagIsCurrent' /\ DefaultsBlocked'
    BY <2>1, <2>2, <2>3, <2>4 DEF Shielded, LoopProgress, AtFirst, FlagIsCurrent, DefaultsBlocked
  <2>. QED
    BY <2>5, <2>6
<1>4. CASE final_unblock
  <2>1. AllIgnored'
    BY <1>4 DEF final_unblock, LoopProgress, AllIgnored
  <2>2. TypeOK' /\ NoSignalLost'
    BY <1>4 DEF final_unblock, history, TypeOK, Places, NoSignalLost, Reporting
  <2>3. Shielded' /\ LoopProgress' /\ AtFirst' /\ FlagIsCurrent' /\ DefaultsBlocked'
    BY <1>4, <2>1 DEF final_unblock, Shielded, AllIgnored, LoopProgress, AtFirst,
                      FlagIsCurrent, DefaultsBlocked
  <2>. QED
    BY <2>2, <2>3
<1>. QED
  BY <1>1, <1>2, <1>3, <1>4

LEMMA PollingKeeps ==
  ASSUME IInv,
         init \/ acquire \/ acquire_block \/ delivered_clear \/ source_init_clear
           \/ \E s \in Signals : delivered(s) \/ source_init(s)
  PROVE  IInv'
<1>. USE DEF IInv, InitLoop, FinalLoop
<1>1. CASE init
  <2>1. NoHandler
    BY <1>1 DEF init, Shielded, AllIgnored, NoHandler
  <2>2. TypeOK' /\ NoSignalLost'
    BY <1>1 DEF init, kernel, history, TypeOK, Places, NoSignalLost, Reporting
  <2>3. Shielded' /\ LoopProgress' /\ AtFirst' /\ FlagIsCurrent' /\ DefaultsBlocked'
    BY <1>1, <2>1 DEF init, kernel, Shielded, NoHandler, LoopProgress, AtFirst,
                      FlagIsCurrent, DefaultsBlocked
  <2>. QED
    BY <2>2, <2>3
<1>2. CASE acquire
  <2>1. Active'
    BY <1>2 DEF acquire, Active
  <2>2. TypeOK' /\ NoSignalLost'
    BY <1>2 DEF acquire, TypeOK, Places, NoSignalLost, Reporting
  <2>3. Shielded' /\ LoopProgress' /\ AtFirst' /\ FlagIsCurrent' /\ DefaultsBlocked'
    BY <1>2, <2>1 DEF acquire, Shielded, Active, LoopProgress, AtFirst, FlagIsCurrent,
                      DefaultsBlocked
  <2>. QED
    BY <2>2, <2>3
<1>3. CASE acquire_block
  <2>1. TypeOK' /\ NoSignalLost'
    BY <1>3 DEF acquire_block, history, TypeOK, Places, NoSignalLost, Reporting
  <2>2. Shielded' /\ LoopProgress' /\ AtFirst' /\ FlagIsCurrent' /\ DefaultsBlocked'
    BY <1>3 DEF acquire_block, Shielded, Active, LoopProgress, AtFirst, FlagIsCurrent,
                DefaultsBlocked
  <2>. QED
    BY <2>1, <2>2
<1>4. CASE delivered_clear
  <2>1. TypeOK'
    BY <1>4, SignalFacts DEF delivered_clear, OwedWithout, kernel, TypeOK, Places
  <2>2. NoSignalLost'
    <3>. SUFFICES ASSUME NEW s \in owed' PROVE s \in pending' \/ arrived'[s]
      BY DEF NoSignalLost
    <3>1. s \in owed /\ s \in Signals /\ pending' = pending
          /\ arrived' = [arrived EXCEPT ![signum] = FALSE]
      BY <1>4, <2>1 DEF delivered_clear, OwedWithout, kernel, TypeOK
    <3>2. CASE s = signum
      BY <1>4, <3>1, <3>2 DEF delivered_clear, OwedWithout, NoSignalLost, Reporting, FlagIsCurrent
    <3>3. CASE s # signum
      BY <3>1, <3>3 DEF NoSignalLost, Reporting, TypeOK
    <3>. QED
      BY <3>2, <3>3
  <2>3. Shielded' /\ LoopProgress' /\ AtFirst' /\ FlagIsCurrent' /\ DefaultsBlocked'
    BY <1>4 DEF delivered_clear, kernel, Shielded, AllIgnored, Active, LoopProgress, AtFirst,
                FlagIsCurrent, DefaultsBlocked
  <2>. QED
    BY <2>1, <2>2, <2>3
<1>5. ASSUME NEW s \in Signals, delivered(s) PROVE IInv'
  <2>1. TypeOK' /\ NoSignalLost'
    BY <1>5 DEF delivered, kernel, history, TypeOK, Places, NoSignalLost, Reporting
  <2>2. Shielded' /\ LoopProgress' /\ AtFirst' /\ FlagIsCurrent' /\ DefaultsBlocked'
    BY <1>5 DEF delivered, kernel, Shielded, AllIgnored, Active, LoopProgress, AtFirst,
                FlagIsCurrent, DefaultsBlocked
  <2>. QED
    BY <2>1, <2>2
<1>6. ASSUME NEW s \in Signals, source_init(s) PROVE IInv'
  <2>1. TypeOK' /\ NoSignalLost'
    BY <1>6 DEF source_init, kernel, history, TypeOK, Places, NoSignalLost, Reporting
  <2>2. Shielded' /\ LoopProgress' /\ AtFirst' /\ FlagIsCurrent' /\ DefaultsBlocked'
    BY <1>6 DEF source_init, kernel, Shielded, AllIgnored, Active, LoopProgress, AtFirst,
                FlagIsCurrent, DefaultsBlocked
  <2>. QED
    BY <2>1, <2>2
<1>7. CASE source_init_clear
  <2>1. TypeOK' /\ NoSignalLost'
    BY <1>7, SignalFacts
    DEF source_init_clear, clear_flag, OwedWithout, kernel, TypeOK, Places, NoSignalLost, Reporting
  <2>2. Shielded' /\ LoopProgress' /\ AtFirst' /\ FlagIsCurrent' /\ DefaultsBlocked'
    BY <1>7 DEF source_init_clear, kernel, Shielded, AllIgnored, Active, LoopProgress, AtFirst,
                FlagIsCurrent, DefaultsBlocked
  <2>. QED
    BY <2>1, <2>2
<1>. QED
  BY <1>1, <1>2, <1>3, <1>4, <1>5, <1>6, <1>7

LEMMA StepKeeps == IInv /\ [Next]_vars => IInv'
<1>. SUFFICES ASSUME IInv, [Next]_vars PROVE IInv'
  OBVIOUS
<1>1. CASE Kernel
  BY <1>1, KernelKeeps DEF Kernel
<1>2. CASE Inside
  BY <1>2, InitStepsKeep, FinalStepsKeep, PollingKeeps DEF Inside
<1>3. CASE Call
  BY <1>3, FinalStepsKeep, PollingKeeps DEF Call
<1>4. CASE UNCHANGED vars
  BY <1>4 DEF vars, kernel, history, IInv, TypeOK, NoSignalLost, Reporting, Shielded, NoHandler,
              AllIgnored, Active, LoopProgress, AtFirst, FlagIsCurrent, DefaultsBlocked
<1>. QED
  BY <1>1, <1>2, <1>3, <1>4 DEF Next

(***************************************************************************)
(* The theorems.                                                           *)
(***************************************************************************)

\* Every reachable state satisfies the inductive invariant.
THEOREM SignalInvariance == Spec => []IInv
  BY InitEstablishes, StepKeeps, PTL DEF Spec

\* The signal number is in range at each access to the array of flags, for
\* any number of signals, and the other variables keep their types.
THEOREM SignalTypeCorrect == Spec => []TypeOK
<1>1. IInv => TypeOK
  BY DEF IInv
<1>. QED
  BY <1>1, SignalInvariance, PTL

\* A signal that was sent is pending, flagged or about to be reported until it
\* is reported or written off (ccevents-sources-signal.c:57-108).
THEOREM SignalsKept == Spec => []NoSignalLost
<1>1. IInv => NoSignalLost
  BY DEF IInv
<1>. QED
  BY <1>1, SignalInvariance, PTL

\* The handler sets flags only inside ccevents_signal_bub_acquire.
THEOREM HandledCorrect == Spec => HandledInAcquireOnly
<1>1. IInv /\ [Next]_vars =>
        [\A s \in Signals : ~arrived[s] /\ arrived'[s] => pc \in {"unblocking", "unblocked"}]_vars
  <2>. SUFFICES ASSUME IInv, Next, NEW s \in Signals, ~arrived[s], arrived'[s]
                PROVE  pc \in {"unblocking", "unblocked"}
    OBVIOUS
  <2>1. PICK t \in Signals : handle(t)
    BY DEF Next, Kernel, Inside, Call, send, discard, terminate, init_block, init_clear,
           init_action, final_clear, final_action, final_unblock, acquire_block,
           delivered_clear, source_init_clear, init, final, acquire, delivered, source_init,
           clear_flag,
           IInv, TypeOK
  <2>. QED
    BY <2>1 DEF handle, IInv, TypeOK, Places, Shielded, NoHandler, AllIgnored, InitLoop, FinalLoop
<1>. QED
  BY <1>1, SignalInvariance, PTL DEF Spec, HandledInAcquireOnly

\* After the first system call of init no signal terminates the process.
THEOREM SurvivalCorrect == Spec => NeverTerminated
<1>1. IInv /\ [Next]_vars => [pc # "init_block" => pc' # "terminated"]_vars
  <2>. SUFFICES ASSUME IInv, Next, pc # "init_block", pc' = "terminated"
                PROVE  FALSE
    OBVIOUS
  <2>1. CASE Kernel
    <3>1. \A t \in Signals : ~terminate(t)
      BY <2>1 DEF Kernel, terminate, IInv, DefaultsBlocked
    <3>. QED
      BY <2>1, <3>1 DEF Kernel, send, handle, discard
  <2>2. CASE Inside
    BY <2>2 DEF Inside, init_block, init_clear, init_action, final_clear, final_action,
                final_unblock, acquire_block, delivered_clear, source_init_clear, next_signal
  <2>3. CASE Call
    BY <2>3 DEF Call, init, final, acquire, delivered, source_init
  <2>. QED
    BY <2>1, <2>2, <2>3 DEF Next
<1>. QED
  BY <1>1, SignalInvariance, PTL DEF Spec, NeverTerminated
=============================================================================
