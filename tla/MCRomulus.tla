------------------------------- MODULE MCRomulus -------------------------------
(***************************************************************************)
(* RomulusLog and RomulusLR for TLC.  A behaviour is one of the two, and   *)
(* the lock of the other keeps its first state.                            *)
(***************************************************************************)
EXTENDS RomulusLR

VARIABLES
  which,
  mode, owner, readers

logLockVars == <<mode, owner, readers>>
lrLockVars == <<writersMutex, leftRight, g_right, versionIndex, ri, vi, lr>>

Work(words, writing, reading, budget, limit, crashes, fair) ==
  [words |-> words, writers |-> writing, readers |-> reading,
   budget |-> [t \in Threads |-> budget[t + 1]],
   logLimit |-> limit, crashes |-> crashes, fair |-> fair]

(* RomulusLog: two writers and a reader, with a log that overflows after   *)
(* one word; and two writers that crashes may stop, with a log that does   *)
(* not overflow.                                                           *)
LogWorkloads ==
  {Work(Words, {0, 1}, {2}, <<2, 1, 1>>, 1, 0, Threads),
   Work(Words, {0, 1}, {}, <<2, 1, 0>>, 9, 2, {})}

(* RomulusLR, on two of the words: a writer, and readers that keep coming; *)
(* a writer that may stop under a reader that is sure to run; and crashes. *)
LRWorkloads ==
  {Work({0, 1}, {0}, {1, 2}, <<1, 1, 1>>, 1, 0, Threads),
   Work({0, 1}, {0}, {1}, <<2, 2, 0>>, 1, 0, {1}),
   Work({0, 1}, {0, 1}, {1}, <<2, 1, 0>>, 9, 2, {})}

Log == INSTANCE RomulusLog WITH Workloads <- LogWorkloads

AllInit ==
  /\ Log!rwlock!Init /\ LrInit
  /\ \/ which = "log" /\ Log!Init
     \/ which = "lr" /\ Init

AllNext ==
  \/ which = "log" /\ Log!Next /\ UNCHANGED <<which, lrLockVars>>
  \/ which = "lr" /\ Next /\ UNCHANGED <<which, logLockVars>>

AllVars == <<which, romVars, logLockVars, lrLockVars, val>>

ASSUME FitAssumption == LogsFit /\ Log!LogsFit

(* What the threads of a workload's fair are sure to do, and the restart.  *)
AllFairness ==
  /\ \A t \in Threads : WF_AllVars(
       \/ which = "log" /\ Log!RunsOn(t) /\ UNCHANGED <<which, lrLockVars>>
       \/ which = "lr" /\ RunsOn(t) /\ UNCHANGED <<which, logLockVars>>)
  /\ WF_AllVars(which = "log" /\ Log!Restart /\ UNCHANGED <<which, lrLockVars>>)

AllSpec == AllInit /\ [][AllNext]_AllVars /\ AllFairness

-----------------------------------------------------------------------------
(* Both answer: RomulusLog if all threads run, the readers of RomulusLR    *)
(* whatever the writers do.                                                *)
AllAnswered ==
  \A t \in Threads :
    (IF which = "log" THEN Log!Due(t) ELSE Due(t)) ~> pc[t] = "idle"
=============================================================================
