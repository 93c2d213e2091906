----------------------------- MODULE SelfMonitor -----------------------------
(***************************************************************************)
(* StartSelfMonitoring, ReinitializeChild and CheckMemoryUsage             *)
(* (gpl_util/base/util.cc), main (gpl_util/smb/smb_proxy_exec.cc) and how  *)
(* StartServer waits for its port: a parent process forks the proxy, asks  *)
(* for its status from time to time, kills it when there is no answer, and *)
(* forks another one when it is dead.                                      *)
(*                                                                         *)
(* Time passes in ticks of one second.  A process that has a signal to die *)
(* of, or a start to go on with, does so within a tick.  Whatever started  *)
(* the parent starts it again when it was killed.                          *)
(***************************************************************************)
EXTENDS Integers, Sequences, FiniteSets

CONSTANTS
  SleepSecs,    \* gpl_util_self_monitoring_sleep_secs
  RetryCount,   \* gpl_util_grpc_port_in_use_retry_count
  StartSecs,    \* the most that a child takes from fork to StartServer
  MaxFaults,    \* bound on what goes wrong: hangs, crashes, stops, kills
  KillAnytime,  \* the parent may be killed before the child has called prctl
  LimitWidth,   \* the width of rlim_t and int64
  RlimCur,      \* the limit of the resident memory that getrlimit returns
  Allowance,    \* gpl_util_memory_usage_additional_allowance_MB
  Usages        \* what GetCurrentResidentMemory may return

ASSUME MonitorAssumption ==
  /\ SleepSecs \in Nat \ {0} /\ RetryCount \in Nat \ {0} /\ StartSecs \in Nat
  /\ MaxFaults \in Nat /\ KillAnytime \in BOOLEAN
  /\ LimitWidth \in Nat \ {0} /\ RlimCur \in 0..(2^LimitWidth - 1)
  /\ Allowance \in Nat /\ Usages \subseteq Nat

VARIABLES
  parent,   \* the monitoring process: where it is, its child, and its sleep
  procs,    \* the children that were forked, by pid
  faults

vars == <<parent, procs, faults>>

Pids == 1..Len(procs)

\* What waitpid has not reported yet is in change; left counts the seconds of the
\* start; rss is what a child used that the memory check ended.
NewChild(secs) ==
  [pc |-> "forked", pdeath |-> FALSE, signal |-> "none", stopped |-> FALSE,
   change |-> "none", left |-> secs, tries |-> RetryCount, rss |-> -1]

Init ==
  /\ parent = [pc |-> "fork", child |-> 0, timer |-> 0]
  /\ procs = <<>>
  /\ faults = 0

Live(p) == procs[p].pc \notin {"zombie", "reaped"}
Starting(p) == procs[p].pc \in {"forked", "starting", "retry", "bind"}
Listening == {p \in Pids : procs[p].pc \in {"serving", "hung"}}
Answers(p) == procs[p].pc = "serving" /\ ~procs[p].stopped

\* The process is dead; its parent, or init, has not been told yet.
Dead(p) == [p EXCEPT !.pc = "zombie", !.change = "died", !.stopped = FALSE, !.signal = "none"]

-----------------------------------------------------------------------------
\* The parent.
Fork ==
  /\ parent.pc = "fork"
  /\ \E secs \in 0..StartSecs : procs' = Append(procs, NewChild(secs))
  /\ parent' = [pc |-> "sleep", child |-> Len(procs) + 1, timer |-> SleepSecs]
  /\ UNCHANGED faults

\* Mutant of WakeUp: the sleep is over at once.
WakeUpEarly ==
  /\ parent.pc = "sleep"
  /\ parent' = [parent EXCEPT !.pc = "monitor"]
  /\ UNCHANGED <<procs, faults>>

WakeUp ==
  /\ parent.pc = "sleep" /\ parent.timer = 0
  /\ parent' = [parent EXCEPT !.pc = "monitor"]
  /\ UNCHANGED <<procs, faults>>

\* Mutant of MonitorFn: nobody is killed.
MonitorFnLogs ==
  /\ parent.pc = "monitor"
  /\ parent' = [parent EXCEPT !.pc = "waitpid"]
  /\ UNCHANGED <<procs, faults>>

\* monitor_fn: whoever listens on the port answers, or nobody does before the
\* deadline.  A child that was not reaped can always be sent a signal.
MonitorFn ==
  /\ parent.pc = "monitor"
  /\ parent' = [parent EXCEPT !.pc = "waitpid"]
  /\ \/ /\ \E p \in Listening : Answers(p)
        /\ UNCHANGED procs
     \/ /\ Listening = {} \/ \E p \in Listening : ~Answers(p)
        /\ procs' = IF Live(parent.child)
                      THEN [procs EXCEPT ![parent.child].signal =
                              IF @ = "none" THEN "SIGABRT" ELSE @]
                      ELSE procs
  /\ UNCHANGED faults

\* Mutant of Waitpid: any change of the child makes the parent fork.
WaitpidAnyChange ==
  LET change == procs[parent.child].change IN
  /\ parent.pc = "waitpid"
  /\ procs' = [procs EXCEPT ![parent.child].change = "none",
                            ![parent.child].pc = IF change = "died" THEN "reaped" ELSE @]
  /\ parent' = IF change # "none"
                 THEN [parent EXCEPT !.pc = "fork"]
                 ELSE [parent EXCEPT !.pc = "sleep", !.timer = SleepSecs]
  /\ UNCHANGED faults

\* waitpid does not block.  Only a child that died is replaced; one that was stopped
\* or continued, and one with no change, also after kill, is waited for.
Waitpid ==
  LET change == procs[parent.child].change IN
  /\ parent.pc = "waitpid"
  /\ procs' = [procs EXCEPT ![parent.child].change = "none",
                            ![parent.child].pc = IF change = "died" THEN "reaped" ELSE @]
  /\ parent' = IF change = "died"
                 THEN [parent EXCEPT !.pc = "fork"]
                 ELSE [parent EXCEPT !.pc = "sleep", !.timer = SleepSecs]
  /\ UNCHANGED faults

-----------------------------------------------------------------------------
\* The child.
Runs(p) == ~procs[p].stopped /\ procs[p].signal = "none"

\* Mutant of ReinitializeChild: no prctl.
ReinitializeChildOnly(p) ==
  /\ procs[p].pc = "forked" /\ Runs(p)
  /\ procs' = [procs EXCEPT ![p].pc = "starting"]
  /\ UNCHANGED <<parent, faults>>

\* ReinitializeChild: from now on the child gets a SIGKILL when its parent dies.
ReinitializeChild(p) ==
  /\ procs[p].pc = "forked" /\ Runs(p)
  /\ procs' = [procs EXCEPT ![p].pc = "starting", ![p].pdeath = TRUE]
  /\ UNCHANGED <<parent, faults>>

\* StartServer of the child: IsPortInUse, with retries, the last of which is fatal.
PortInUse(p) ==
  /\ procs[p].pc = "starting" /\ Runs(p) /\ procs[p].left = 0
  /\ Listening # {}
  /\ procs' = [procs EXCEPT ![p].pc = "retry", ![p].left = 1]
  /\ UNCHANGED <<parent, faults>>

RetryPort(p) ==
  /\ procs[p].pc = "retry" /\ Runs(p) /\ procs[p].left = 0
  /\ procs' = [procs EXCEPT ![p] =
                  IF procs[p].tries = 1 THEN Dead(@)
                  ELSE [procs[p] EXCEPT !.pc = "starting", !.tries = procs[p].tries - 1]]
  /\ UNCHANGED <<parent, faults>>

\* Mutant of PortFree: the port is not looked at.
PortFreeAnyway(p) ==
  /\ procs[p].pc = "starting" /\ Runs(p) /\ procs[p].left = 0
  /\ procs' = [procs EXCEPT ![p].pc = "bind"]
  /\ UNCHANGED <<parent, faults>>

PortFree(p) ==
  /\ procs[p].pc = "starting" /\ Runs(p) /\ procs[p].left = 0
  /\ Listening = {}
  /\ procs' = [procs EXCEPT ![p].pc = "bind"]
  /\ UNCHANGED <<parent, faults>>

\* BuildAndStart listens with SO_REUSEPORT, so that it does not fail.
Bind(p) ==
  /\ procs[p].pc = "bind" /\ Runs(p)
  /\ procs' = [procs EXCEPT ![p].pc = "serving"]
  /\ UNCHANGED <<parent, faults>>

\* The signal's default action; SIGKILL does not wait for a stopped process.
DieOfSignal(p) ==
  /\ Live(p)
  /\ procs[p].signal = "SIGKILL" \/ (procs[p].signal = "SIGABRT" /\ ~procs[p].stopped)
  /\ procs' = [procs EXCEPT ![p] = Dead(@)]
  /\ UNCHANGED <<parent, faults>>

-----------------------------------------------------------------------------
\* What goes wrong.
Fault == faults < MaxFaults /\ faults' = faults + 1

\* All polling threads hang, or are busy for longer than the deadline.
Hang(p) ==
  /\ procs[p].pc = "serving" /\ Runs(p)
  /\ procs' = [procs EXCEPT ![p].pc = "hung"]
  /\ Fault /\ UNCHANGED parent

Crash(p) ==
  /\ Live(p) /\ Runs(p)
  /\ procs' = [procs EXCEPT ![p] = Dead(@)]
  /\ Fault /\ UNCHANGED parent

\* Somebody stops a proxy at work, with a debugger perhaps, and lets it go on.
Stop(p) ==
  /\ p \in Listening /\ ~procs[p].stopped
  /\ procs' = [procs EXCEPT ![p].stopped = TRUE, ![p].change = "stopped"]
  /\ Fault /\ UNCHANGED parent

Continue(p) ==
  /\ procs[p].stopped
  /\ procs' = [procs EXCEPT ![p].stopped = FALSE, ![p].change = "continued"]
  /\ UNCHANGED <<parent, faults>>

\* The parent is killed, and with it the child that asked for it.
KillParent ==
  /\ parent.pc # "dead"
  /\ KillAnytime \/ \A p \in Pids : procs[p].pc # "forked"
  /\ parent' = [parent EXCEPT !.pc = "dead"]
  /\ procs' = [p \in Pids |-> IF Live(p) /\ procs[p].pdeath
                                THEN [procs[p] EXCEPT !.signal = "SIGKILL"] ELSE procs[p]]
  /\ Fault

RestartParent ==
  /\ parent.pc = "dead"
  /\ parent' = [pc |-> "fork", child |-> 0, timer |-> 0]
  /\ UNCHANGED <<procs, faults>>

-----------------------------------------------------------------------------
\* AlarmHandler's CheckMemoryUsage: GetResidentMemoryLimit turns the unsigned limit
\* into an int64.
GetResidentMemoryLimit ==
  IF RlimCur < 2^(LimitWidth - 1) THEN RlimCur ELSE RlimCur - 2^LimitWidth

CheckMemoryUsage(p) ==
  /\ procs[p].pc = "serving" /\ Runs(p)
  /\ \E rss \in Usages :
       /\ rss > GetResidentMemoryLimit + Allowance
       /\ procs' = [procs EXCEPT ![p] = [Dead(@) EXCEPT !.rss = rss]]
  /\ Fault /\ UNCHANGED parent

-----------------------------------------------------------------------------
ChildStep(p) ==
  \/ ReinitializeChild(p) \/ PortInUse(p) \/ RetryPort(p) \/ PortFree(p) \/ Bind(p)
  \/ DieOfSignal(p)

\* A second passes, in which every process has done what it could do at once.
Urgent(p) ==
  \/ Live(p) /\ procs[p].signal # "none" /\ (procs[p].signal = "SIGKILL" \/ ~procs[p].stopped)
  \/ Starting(p) /\ procs[p].left = 0

Tick ==
  /\ \A p \in Pids : ~Urgent(p)
  /\ parent' = [parent EXCEPT !.timer = IF @ > 0 THEN @ - 1 ELSE 0]
  /\ procs' = [p \in Pids |-> IF procs[p].left > 0 THEN [procs[p] EXCEPT !.left = @ - 1]
                                                   ELSE procs[p]]
  /\ UNCHANGED faults

ParentStep == Fork \/ WakeUp \/ MonitorFn \/ Waitpid \/ RestartParent
FaultStep ==
  \/ KillParent
  \/ \E p \in Pids : Hang(p) \/ Crash(p) \/ Stop(p) \/ CheckMemoryUsage(p)

Next ==
  \/ ParentStep \/ FaultStep \/ Tick
  \/ \E p \in Pids : ChildStep(p) \/ Continue(p)

Spec == Init /\ [][Next]_vars


\* Processes run and time passes.  Nothing needs to go wrong, and nobody needs to
\* let a stopped process go on.
FairSpec ==
  /\ Spec
  /\ WF_vars(ParentStep) /\ WF_vars(Tick)
  /\ WF_vars(\E p \in Pids : ChildStep(p))

-----------------------------------------------------------------------------
ParentType ==
  [pc: {"fork", "sleep", "monitor", "waitpid", "dead"}, child: Nat, timer: 0..SleepSecs]

ProcType ==
  [pc: {"forked", "starting", "retry", "bind", "serving", "hung", "zombie", "reaped"},
   pdeath: BOOLEAN, signal: {"none", "SIGABRT", "SIGKILL"}, stopped: BOOLEAN,
   change: {"none", "stopped", "continued", "died"}, left: 0..(StartSecs + 1),
   tries: 1..RetryCount, rss: Usages \cup {-1}]

TypeOK ==
  /\ parent \in ParentType
  /\ parent.pc \in {"sleep", "monitor", "waitpid"} => parent.child \in Pids
  /\ procs \in Seq(ProcType)
  /\ faults \in 0..MaxFaults

\* A new child is forked only when the one before is gone: a child that was sent
\* SIGABRT, or that is stopped ("not spawning another child"), still is the child.
OneChild == Cardinality({p \in Pids : Live(p) /\ procs[p].signal # "SIGKILL"}) <= 1

\* No two proxies listen on the port, also when a parent is killed and started again
\* while the child of the first one still dies: SO_REUSEPORT would let clients reach
\* either of them, each with pools and caches of its own.
OneListener == Cardinality(Listening) <= 1

\* "Let the child die when the parent is killed. Otherwise, we will end up with an
\* orphan process": a child that no parent waits for is about to die.
NoOrphan ==
  \A p \in Pids : Live(p) /\ (parent.pc = "dead" \/ parent.child # p) =>
    procs[p].signal = "SIGKILL"

\* The parent never kills a child that does its work or starts in time: the port is
\* free, and the child serves, before the parent wakes up.
Healthy(p) == (Starting(p) \/ procs[p].pc = "serving") /\ ~procs[p].stopped

HealthyNotKilled ==
  [][\A p \in Pids : procs'[p].signal = "SIGABRT" /\ procs[p].signal # "SIGABRT" =>
       ~Healthy(p)]_vars

-----------------------------------------------------------------------------
(***************************************************************************)
(* Why these hold, as invariants that every step keeps.                    *)
(***************************************************************************)
\* Only the child that the parent waits for was not sent a SIGKILL.
Charge ==
  \A p \in Pids : Live(p) /\ procs[p].signal # "SIGKILL" =>
    p = parent.child /\ parent.pc \notin {"fork", "dead"}

DiesWithParent == \A p \in Pids : Live(p) /\ procs[p].pc # "forked" => procs[p].pdeath

ReportedDead == \A p \in Pids : procs[p].change = "died" => ~Live(p)

\* The port is still free when a child listens that has found it free.
BindsAlone ==
  \A p \in Pids : procs[p].pc = "bind" /\ procs[p].signal # "SIGKILL" => Listening = {}

ListensAlone == \A p, q \in Listening : p = q

\* A child that starts is charged to the parent and finds the port free: between
\* IsPortInUse and BuildAndStart nobody else gets to listen.
MonitorInv == Charge /\ DiesWithParent /\ ReportedDead /\ BindsAlone /\ ListensAlone

\* A child serves before the parent wakes up, and who held the port is dead once a
\* second has passed.
ServesInTime ==
  \A p \in Pids :
    /\ p = parent.child /\ parent.pc \in {"sleep", "monitor", "waitpid"}
    /\ Starting(p) /\ procs[p].signal = "none"
    => /\ parent.pc = "sleep" /\ procs[p].left < parent.timer
       /\ parent.timer < SleepSecs => \A q \in Pids : q # p => ~Live(q)

-----------------------------------------------------------------------------
\* Whatever goes wrong, there is a proxy that answers again, unless one is stopped.
ServesAgain == []<>(\E p \in Pids : Answers(p) \/ procs[p].stopped)

\* "Checks whether the memory usage of this process exceeds its limit, and crashes the
\* process if so": what the check ends did use more than its limit.
CrashedOverLimit == \A p \in Pids : procs[p].rss # -1 => procs[p].rss > RlimCur + Allowance

=============================================================================
