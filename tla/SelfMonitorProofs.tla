-------------------------- MODULE SelfMonitorProofs --------------------------
(***************************************************************************)
(* For any times, bounds and limits: TypeOK; when the parent is not killed *)
(* before the child has called prctl, MonitorInv and what follows from it; *)
(* and when a child starts within the parent's sleep, HealthyNotKilled.    *)
(***************************************************************************)
EXTENDS SelfMonitor, FiniteSetTheorems, SequenceTheorems, TLAPS

\* What the steps do to the record of a process keeps its type.
LEMMA ProcUpdates ==
  ASSUME NEW r \in ProcType
  PROVE  /\ Dead(r) \in ProcType
         /\ \A x \in {"forked", "starting", "retry", "bind", "serving", "hung", "reaped"} :
              [r EXCEPT !.pc = x] \in ProcType
         /\ \A x \in {"none", "SIGABRT", "SIGKILL"} : [r EXCEPT !.signal = x] \in ProcType
         /\ \A x \in BOOLEAN : [r EXCEPT !.stopped = x] \in ProcType
         /\ \A x \in {"none", "stopped", "continued"} : [r EXCEPT !.change = x] \in ProcType
         /\ [r EXCEPT !.pdeath = TRUE] \in ProcType
         /\ \A x \in 0..(StartSecs + 1) : [r EXCEPT !.left = x] \in ProcType
         /\ \A x \in 1..RetryCount : [r EXCEPT !.tries = x] \in ProcType
         /\ \A x \in Usages : [r EXCEPT !.rss = x] \in ProcType
  BY DEF ProcType, Dead

\* A new process has the type.
LEMMA NewChildType ==
  ASSUME NEW secs \in 0..StartSecs
  PROVE  NewChild(secs) \in ProcType
  BY MonitorAssumption DEF NewChild, ProcType

\* The fields of a process.
LEMMA ProcFields ==
  ASSUME NEW r \in ProcType
  PROVE  /\ r.left \in 0..(StartSecs + 1) /\ r.tries \in 1..RetryCount
         /\ r.stopped \in BOOLEAN /\ r.pdeath \in BOOLEAN
         /\ r.signal \in {"none", "SIGABRT", "SIGKILL"}
         /\ r.change \in {"none", "stopped", "continued", "died"}
  BY DEF ProcType

\* The table of processes as a function, and what a process of it is.
LEMMA ProcsFacts ==
  ASSUME TypeOK
  PROVE  /\ Len(procs) \in Nat /\ DOMAIN procs = Pids
         /\ procs \in [Pids -> ProcType]
         /\ \A p \in Pids : procs[p] \in ProcType
  BY LenProperties DEF TypeOK, Pids

\* One process changes, or all change each for itself: the table keeps its length.
LEMMA TableUpdates ==
  ASSUME TypeOK
  PROVE  /\ \A p \in Pids, r \in ProcType :
              procs' = [procs EXCEPT ![p] = r]
                => /\ procs' \in Seq(ProcType) /\ Pids' = Pids
                   /\ procs'[p] = r
                   /\ \A q \in Pids : q # p => procs'[q] = procs[q]
         /\ \A f \in [Pids -> ProcType] :
              procs' = f => /\ procs' \in Seq(ProcType) /\ Pids' = Pids
  <1>1. ASSUME NEW f \in [Pids -> ProcType], procs' = f
        PROVE  procs' \in Seq(ProcType) /\ Pids' = Pids
    <2>1. Len(procs) \in Nat /\ f \in [1..Len(procs) -> ProcType]
      BY <1>1, ProcsFacts DEF Pids
    <2>2. f \in Seq(ProcType)
      BY <2>1, IsASeq
    <2>3. Len(f) = Len(procs)
      BY <2>1, <2>2, LenProperties
    <2> QED BY <1>1, <2>2, <2>3 DEF Pids
  <1>2. ASSUME NEW p \in Pids, NEW r \in ProcType, procs' = [procs EXCEPT ![p] = r]
        PROVE  /\ procs' \in Seq(ProcType) /\ Pids' = Pids
               /\ procs'[p] = r
               /\ \A q \in Pids : q # p => procs'[q] = procs[q]
    <2>1. [procs EXCEPT ![p] = r] \in [Pids -> ProcType]
      BY ProcsFacts
    <2>2. procs' \in Seq(ProcType) /\ Pids' = Pids
      BY <1>1, <1>2, <2>1
    <2> QED BY <1>2, <2>2, ProcsFacts
  <1> QED BY <1>1, <1>2

-----------------------------------------------------------------------------
IsLive(r) == r.pc \notin {"zombie", "reaped"}
IsListening(r) == r.pc \in {"serving", "hung"}
IsStarting(r) == r.pc \in {"forked", "starting", "retry", "bind"}

\* A step that is not the parent's makes r of the process p.
Becomes(p, r) ==
  /\ procs' = [procs EXCEPT ![p] = r]
  /\ parent' = parent
  /\ faults' \in 0..MaxFaults

\* What such a step may do to its process: it does not revive it nor take a signal
\* from it, it does not forget prctl, reports a death only of a dead process, finds
\* the port free before it binds, and starts no later than it should.
Allowed(p, r) ==
  /\ IsLive(r) => Live(p) /\ r.signal = procs[p].signal
  /\ r.signal \in {"none", procs[p].signal}
  /\ IsLive(r) /\ ~r.pdeath => r.pc = procs[p].pc /\ ~procs[p].pdeath
  /\ IsLive(r) /\ r.change = "died" => procs[p].change = "died"
  /\ r.pc = "bind" => procs[p].pc = "bind" \/ Listening = {}
  /\ IsListening(r) => p \in Listening \/ (procs[p].pc = "bind" /\ Runs(p))
  /\ IsStarting(r) =>
       /\ Starting(p)
       /\ \/ r.left <= procs[p].left
          \/ r.left = 1 /\ Listening # {} /\ p \notin Listening

ProcessStep(p) ==
  \/ ChildStep(p) \/ Continue(p)
  \/ Hang(p) \/ Crash(p) \/ Stop(p) \/ CheckMemoryUsage(p)

\* Every step of a process is such a step.
LEMMA ProcessSteps ==
  ASSUME TypeOK, NEW p \in Pids, ProcessStep(p)
  PROVE  \E r \in ProcType : Becomes(p, r) /\ (DiesWithParent => Allowed(p, r))
  <1> DEFINE m == procs[p]
  <1>0. /\ m \in ProcType /\ procs \in [Pids -> ProcType]
        /\ m.left \in Nat /\ m.tries \in 1..RetryCount
        /\ faults \in 0..MaxFaults /\ MaxFaults \in Nat
        /\ 1 \in 0..(StartSecs + 1)
    BY SMTT(30), ProcsFacts, ProcFields, MonitorAssumption DEF TypeOK
  <1>f. Fault => faults' \in 0..MaxFaults
    BY <1>0 DEF Fault
  <1>d. ASSUME procs' = [procs EXCEPT ![p] = Dead(@)], parent' = parent,
               faults' \in 0..MaxFaults
        PROVE  \E r \in ProcType : Becomes(p, r) /\ (DiesWithParent => Allowed(p, r))
    <2>1. Dead(m) \in ProcType
      BY <1>0, ProcUpdates
    <2>2. procs' = [procs EXCEPT ![p] = Dead(m)]
      BY <1>0, <1>d
    <2>3. /\ ~IsLive(Dead(m)) /\ ~IsListening(Dead(m)) /\ ~IsStarting(Dead(m))
          /\ Dead(m).pc # "bind" /\ Dead(m).signal = "none"
      BY <1>0 DEF Dead, IsLive, IsListening, IsStarting, ProcType
    <2>4. Becomes(p, Dead(m)) /\ Allowed(p, Dead(m))
      BY <1>d, <2>2, <2>3 DEF Becomes, Allowed
    <2> QED BY <2>1, <2>4
  <1>1. CASE ReinitializeChild(p)
    <2> DEFINE r == [m EXCEPT !.pc = "starting", !.pdeath = TRUE]
    <2>1. r \in ProcType
      BY <1>0 DEF ProcType
    <2>2. procs' = [procs EXCEPT ![p] = r]
      BY <1>0, <1>1 DEF ReinitializeChild
    <2>3. DiesWithParent => Allowed(p, r)
      BY <1>0, <1>1 DEF ReinitializeChild, Allowed, IsLive, IsListening, IsStarting, Live,
         Starting, Listening, ProcType
    <2>4. Becomes(p, r)
      BY <1>0, <1>1, <2>2 DEF ReinitializeChild, Becomes
    <2> QED BY <2>1, <2>3, <2>4
  <1>2. CASE PortInUse(p)
    <2> DEFINE r == [m EXCEPT !.pc = "retry", !.left = 1]
    <2>1. r \in ProcType
      BY <1>0 DEF ProcType
    <2>2. procs' = [procs EXCEPT ![p] = r]
      BY <1>0, <1>2 DEF PortInUse
    <2>3. DiesWithParent => Allowed(p, r)
      BY <1>0, <1>2 DEF PortInUse, Allowed, IsLive, IsListening, IsStarting, Live,
         Starting, Listening, ProcType, DiesWithParent
    <2>4. Becomes(p, r)
      BY <1>0, <1>2, <2>2 DEF PortInUse, Becomes
    <2> QED BY <2>1, <2>3, <2>4
  <1>3. CASE RetryPort(p)
    <2>1. CASE m.tries = 1
      <3>1. procs' = [procs EXCEPT ![p] = Dead(@)]
        BY <1>3, <2>1 DEF RetryPort
      <3> QED BY <1>0, <1>3, <1>d, <3>1 DEF RetryPort
    <2>2. CASE m.tries # 1
      <3> DEFINE r == [m EXCEPT !.pc = "starting", !.tries = m.tries - 1]
      <3>1. r \in ProcType
        <4>1. RetryCount \in Nat /\ m.tries - 1 \in 1..RetryCount
          BY <1>0, <2>2, MonitorAssumption
        <4> QED BY <1>0, <4>1 DEF ProcType
      <3>2. procs' = [procs EXCEPT ![p] = r]
        BY <1>0, <1>3, <2>2 DEF RetryPort
      <3>3. DiesWithParent => Allowed(p, r)
        BY <1>0, <1>3 DEF RetryPort, Allowed, IsLive, IsListening, IsStarting, Live,
           Starting, Listening, ProcType, DiesWithParent
      <3>4. Becomes(p, r)
        BY <1>0, <1>3, <3>2 DEF RetryPort, Becomes
      <3> QED BY <3>1, <3>3, <3>4
    <2> QED BY <2>1, <2>2
  <1>4. CASE PortFree(p)
    <2> DEFINE r == [m EXCEPT !.pc = "bind"]
    <2>1. r \in ProcType
      BY <1>0 DEF ProcType
    <2>2. procs' = [procs EXCEPT ![p] = r]
      BY <1>0, <1>4 DEF PortFree
    <2>3. DiesWithParent => Allowed(p, r)
      BY <1>0, <1>4 DEF PortFree, Allowed, IsLive, IsListening, IsStarting, Live,
         Starting, ProcType, DiesWithParent
    <2>4. Becomes(p, r)
      BY <1>0, <1>4, <2>2 DEF PortFree, Becomes
    <2> QED BY <2>1, <2>3, <2>4
  <1>5. CASE Bind(p)
    <2> DEFINE r == [m EXCEPT !.pc = "serving"]
    <2>1. r \in ProcType
      BY <1>0 DEF ProcType
    <2>2. procs' = [procs EXCEPT ![p] = r]
      BY <1>0, <1>5 DEF Bind
    <2>3. DiesWithParent => Allowed(p, r)
      BY <1>0, <1>5 DEF Bind, Allowed, IsLive, IsListening, IsStarting, Live,
         Starting, ProcType, DiesWithParent
    <2>4. Becomes(p, r)
      BY <1>0, <1>5, <2>2 DEF Bind, Becomes
    <2> QED BY <2>1, <2>3, <2>4
  <1>6. CASE DieOfSignal(p)
    BY <1>0, <1>6, <1>d DEF DieOfSignal
  <1>7. CASE Continue(p)
    <2> DEFINE r == [m EXCEPT !.stopped = FALSE, !.change = "continued"]
    <2>1. r \in ProcType
      BY <1>0 DEF ProcType
    <2>2. procs' = [procs EXCEPT ![p] = r]
      BY <1>0, <1>7 DEF Continue
    <2>3. DiesWithParent => Allowed(p, r)
      BY <1>0, <1>7 DEF Continue, Allowed, IsLive, IsListening, IsStarting, Live, Listening,
         Starting, ProcType
    <2>4. Becomes(p, r)
      BY <1>0, <1>7, <2>2 DEF Continue, Becomes
    <2> QED BY <2>1, <2>3, <2>4
  <1>8. CASE Hang(p)
    <2> DEFINE r == [m EXCEPT !.pc = "hung"]
    <2>1. r \in ProcType
      BY <1>0 DEF ProcType
    <2>2. procs' = [procs EXCEPT ![p] = r]
      BY <1>0, <1>8 DEF Hang
    <2>3. DiesWithParent => Allowed(p, r)
      BY <1>0, <1>8 DEF Hang, Allowed, IsLive, IsListening, IsStarting, Live, Listening,
         Starting, ProcType, DiesWithParent
    <2>4. Becomes(p, r)
      BY <1>0, <1>8, <1>f, <2>2 DEF Hang, Becomes
    <2> QED BY <2>1, <2>3, <2>4
  <1>9. CASE Crash(p)
    BY <1>9, <1>d, <1>f DEF Crash
  <1>10. CASE Stop(p)
    <2> DEFINE r == [m EXCEPT !.stopped = TRUE, !.change = "stopped"]
    <2>1. r \in ProcType
      BY <1>0 DEF ProcType
    <2>2. procs' = [procs EXCEPT ![p] = r]
      BY <1>0, <1>10 DEF Stop
    <2>3. DiesWithParent => Allowed(p, r)
      BY <1>0, <1>10 DEF Stop, Allowed, IsLive, IsListening, IsStarting, Live, Listening,
         Starting, ProcType
    <2>4. Becomes(p, r)
      BY <1>0, <1>10, <1>f, <2>2 DEF Stop, Becomes
    <2> QED BY <2>1, <2>3, <2>4
  <1>11. CASE CheckMemoryUsage(p)
    <2>0. PICK rss \in Usages : procs' = [procs EXCEPT ![p] = [Dead(@) EXCEPT !.rss = rss]]
      BY <1>11 DEF CheckMemoryUsage
    <2> DEFINE r == [Dead(m) EXCEPT !.rss = rss]
    <2>1. r \in ProcType
      BY <1>0, ProcUpdates
    <2>2. procs' = [procs EXCEPT ![p] = r]
      BY <1>0, <2>0
    <2>3. DiesWithParent => Allowed(p, r)
      BY <1>0 DEF Dead, Allowed, IsLive, IsListening, IsStarting, ProcType
    <2>4. Becomes(p, r)
      BY <1>0, <1>11, <1>f, <2>2 DEF CheckMemoryUsage, Becomes
    <2> QED BY <2>1, <2>3, <2>4
  <1> QED BY <1>1, <1>2, <1>3, <1>4, <1>5, <1>6, <1>7, <1>8, <1>9, <1>10, <1>11
       DEF ProcessStep, ChildStep

\* Such a step keeps the types.
LEMMA BecomesType ==
  ASSUME TypeOK, NEW p \in Pids, NEW r \in ProcType, Becomes(p, r)
  PROVE  TypeOK'
  <1>1. procs' \in Seq(ProcType) /\ Pids' = Pids
    BY TableUpdates DEF Becomes
  <1> QED BY <1>1 DEF Becomes, TypeOK

\* Such a step keeps MonitorInv: only the child that the parent waits for can bind, so
\* that nobody else comes to listen after it has found the port free.
LEMMA BecomesInv ==
  ASSUME TypeOK, MonitorInv, NEW p \in Pids, NEW r \in ProcType, Becomes(p, r), Allowed(p, r)
  PROVE  MonitorInv'
  <1>1. /\ Pids' = Pids /\ procs'[p] = r /\ parent' = parent
        /\ \A q \in Pids : q # p => procs'[q] = procs[q]
    BY TableUpdates DEF Becomes
  <1>2. /\ Live(p)' <=> IsLive(r)
        /\ \A q \in Pids : q # p => (Live(q)' <=> Live(q))
    BY <1>1 DEF Live, IsLive
  <1>3. /\ \A q \in Pids : q # p => (q \in Listening' <=> q \in Listening)
        /\ p \in Listening' <=> IsListening(r)
        /\ Listening' \subseteq Pids
    BY <1>1 DEF Listening, IsListening
  <1>4. Charge'
    BY <1>1, <1>2 DEF Charge, MonitorInv, Allowed
  <1>5. DiesWithParent'
    BY <1>1, <1>2 DEF DiesWithParent, MonitorInv, Allowed
  <1>6. ReportedDead'
    BY <1>1, <1>2 DEF ReportedDead, MonitorInv, Allowed
  <1>7. IsListening(r) => \/ p \in Listening
                          \/ /\ Listening = {}
                             /\ \A q \in Pids : q # p => ~(Live(q) /\ procs[q].signal # "SIGKILL")
    <2>1. ASSUME procs[p].pc = "bind", Runs(p)
          PROVE  /\ Listening = {}
                 /\ \A q \in Pids : q # p => ~(Live(q) /\ procs[q].signal # "SIGKILL")
      <3>1. Live(p) /\ procs[p].signal # "SIGKILL"
        BY <2>1 DEF Live, Runs
      <3> QED BY <2>1, <3>1 DEF MonitorInv, Charge, BindsAlone
    <2> QED BY <2>1 DEF Allowed
  <1>8. BindsAlone'
    <2> SUFFICES ASSUME NEW q \in Pids, procs'[q].pc = "bind", procs'[q].signal # "SIGKILL"
                 PROVE  Listening' = {}
      BY <1>1 DEF BindsAlone
    <2>1. CASE q = p
      <3>1. IsLive(r) /\ ~IsListening(r) /\ r.pc = "bind" /\ r.signal # "SIGKILL"
        BY <1>1, <2>1 DEF IsLive, IsListening
      <3>2. procs[p].signal # "SIGKILL" /\ (procs[p].pc = "bind" \/ Listening = {})
        BY <3>1 DEF Allowed
      <3>3. Listening = {}
        BY <3>2 DEF MonitorInv, BindsAlone
      <3> QED BY <1>3, <3>1, <3>3
    <2>2. CASE q # p
      <3>1. procs[q].pc = "bind" /\ procs[q].signal # "SIGKILL" /\ Live(q)
        BY <1>1, <2>2 DEF Live
      <3>2. Listening = {}
        BY <3>1 DEF MonitorInv, BindsAlone
      <3> QED BY <1>3, <1>7, <2>2, <3>1, <3>2
    <2> QED BY <2>1, <2>2
  <1>9. ListensAlone'
    BY <1>3, <1>7 DEF ListensAlone, MonitorInv
  <1> QED BY <1>4, <1>5, <1>6, <1>8, <1>9 DEF MonitorInv

\* A signal, or a report to the parent, leaves who lives and listens as it is.
LEMMA SameProcesses ==
  ASSUME MonitorInv, Pids' = Pids,
         \A q \in Pids : /\ Live(q)' => Live(q) /\ procs'[q].pc = procs[q].pc
                         /\ procs'[q].pdeath = procs[q].pdeath
                         /\ procs[q].signal = "SIGKILL" => procs'[q].signal = "SIGKILL"
                         /\ procs'[q].change \in {"none", procs[q].change}
         
  PROVE  DiesWithParent' /\ ReportedDead' /\ BindsAlone' /\ ListensAlone'
  <1>1. Listening' \subseteq Listening
    BY DEF Listening, Live
  <1>2. DiesWithParent'
    BY DEF MonitorInv, DiesWithParent
  <1>3. ReportedDead'
    BY DEF MonitorInv, ReportedDead, Live
  <1>4. BindsAlone'
    BY <1>1 DEF MonitorInv, BindsAlone, Live
  <1>5. ListensAlone'
    BY <1>1 DEF MonitorInv, ListensAlone
  <1> QED BY <1>2, <1>3, <1>4, <1>5

-----------------------------------------------------------------------------
\* The parent's record.
LEMMA ParentFacts ==
  ASSUME TypeOK
  PROVE  /\ parent.pc \in {"fork", "sleep", "monitor", "waitpid", "dead"}
         /\ parent.child \in Nat /\ parent.timer \in 0..SleepSecs
         /\ SleepSecs \in Nat
         /\ \A x \in {"fork", "sleep", "monitor", "waitpid", "dead"} :
              /\ [parent EXCEPT !.pc = x] \in ParentType
              /\ [parent EXCEPT !.pc = x].pc = x
              /\ [parent EXCEPT !.pc = x].child = parent.child
              /\ [parent EXCEPT !.pc = x].timer = parent.timer
  BY MonitorAssumption DEF TypeOK, ParentType

\* Fork: the new process is the parent's child, and the others are dead or dying.
LEMMA ForkStep ==
  ASSUME TypeOK, Fork
  PROVE  /\ TypeOK'
         /\ MonitorInv => MonitorInv'
  <1>1. PICK secs \in 0..StartSecs : procs' = Append(procs, NewChild(secs))
    BY DEF Fork
  <1> DEFINE n == Len(procs) + 1
             new == NewChild(secs)
  <1>2. /\ new \in ProcType /\ new.pc = "forked" /\ new.change = "none"
        /\ new.signal = "none"
    BY <1>1, NewChildType DEF NewChild
  <1> HIDE DEF new
  <1>3. /\ procs' \in Seq(ProcType) /\ Len(procs') = n
        /\ procs'[n] = new /\ \A q \in Pids : procs'[q] = procs[q]
    BY <1>1, <1>2, AppendProperties DEF TypeOK, Pids, new
  <1>4. Pids' = Pids \cup {n} /\ n \notin Pids /\ n \in Nat
    BY <1>3, ProcsFacts DEF Pids
  <1>5. parent' = [pc |-> "sleep", child |-> n, timer |-> SleepSecs]
    BY DEF Fork
  <1>6. parent'.pc = "sleep" /\ parent'.child = n /\ parent' \in ParentType
    BY <1>4, <1>5, MonitorAssumption DEF ParentType
  <1>7. TypeOK'
    BY <1>3, <1>4, <1>6 DEF TypeOK, Fork
  <1> HIDE DEF n
  <1>8. ASSUME MonitorInv PROVE MonitorInv'
    <2>1. /\ \A q \in Pids : Live(q)' <=> Live(q)
          /\ Listening' = Listening
      BY <1>2, <1>3, <1>4 DEF Live, Listening
    <2>2. Charge'
      <3>1. \A q \in Pids : Live(q) => procs[q].signal = "SIGKILL"
        BY <1>8 DEF MonitorInv, Charge, Fork
      <3> QED BY <1>3, <1>4, <1>6, <2>1, <3>1 DEF Charge
    <2>3. DiesWithParent'
      BY <1>2, <1>3, <1>4, <1>8, <2>1 DEF MonitorInv, DiesWithParent
    <2>4. ReportedDead'
      BY <1>2, <1>3, <1>4, <1>8, <2>1 DEF MonitorInv, ReportedDead
    <2>5. BindsAlone'
      BY <1>2, <1>3, <1>4, <1>8, <2>1 DEF MonitorInv, BindsAlone
    <2>6. ListensAlone'
      BY <1>8, <2>1 DEF MonitorInv, ListensAlone
    <2> QED BY <2>2, <2>3, <2>4, <2>5, <2>6 DEF MonitorInv
  <1> QED BY <1>7, <1>8

\* A step of the parent that leaves the processes alone.
LEMMA ParentAloneInv ==
  ASSUME TypeOK, MonitorInv, procs' = procs, parent'.child = parent.child,
         parent'.pc \in {"sleep", "monitor", "waitpid"}
  PROVE  MonitorInv'
  <1>1. Pids' = Pids /\ Listening' = Listening /\ \A q \in Pids : Live(q)' <=> Live(q)
    BY DEF Pids, Listening, Live
  <1>2. Charge'
    BY <1>1 DEF MonitorInv, Charge
  <1> QED BY <1>1, <1>2 DEF MonitorInv, DiesWithParent, ReportedDead, BindsAlone, ListensAlone

\* What MonitorFn may do: the child gets a SIGABRT, unless it had a signal.
LEMMA MonitorFnStep ==
  ASSUME TypeOK, MonitorFn
  PROVE  /\ TypeOK' /\ Pids' = Pids
         /\ parent'.pc = "waitpid" /\ parent'.child = parent.child
         /\ \A q \in Pids : /\ procs'[q].pc = procs[q].pc
                            /\ procs'[q].pdeath = procs[q].pdeath
                            /\ procs'[q].change = procs[q].change
                            /\ procs[q].signal # "none" => procs'[q].signal = procs[q].signal
                            /\ procs'[q].signal # procs[q].signal => q = parent.child
         /\ MonitorInv => MonitorInv'
  <1> DEFINE c == parent.child
             sig == IF procs[c].signal = "none" THEN "SIGABRT" ELSE procs[c].signal
             r == [procs[c] EXCEPT !.signal = sig]
  <1>0. /\ parent.pc = "monitor" /\ parent' = [parent EXCEPT !.pc = "waitpid"]
        /\ c \in Pids /\ procs[c] \in ProcType /\ procs \in [Pids -> ProcType]
        /\ faults' = faults
    BY ProcsFacts DEF MonitorFn, TypeOK
  <1>1. parent'.pc = "waitpid" /\ parent'.child = c /\ parent' \in ParentType
    BY <1>0, ParentFacts
  <1>2. /\ r \in ProcType
        /\ r.pc = procs[c].pc /\ r.pdeath = procs[c].pdeath /\ r.change = procs[c].change
        /\ r.signal = sig
    <2>1. sig \in {"none", "SIGABRT", "SIGKILL"}
      BY <1>0, ProcFields
    <2> HIDE DEF sig
    <2> QED BY <1>0, <2>1 DEF ProcType
  <1>3. procs' = procs \/ procs' = [procs EXCEPT ![c] = r]
    BY <1>0 DEF MonitorFn
  <1> HIDE DEF r
  <1>4. /\ procs' \in Seq(ProcType) /\ Pids' = Pids
        /\ \A q \in Pids : procs'[q] = procs[q] \/ (q = c /\ procs'[q] = r)
    <2>1. CASE procs' = procs
      BY <2>1 DEF Pids, TypeOK
    <2>2. CASE procs' = [procs EXCEPT ![c] = r]
      BY <1>0, <1>2, <2>2, TableUpdates
    <2> QED BY <1>3, <2>1, <2>2
  <1>5. TypeOK'
    BY <1>0, <1>1, <1>4 DEF TypeOK
  <1>6. \A q \in Pids : /\ procs'[q].pc = procs[q].pc
                        /\ procs'[q].pdeath = procs[q].pdeath
                        /\ procs'[q].change = procs[q].change
                        /\ procs[q].signal # "none" => procs'[q].signal = procs[q].signal
                        /\ procs'[q].signal # procs[q].signal => q = c
    BY <1>2, <1>4
  <1>7. ASSUME MonitorInv PROVE MonitorInv'
    <2>1. \A q \in Pids : Live(q)' <=> Live(q)
      BY <1>6 DEF Live
    <2>2. DiesWithParent' /\ ReportedDead' /\ BindsAlone' /\ ListensAlone'
      BY <1>4, <1>6, <1>7, <2>1, SameProcesses
    <2>3. Charge'
      BY <1>0, <1>1, <1>4, <1>6, <1>7, <2>1 DEF MonitorInv, Charge
    <2> QED BY <2>2, <2>3 DEF MonitorInv
  <1> QED BY <1>1, <1>4, <1>5, <1>6, <1>7

\* What Waitpid may do: a child that died is gone, and then the parent forks.
LEMMA WaitpidStep ==
  ASSUME TypeOK, Waitpid
  PROVE  /\ TypeOK' /\ Pids' = Pids
         /\ \A q \in Pids : /\ procs'[q].pc \in {procs[q].pc, "reaped"}
                            /\ procs'[q].signal = procs[q].signal
         /\ MonitorInv => MonitorInv'
  <1> DEFINE c == parent.child
             died == procs[c].change = "died"
             r == [procs[c] EXCEPT !.change = "none",
                                   !.pc = IF died THEN "reaped" ELSE procs[c].pc]
  <1>0. /\ parent.pc = "waitpid"
        /\ c \in Pids /\ procs[c] \in ProcType /\ procs \in [Pids -> ProcType]
        /\ faults' = faults
    BY ProcsFacts DEF Waitpid, TypeOK
  <1>1. /\ died => parent' = [parent EXCEPT !.pc = "fork"]
        /\ ~died => parent' = [parent EXCEPT !.pc = "sleep", !.timer = SleepSecs]
    BY DEF Waitpid
  <1>2. /\ parent' \in ParentType /\ parent'.child = c
        /\ parent'.pc = IF died THEN "fork" ELSE "sleep"
    <2>1. parent \in ParentType /\ SleepSecs \in 0..SleepSecs
      BY MonitorAssumption DEF TypeOK
    <2> QED BY <1>1, <2>1 DEF ParentType
  <1>3. /\ r \in ProcType
        /\ r.pc = IF died THEN "reaped" ELSE procs[c].pc
        /\ r.pdeath = procs[c].pdeath /\ r.change = "none" /\ r.signal = procs[c].signal
    BY <1>0 DEF ProcType
  <1>4. procs' = [procs EXCEPT ![c] = r]
    BY <1>0 DEF Waitpid
  <1> HIDE DEF r, died
  <1>5. /\ procs' \in Seq(ProcType) /\ Pids' = Pids /\ procs'[c] = r
        /\ \A q \in Pids : q # c => procs'[q] = procs[q]
    BY <1>0, <1>3, <1>4, TableUpdates
  <1>6. TypeOK'
    BY <1>0, <1>2, <1>5 DEF TypeOK
  <1>7. \A q \in Pids : /\ procs'[q].pc \in {procs[q].pc, "reaped"}
                        /\ procs'[q].signal = procs[q].signal
                        /\ procs'[q].pdeath = procs[q].pdeath
                        /\ procs'[q].change \in {"none", procs[q].change}
    BY <1>3, <1>5
  <1>8. ASSUME MonitorInv PROVE MonitorInv'
    <2>1. \A q \in Pids : Live(q)' => Live(q) /\ procs'[q].pc = procs[q].pc
      BY <1>7 DEF Live
    <2>2. DiesWithParent' /\ ReportedDead' /\ BindsAlone' /\ ListensAlone'
      BY <1>5, <1>7, <1>8, <2>1, SameProcesses
    <2>3. \A q \in Pids : died /\ q = c => ~Live(q)'
      BY <1>3, <1>5 DEF Live
    <2>4. Charge'
      BY <1>0, <1>2, <1>5, <1>7, <1>8, <2>1, <2>3 DEF MonitorInv, Charge
    <2> QED BY <2>2, <2>4 DEF MonitorInv
  <1> QED BY <1>5, <1>6, <1>7, <1>8

\* KillParent: every child that has called prctl is sent a SIGKILL.
LEMMA KillParentStep ==
  ASSUME TypeOK, KillParent
  PROVE  /\ TypeOK'
         /\ parent'.pc = "dead"
         /\ ~KillAnytime /\ MonitorInv => MonitorInv'
  <1> DEFINE r(q) == [procs[q] EXCEPT !.signal = "SIGKILL"]
             f == [q \in Pids |-> IF Live(q) /\ procs[q].pdeath THEN r(q) ELSE procs[q]]
  <1>0. /\ procs' = f /\ parent' = [parent EXCEPT !.pc = "dead"]
        /\ faults \in 0..MaxFaults /\ MaxFaults \in Nat /\ faults' = faults + 1
        /\ faults < MaxFaults
    BY MonitorAssumption DEF KillParent, TypeOK, Fault
  <1>1. \A q \in Pids : /\ procs[q] \in ProcType /\ r(q) \in ProcType
                        /\ r(q).pc = procs[q].pc /\ r(q).pdeath = procs[q].pdeath
                        /\ r(q).change = procs[q].change /\ r(q).signal = "SIGKILL"
    BY SMTT(30), ProcsFacts DEF ProcType
  <1> HIDE DEF r
  <1>2. f \in [Pids -> ProcType]
    BY <1>1
  <1>3. procs' \in Seq(ProcType) /\ Pids' = Pids
    BY <1>0, <1>2, TableUpdates
  <1>4. \A q \in Pids : procs'[q] = IF Live(q) /\ procs[q].pdeath THEN r(q) ELSE procs[q]
    BY <1>0
  <1> HIDE DEF f
  <1>5. parent' \in ParentType /\ parent'.pc = "dead"
    BY <1>0, ParentFacts
  <1>6. TypeOK'
    BY <1>0, <1>3, <1>5 DEF TypeOK
  <1>7. ASSUME ~KillAnytime, MonitorInv PROVE MonitorInv'
    <2>1. \A q \in Pids : /\ procs'[q].pc = procs[q].pc
                          /\ procs'[q].pdeath = procs[q].pdeath
                          /\ procs'[q].change = procs[q].change
                          /\ procs[q].signal = "SIGKILL" => procs'[q].signal = "SIGKILL"
                          /\ Live(q) /\ procs[q].pdeath => procs'[q].signal = "SIGKILL"
      BY <1>1, <1>4
    <2>2. \A q \in Pids : Live(q)' <=> Live(q)
      BY <2>1 DEF Live
    <2>3. DiesWithParent' /\ ReportedDead' /\ BindsAlone' /\ ListensAlone'
      BY <1>3, <1>7, <2>1, <2>2, SameProcesses
    <2>4. \A q \in Pids : Live(q) => procs[q].pdeath
      BY <1>7 DEF MonitorInv, DiesWithParent, KillParent
    <2>5. Charge'
      BY <1>3, <2>1, <2>2, <2>4 DEF Charge
    <2> QED BY <2>3, <2>5 DEF MonitorInv
  <1> QED BY <1>5, <1>6, <1>7

\* Tick: the seconds of the starts and of the parent's sleep are counted.
LEMMA TickStep ==
  ASSUME TypeOK, Tick
  PROVE  /\ TypeOK' /\ Pids' = Pids
         /\ parent'.pc = parent.pc /\ parent'.child = parent.child
         /\ parent'.timer = IF parent.timer > 0 THEN parent.timer - 1 ELSE 0
         /\ \A q \in Pids :
              /\ procs'[q].pc = procs[q].pc /\ procs'[q].pdeath = procs[q].pdeath
              /\ procs'[q].change = procs[q].change /\ procs'[q].signal = procs[q].signal
              /\ procs'[q].left = IF procs[q].left > 0 THEN procs[q].left - 1 ELSE procs[q].left
         /\ MonitorInv => MonitorInv'
  <1> DEFINE r(q) == [procs[q] EXCEPT !.left = procs[q].left - 1]
             f == [q \in Pids |-> IF procs[q].left > 0 THEN r(q) ELSE procs[q]]
             time == IF parent.timer > 0 THEN parent.timer - 1 ELSE 0
  <1>0. procs' = f /\ parent' = [parent EXCEPT !.timer = time] /\ faults' = faults
    BY DEF Tick
  <1>1. ASSUME NEW q \in Pids
        PROVE  /\ procs[q] \in ProcType
               /\ procs[q].left > 0 => r(q) \in ProcType
               /\ r(q).pc = procs[q].pc /\ r(q).pdeath = procs[q].pdeath
               /\ r(q).change = procs[q].change /\ r(q).signal = procs[q].signal
               /\ r(q).left = procs[q].left - 1
    <2>1. procs[q] \in ProcType /\ procs[q].left \in 0..(StartSecs + 1)
      BY ProcsFacts, ProcFields
    <2>2. procs[q].left > 0 => procs[q].left - 1 \in 0..(StartSecs + 1)
      BY <2>1, MonitorAssumption
    <2>3. procs[q].left > 0 => r(q) \in ProcType
      BY <2>1, <2>2, ProcUpdates
    <2> QED BY <2>1, <2>3 DEF ProcType
  <1> HIDE DEF r
  <1>2. f \in [Pids -> ProcType]
    BY <1>1
  <1>3. procs' \in Seq(ProcType) /\ Pids' = Pids
    BY <1>0, <1>2, TableUpdates
  <1>4. \A q \in Pids : procs'[q] = IF procs[q].left > 0 THEN r(q) ELSE procs[q]
    BY <1>0
  <1> HIDE DEF f
  <1>5. /\ parent' \in ParentType /\ parent'.pc = parent.pc /\ parent'.child = parent.child
        /\ parent'.timer = time
    <2>1. parent \in ParentType /\ time \in 0..SleepSecs
      BY ParentFacts DEF TypeOK
    <2> HIDE DEF time
    <2> QED BY <1>0, <2>1 DEF ParentType
  <1>6. TypeOK'
    BY <1>0, <1>3, <1>5 DEF TypeOK
  <1>7. \A q \in Pids :
          /\ procs'[q].pc = procs[q].pc /\ procs'[q].pdeath = procs[q].pdeath
          /\ procs'[q].change = procs[q].change /\ procs'[q].signal = procs[q].signal
          /\ procs'[q].left = IF procs[q].left > 0 THEN procs[q].left - 1 ELSE procs[q].left
    BY <1>1, <1>4
  <1>8. ASSUME MonitorInv PROVE MonitorInv'
    <2>1. \A q \in Pids : Live(q)' <=> Live(q)
      BY <1>7 DEF Live
    <2>2. DiesWithParent' /\ ReportedDead' /\ BindsAlone' /\ ListensAlone'
      BY <1>3, <1>7, <1>8, <2>1, SameProcesses
    <2>3. Charge'
      BY <1>3, <1>5, <1>7, <1>8, <2>1 DEF MonitorInv, Charge
    <2> QED BY <2>2, <2>3 DEF MonitorInv
  <1> QED BY <1>3, <1>5, <1>6, <1>7, <1>8

-----------------------------------------------------------------------------
\* TypeOK and, if the parent is not killed too early, MonitorInv are kept by a step.
LEMMA InitType ==
  Init => TypeOK /\ MonitorInv
  <1> SUFFICES ASSUME Init PROVE TypeOK /\ MonitorInv
    OBVIOUS
  <1>1. procs = <<>> /\ Pids = {} /\ procs \in Seq(ProcType)
    BY EmptySeq DEF Init, Pids
  <1>2. parent \in ParentType /\ parent.pc = "fork"
    BY MonitorAssumption DEF Init, ParentType
  <1>3. TypeOK
    BY <1>1, <1>2, MonitorAssumption DEF Init, TypeOK
  <1>4. MonitorInv
    BY <1>1 DEF MonitorInv, Charge, DiesWithParent, ReportedDead, BindsAlone, ListensAlone,
       Listening
  <1> QED BY <1>3, <1>4

\* The steps by who takes them.
LEMMA NextSteps ==
  ASSUME Next
  PROVE  \/ Fork \/ WakeUp \/ MonitorFn \/ Waitpid \/ RestartParent \/ KillParent \/ Tick
         \/ \E p \in Pids : ProcessStep(p)
  BY DEF Next, ParentStep, FaultStep, ProcessStep

\* Every step keeps TypeOK and MonitorInv.
LEMMA NextInv ==
  ASSUME TypeOK, [Next]_vars
  PROVE  TypeOK' /\ (MonitorInv /\ ~KillAnytime => MonitorInv')
  <1>1. CASE Fork
    BY <1>1, ForkStep
  <1>2. CASE WakeUp
    <2>1. /\ parent' \in ParentType /\ parent'.pc = "monitor" /\ parent'.child = parent.child
          /\ procs' = procs /\ faults' = faults
      BY <1>2, ParentFacts DEF WakeUp
    <2>2. TypeOK'
      BY <1>2, <2>1 DEF WakeUp, TypeOK, Pids
    <2> QED BY <2>1, <2>2, ParentAloneInv
  <1>3. CASE MonitorFn
    BY <1>3, MonitorFnStep
  <1>4. CASE Waitpid
    BY <1>4, WaitpidStep
  <1>5. CASE RestartParent
    <2>1. /\ parent' \in ParentType /\ parent'.pc = "fork" /\ procs' = procs
          /\ faults' = faults /\ parent.pc = "dead"
      BY <1>5, MonitorAssumption DEF RestartParent, ParentType
    <2>2. TypeOK'
      BY <2>1 DEF TypeOK
    <2>3. Pids' = Pids /\ Listening' = Listening /\ \A q \in Pids : Live(q)' <=> Live(q)
      BY <2>1 DEF Pids, Listening, Live
    <2>4. MonitorInv => Charge'
      BY <2>1, <2>3 DEF MonitorInv, Charge
    <2> QED BY <2>1, <2>2, <2>3, <2>4
         DEF MonitorInv, DiesWithParent, ReportedDead, BindsAlone, ListensAlone
  <1>6. CASE KillParent
    BY <1>6, KillParentStep
  <1>7. CASE Tick
    BY <1>7, TickStep
  <1>8. ASSUME NEW p \in Pids, ProcessStep(p) PROVE TypeOK' /\ (MonitorInv => MonitorInv')
    <2>1. PICK r \in ProcType : Becomes(p, r) /\ (DiesWithParent => Allowed(p, r))
      BY <1>8, ProcessSteps
    <2> QED BY <1>8, <2>1, BecomesType, BecomesInv DEF MonitorInv
  <1>9. CASE UNCHANGED vars
    <2>1. Pids' = Pids /\ Listening' = Listening /\ \A q \in Pids : Live(q)' <=> Live(q)
      BY <1>9 DEF Pids, Listening, Live, vars
    <2> QED BY <1>9, <2>1
         DEF TypeOK, MonitorInv, Charge, DiesWithParent, ReportedDead, BindsAlone, ListensAlone,
             vars
  <1> QED BY <1>1, <1>2, <1>3, <1>4, <1>5, <1>6, <1>7, <1>8, <1>9, NextSteps

-----------------------------------------------------------------------------
\* The types of the parent and of its children.
THEOREM TypeCorrect == Spec => []TypeOK
  <1>1. Init => TypeOK
    BY InitType
  <1>2. TypeOK /\ [Next]_vars => TypeOK'
    BY NextInv
  <1> QED BY <1>1, <1>2, PTL DEF Spec

\* MonitorInv holds if the parent is never killed between fork and the child's prctl.
THEOREM MonitorInvariant ==
  ASSUME ~KillAnytime
  PROVE  Spec => []MonitorInv
  <1>1. Init => TypeOK /\ MonitorInv
    BY InitType
  <1>2. TypeOK /\ MonitorInv /\ [Next]_vars => TypeOK' /\ MonitorInv'
    BY NextInv
  <1> QED BY <1>1, <1>2, PTL DEF Spec

\* StartSelfMonitoring forks a new child only when the one before is dead or dying.
THEOREM OneChildHolds ==
  ASSUME ~KillAnytime
  PROVE  Spec => []OneChild
  <1>1. MonitorInv => OneChild
    <2> SUFFICES ASSUME MonitorInv PROVE OneChild
      OBVIOUS
    <2> DEFINE S == {p \in Pids : Live(p) /\ procs[p].signal # "SIGKILL"}
    <2>1. S \subseteq {parent.child}
      BY DEF MonitorInv, Charge
    <2>2. IsFiniteSet({parent.child}) /\ Cardinality({parent.child}) = 1
      BY FS_Singleton
    <2>3. Cardinality(S) <= 1
      BY <2>1, <2>2, FS_Subset
    <2> QED BY <2>3 DEF OneChild
  <1> QED BY <1>1, MonitorInvariant, PTL

\* StartServer, with its look at the port before BuildAndStart, never makes a second
\* proxy listen, whoever is killed and started again.
THEOREM OneListenerHolds ==
  ASSUME ~KillAnytime
  PROVE  Spec => []OneListener
  <1>1. TypeOK /\ MonitorInv => OneListener
    <2> SUFFICES ASSUME MonitorInv PROVE OneListener
      OBVIOUS
    <2>1. CASE Listening = {}
      BY <2>1, FS_EmptySet DEF OneListener
    <2>2. CASE Listening # {}
      <3>1. PICK p : Listening = {p}
        BY <2>2 DEF MonitorInv, ListensAlone
      <3>2. Cardinality({p}) = 1
        BY FS_Singleton
      <3> QED BY <3>1, <3>2 DEF OneListener
    <2> QED BY <2>1, <2>2
  <1> QED BY <1>1, TypeCorrect, MonitorInvariant, PTL

\* A proxy whose parent was killed, or has forked another one, is about to die.
THEOREM NoOrphanHolds ==
  ASSUME ~KillAnytime
  PROVE  Spec => []NoOrphan
  <1>1. MonitorInv => NoOrphan
    BY DEF MonitorInv, Charge, NoOrphan
  <1> QED BY <1>1, MonitorInvariant, PTL

-----------------------------------------------------------------------------
\* A child needs less than the parent's sleep to start, and a second to find the port
\* free that a dying child has held.
StartsInTime == StartSecs < SleepSecs /\ 1 < SleepSecs

\* A step of a process keeps its start in time: it waits another second only when the
\* port is in use, and then the parent has just gone to sleep.
LEMMA BecomesInTime ==
  ASSUME StartsInTime, TypeOK, MonitorInv, ServesInTime,
         NEW p \in Pids, NEW r \in ProcType, Becomes(p, r), Allowed(p, r)
  PROVE  ServesInTime'
  <1>1. /\ Pids' = Pids /\ procs'[p] = r /\ parent' = parent
        /\ \A q \in Pids : q # p => procs'[q] = procs[q]
    BY TableUpdates DEF Becomes
  <1>2. \A q \in Pids : Live(q)' => Live(q)
    BY <1>1 DEF Live, IsLive, Allowed
  <1> SUFFICES ASSUME NEW q \in Pids, q = parent.child,
                      parent.pc \in {"sleep", "monitor", "waitpid"},
                      Starting(q)', procs'[q].signal = "none"
               PROVE  /\ parent.pc = "sleep" /\ procs'[q].left < parent.timer
                      /\ parent.timer < SleepSecs => \A x \in Pids : x # q => ~Live(x)'
    BY <1>1 DEF ServesInTime
  <1>3. CASE q # p
    <2>1. procs'[q] = procs[q] /\ Starting(q) /\ procs[q].signal = "none"
      BY <1>1, <1>3 DEF Starting
    <2> QED BY <1>2, <2>1 DEF ServesInTime
  <1>4. CASE q = p
    <2>1. /\ Starting(p) /\ procs[p].signal = "none"
          /\ r.left <= procs[p].left \/ (r.left = 1 /\ Listening # {} /\ p \notin Listening)
      <3>1. IsStarting(r) /\ IsLive(r) /\ r.signal = "none"
        BY <1>1, <1>4 DEF Starting, IsStarting, IsLive
      <3>2. Starting(p) /\ r.signal = procs[p].signal
        BY <3>1 DEF Allowed
      <3>3. r.left <= procs[p].left \/ (r.left = 1 /\ Listening # {} /\ p \notin Listening)
        BY <3>1 DEF Allowed
      <3> QED BY <3>1, <3>2, <3>3
    <2>2. /\ parent.pc = "sleep" /\ procs[p].left < parent.timer
          /\ parent.timer < SleepSecs => \A x \in Pids : x # p => ~Live(x)
      BY <1>4, <2>1 DEF ServesInTime
    <2>3. r.left < parent.timer
      <3>0. /\ procs[p].left \in Nat /\ r.left \in Nat
            /\ parent.timer \in 0..SleepSecs /\ SleepSecs \in Nat
        BY ProcFields, ProcsFacts, ParentFacts, MonitorAssumption
      <3>1. CASE r.left <= procs[p].left
        BY <2>2, <3>0, <3>1
      <3>2. CASE r.left = 1 /\ Listening # {} /\ p \notin Listening
        <4>1. PICK x \in Listening : x # p
          BY <3>2
        <4>2. x \in Pids /\ Live(x)
          BY <4>1 DEF Listening, Live
        <4>3. ~(parent.timer < SleepSecs)
          BY <2>2, <4>1, <4>2
        <4> QED BY <3>0, <3>2, <4>3 DEF StartsInTime
      <3> QED BY <2>1, <3>1, <3>2
    <2> QED BY <1>1, <1>2, <1>4, <2>2, <2>3
  <1> QED BY <1>3, <1>4

\* Tick: no second passes while a start could go on, nor while somebody has yet to die.
LEMMA TickInTime ==
  ASSUME TypeOK, MonitorInv, ServesInTime, Tick
  PROVE  ServesInTime'
  <1>1. /\ Pids' = Pids /\ parent'.pc = parent.pc /\ parent'.child = parent.child
        /\ parent'.timer = IF parent.timer > 0 THEN parent.timer - 1 ELSE 0
        /\ \A q \in Pids : /\ procs'[q].pc = procs[q].pc /\ procs'[q].signal = procs[q].signal
                           /\ procs'[q].left = IF procs[q].left > 0 THEN procs[q].left - 1
                                               ELSE procs[q].left
    BY TickStep
  <1>2. \A q \in Pids : (Live(q)' <=> Live(q)) /\ (Starting(q)' <=> Starting(q))
    BY <1>1 DEF Live, Starting
  <1> SUFFICES ASSUME NEW q \in Pids, q = parent.child,
                      parent.pc \in {"sleep", "monitor", "waitpid"},
                      Starting(q), procs[q].signal = "none"
               PROVE  /\ parent.pc = "sleep" /\ procs'[q].left < parent'.timer
                      /\ parent'.timer < SleepSecs => \A x \in Pids : x # q => ~Live(x)
    BY <1>1, <1>2 DEF ServesInTime
  <1>3. parent.pc = "sleep" /\ procs[q].left < parent.timer
    BY DEF ServesInTime
  <1>4. procs[q].left # 0
    BY DEF Tick, Urgent
  <1>5. procs[q].left \in Nat /\ parent.timer \in Nat
    BY ProcFields, ProcsFacts, ParentFacts, MonitorAssumption
  <1>6. procs'[q].left = procs[q].left - 1 /\ parent'.timer = parent.timer - 1
    BY <1>1, <1>3, <1>4, <1>5
  <1>7. ASSUME NEW x \in Pids, x # q PROVE ~Live(x)
    <2>1. Live(x) => procs[x].signal = "SIGKILL"
      BY <1>7 DEF MonitorInv, Charge
    <2> QED BY <2>1 DEF Tick, Urgent
  <1> QED BY <1>3, <1>5, <1>6, <1>7

\* Every step keeps ServesInTime.
LEMMA NextInTime ==
  ASSUME StartsInTime, TypeOK, MonitorInv, ServesInTime, [Next]_vars
  PROVE  ServesInTime'
  <1>1. CASE Fork
    <2>1. PICK secs \in 0..StartSecs : procs' = Append(procs, NewChild(secs))
      BY <1>1 DEF Fork
    <2>2. NewChild(secs) \in ProcType /\ NewChild(secs).left = secs
      BY NewChildType DEF NewChild
    <2>3. Len(procs) \in Nat /\ procs'[Len(procs) + 1] = NewChild(secs)
      BY <2>1, <2>2, AppendProperties, ProcsFacts DEF TypeOK
    <2>4. parent'.pc = "sleep" /\ parent'.child = Len(procs) + 1 /\ parent'.timer = SleepSecs
      BY <1>1 DEF Fork
    <2>5. secs < SleepSecs /\ ~(SleepSecs < SleepSecs)
      BY MonitorAssumption DEF StartsInTime
    <2> QED BY <2>2, <2>3, <2>4, <2>5 DEF ServesInTime
  <1>2. CASE WakeUp
    <2>1. /\ parent.pc = "sleep" /\ parent.timer = 0 /\ procs' = procs
          /\ parent'.child = parent.child
      BY <1>2, ParentFacts DEF WakeUp
    <2>2. \A q \in Pids : procs[q].left \in Nat
      BY ProcFields, ProcsFacts, MonitorAssumption
    <2>3. \A q \in Pids : ~(procs[q].left < 0)
      BY <2>2
    <2> QED BY <2>1, <2>3 DEF ServesInTime, Pids, Starting
  <1>3. CASE MonitorFn
    <2>1. /\ Pids' = Pids /\ parent'.child = parent.child /\ parent.pc = "monitor"
          /\ \A q \in Pids : /\ procs'[q].pc = procs[q].pc
                             /\ procs[q].signal # "none" => procs'[q].signal = procs[q].signal
      BY <1>3, MonitorFnStep DEF MonitorFn
    <2> QED BY <2>1 DEF ServesInTime, Starting
  <1>4. CASE Waitpid
    <2>1. /\ Pids' = Pids /\ parent.pc = "waitpid"
          /\ \A q \in Pids : /\ procs'[q].pc \in {procs[q].pc, "reaped"}
                             /\ procs'[q].signal = procs[q].signal
      BY <1>4, WaitpidStep DEF Waitpid
    <2>2. parent'.child = parent.child
      BY <1>4, ParentFacts DEF Waitpid, TypeOK, ParentType
    <2> QED BY <2>1, <2>2 DEF ServesInTime, Starting
  <1>5. CASE RestartParent
    <2>1. parent'.pc = "fork"
      BY <1>5 DEF RestartParent
    <2> QED BY <2>1 DEF ServesInTime
  <1>6. CASE KillParent
    <2>1. parent'.pc = "dead"
      BY <1>6, KillParentStep
    <2> QED BY <2>1 DEF ServesInTime
  <1>7. CASE Tick
    BY <1>7, TickInTime
  <1>8. ASSUME NEW p \in Pids, ProcessStep(p) PROVE ServesInTime'
    <2>1. PICK r \in ProcType : Becomes(p, r) /\ Allowed(p, r)
      BY <1>8, ProcessSteps DEF MonitorInv
    <2> QED BY <1>8, <2>1, BecomesInTime
  <1>9. CASE UNCHANGED vars
    BY <1>9 DEF ServesInTime, Pids, Starting, Live, vars
  <1> QED BY <1>1, <1>2, <1>3, <1>4, <1>5, <1>6, <1>7, <1>8, <1>9, NextSteps

\* Every child serves before the parent, that sleeps gpl_util_self_monitoring_sleep_secs,
\* looks at it.
THEOREM ServesInTimeHolds ==
  ASSUME ~KillAnytime, StartsInTime
  PROVE  Spec => []ServesInTime
  <1>1. Init => ServesInTime
    BY DEF Init, ServesInTime
  <1>2. TypeOK /\ MonitorInv /\ ServesInTime /\ [Next]_vars => ServesInTime'
    BY NextInTime
  <1> QED BY <1>1, <1>2, TypeCorrect, MonitorInvariant, PTL DEF Spec

\* monitor_fn sends SIGABRT to no child that serves or still starts.
THEOREM HealthyNotKilledHolds ==
  ASSUME ~KillAnytime, StartsInTime
  PROVE  Spec => HealthyNotKilled
  <1> DEFINE A == \A p \in Pids : procs'[p].signal = "SIGABRT" /\ procs[p].signal # "SIGABRT" =>
                    ~Healthy(p)
  <1>1. TypeOK /\ MonitorInv /\ ServesInTime /\ [Next]_vars => [A]_vars
    <2> SUFFICES ASSUME TypeOK, MonitorInv, ServesInTime, Next,
                        NEW q \in Pids, procs'[q].signal = "SIGABRT",
                        procs[q].signal # "SIGABRT"
                 PROVE  ~Healthy(q)
      OBVIOUS
    <2>1. CASE Fork
      <3>1. PICK secs \in 0..StartSecs : procs' = Append(procs, NewChild(secs))
        BY <2>1 DEF Fork
      <3>2. procs'[q] = procs[q]
        BY <3>1, NewChildType, AppendProperties DEF TypeOK, Pids
      <3> QED BY <3>2
    <2>2. CASE WakeUp
      BY <2>2 DEF WakeUp
    <2>3. CASE MonitorFn
      <3>1. parent.pc = "monitor" /\ q = parent.child /\ procs[q].signal = "none"
        BY <2>3, MonitorFnStep DEF MonitorFn
      <3>2. ~Starting(q)
        BY <3>1 DEF ServesInTime
      <3>3. ASSUME procs[q].pc = "serving", ~procs[q].stopped PROVE FALSE
        <4>1. q \in Listening /\ Answers(q)
          BY <3>3 DEF Listening, Answers
        <4>2. \A x \in Listening : x = q
          BY <4>1 DEF MonitorInv, ListensAlone
        <4>3. procs' = procs
          BY <2>3, <4>1, <4>2 DEF MonitorFn
        <4> QED BY <4>3
      <3> QED BY <3>2, <3>3 DEF Healthy
    <2>4. CASE Waitpid
      BY <2>4, WaitpidStep
    <2>5. CASE RestartParent
      BY <2>5 DEF RestartParent
    <2>6. CASE KillParent
      <3>1. procs'[q] = [procs[q] EXCEPT !.signal = "SIGKILL"] \/ procs'[q] = procs[q]
        BY <2>6 DEF KillParent
      <3>2. procs[q] \in ProcType
        BY ProcsFacts
      <3>3. [procs[q] EXCEPT !.signal = "SIGKILL"].signal = "SIGKILL"
        BY <3>2 DEF ProcType
      <3> QED BY <3>1, <3>3
    <2>7. CASE Tick
      BY <2>7, TickStep
    <2>8. ASSUME NEW p \in Pids, ProcessStep(p) PROVE FALSE
      <3>1. PICK r \in ProcType : Becomes(p, r) /\ Allowed(p, r)
        BY <2>8, ProcessSteps DEF MonitorInv
      <3>2. procs'[q] = procs[q] \/ (q = p /\ procs'[q] = r)
        BY <3>1, TableUpdates DEF Becomes
      <3>3. q = p /\ procs'[q] = r /\ r.signal = "SIGABRT"
        BY <3>2
      <3> QED BY <3>1, <3>3 DEF Allowed
    <2> QED BY <2>1, <2>2, <2>3, <2>4, <2>5, <2>6, <2>7, <2>8, NextSteps
  <1> QED BY <1>1, TypeCorrect, MonitorInvariant, ServesInTimeHolds, PTL
       DEF Spec, HealthyNotKilled

=============================================================================
