------------------------ MODULE PeerTrackerRefinement ------------------------
(***************************************************************************)
(* Proof that the kqueue tracker implements the abstract exit-signal      *)
(* oracle LivenessOracle under the mapping Oracle of PeerTracker, for     *)
(* every value of the constants.                                           *)
(*                                                                         *)
(* Only three kinds of step move the oracle's state: the kernel's exits   *)
(* and spawns, NewWatcher's registration of a new channel (Arm) and       *)
(* receiveKevents' delivery (Fire).  Registration needs the PID to have   *)
(* no pending signal; the registry only says that it has no entry.  The   *)
(* invariant UnfiredIsEntry bridges the two: a channel that has been made *)
(* and not closed is still its PID's entry.                                *)
(***************************************************************************)
EXTENDS PeerTrackerProofs

(* A made, unclosed channel is the registry entry of the PID it was made  *)
(* for: receiveKevents deletes an entry exactly when it closes its        *)
(* channel, and nothing else removes one.                                  *)
UnfiredIsEntry ==
    \A c \in Chans : c < nextChan /\ ~chanClosed[c] => watched[chanPid[c]] = c

(* The part of the state the oracle is a function of.                     *)
oracleVars == <<alive, inc, nextChan, chanPid, chanInc, chanClosed>>

(* Every step is an exit or a spawn, a registration, a delivery, or       *)
(* leaves the oracle's part of the state and the registry alone.         *)
LEMMA StepCases ==
    ASSUME IInv, [Next]_vars
    PROVE  \/ \E p \in Pids : ProcessExit(p) \/ ProcessSpawn(p)
           \/ \E w \in Watchers : wpid[w] \in Pids /\ NewWatcherRegister(w, wpid[w])
           \/ DispatchDeliver
           \/ UNCHANGED <<oracleVars, watched>>
<1> USE DEF oracleVars, osVars, trackerVars
<1>1. ASSUME NEW w \in Watchers, NewWatcherLocked(w)
      PROVE  \/ \E v \in Watchers : wpid[v] \in Pids /\ NewWatcherRegister(v, wpid[v])
             \/ UNCHANGED <<oracleVars, watched>>
    <2>1. wpid[w] \in Pids
        BY <1>1 DEF NewWatcherLocked, IInv, TypeOK
    <2>2. QED
        BY <1>1, <2>1 DEF NewWatcherLocked, NewWatcherReuse, NewWatcherFail
<1>2. ASSUME NEW w \in Watchers, NEW p \in {0} \cup Pids, NewWatcherCheck(w, p)
      PROVE  UNCHANGED <<oracleVars, watched>>
    BY <1>2 DEF NewWatcherCheck
<1>3. ASSUME NEW w \in Watchers,
             IsAliveBegin(w) \/ IsAliveEnd(w) \/ WatcherClose(w) \/ ConnectionDone(w)
      PROVE  UNCHANGED <<oracleVars, watched>>
    BY <1>3 DEF IsAliveBegin, IsAliveEnd, WatcherClose, ConnectionDone
<1>4. CASE CloseBegin \/ CloseEnd \/ DispatchReceive \/ DispatchError
    BY <1>4 DEF CloseBegin, CloseEnd, DispatchReceive, DispatchError
<1>5. CASE UNCHANGED vars
    BY <1>5 DEF vars
<1>6. QED
    BY <1>1, <1>2, <1>3, <1>4, <1>5 DEF Next

LEMMA InitUnfired == Init => UnfiredIsEntry
BY DEF Init, UnfiredIsEntry, Chans

LEMMA UnfiredStep == IInv /\ UnfiredIsEntry /\ [Next]_vars => UnfiredIsEntry'
<1> SUFFICES ASSUME IInv, UnfiredIsEntry, [Next]_vars PROVE UnfiredIsEntry'
    OBVIOUS
<1>1. ASSUME NEW p \in Pids, ProcessExit(p) \/ ProcessSpawn(p) PROVE UnfiredIsEntry'
    BY <1>1 DEF ProcessExit, ProcessSpawn, UnfiredIsEntry, trackerVars
<1>2. ASSUME NEW w \in Watchers, NEW p \in Pids, wpid[w] = p, NewWatcherRegister(w, p)
      PROVE  UnfiredIsEntry'
    <2> DEFINE n == nextChan
    <2>1. /\ watched[p] = NoChan
          /\ watched' = [watched EXCEPT ![p] = n]
          /\ chanPid' = [chanPid EXCEPT ![n] = p]
          /\ nextChan' = n + 1
          /\ chanClosed' = chanClosed
        BY <1>2 DEF NewWatcherRegister
    <2>2. n \in Chans /\ ~chanClosed[n]
        BY <1>2 DEF NewWatcherRegister, IInv, TypeOK, FreshChansOpen, Chans
    <2> SUFFICES ASSUME NEW c \in Chans, c < n + 1, ~chanClosed[c]
                 PROVE  watched'[chanPid'[c]] = c
        BY <2>1 DEF UnfiredIsEntry
    <2>3. CASE c = n
        BY <2>1, <2>2, <2>3 DEF IInv, TypeOK
    <2>4. CASE c # n
        <3>1. c < n /\ chanPid'[c] = chanPid[c]
            BY <2>1, <2>2, <2>4 DEF IInv, TypeOK, Chans
        <3>2. chanPid[c] \in Pids /\ watched[chanPid[c]] = c
            BY <3>1 DEF IInv, ChanHistory, UnfiredIsEntry
        <3>3. chanPid[c] # p
            BY <2>1, <3>2 DEF NoChan, Chans
        <3>4. QED
            BY <2>1, <3>1, <3>2, <3>3 DEF IInv, TypeOK
    <2>5. QED
        BY <2>3, <2>4
<1>3. CASE DispatchDeliver
    <2> DEFINE hit == {p \in batch : watched[p] # NoChan}
               fired == {watched[p] : p \in hit}
    <2>1. /\ chanClosed' = [c \in Chans |-> chanClosed[c] \/ c \in fired]
          /\ watched' = [p \in Pids |-> IF p \in hit THEN NoChan ELSE watched[p]]
          /\ UNCHANGED <<nextChan, chanPid>>
        BY <1>3 DEF DispatchDeliver
    <2> SUFFICES ASSUME NEW c \in Chans, c < nextChan, ~chanClosed'[c]
                 PROVE  watched'[chanPid[c]] = c
        BY <2>1 DEF UnfiredIsEntry
    <2>2. c \notin fired /\ ~chanClosed[c]
        BY <2>1
    <2>3. chanPid[c] \in Pids /\ watched[chanPid[c]] = c
        BY <2>2 DEF IInv, ChanHistory, UnfiredIsEntry
    <2>4. chanPid[c] \notin hit
        BY <2>2, <2>3
    <2>5. QED
        BY <2>1, <2>3, <2>4
<1>4. CASE UNCHANGED <<oracleVars, watched>>
    BY <1>4 DEF oracleVars, UnfiredIsEntry
<1>5. QED
    BY <1>1, <1>2, <1>3, <1>4, StepCases

(* The oracle invariant holds in every reachable state.                   *)
LEMMA UnfiredInvariant == Spec => [](IInv /\ UnfiredIsEntry)
BY InitIInv, InitUnfired, IInvStep, UnfiredStep, PTL DEF Spec


(* The oracle's state, as the mapping Oracle computes it.                 *)
AbsSig == [c \in {d \in Chans : d < nextChan} |-> [pid |-> chanPid[c], inc |-> chanInc[c]]]
AbsFired == {c \in Chans : chanClosed[c]}

(* newTracker starts the oracle: nothing armed, nothing fired.            *)
LEMMA InitRefines == Init => Oracle!Init
<1> SUFFICES ASSUME Init PROVE Oracle!Init
    OBVIOUS
<1>1. {d \in Chans : d < nextChan} = {} /\ {c \in Chans : chanClosed[c]} = {}
    BY DEF Init, Chans
<1>2. QED
    BY <1>1 DEF Init, Oracle!Init

(* A step that leaves the oracle's part of the state alone is a stutter.  *)
LEMMA StutterRefines == UNCHANGED oracleVars => UNCHANGED Oracle!vars
BY DEF oracleVars, Oracle!vars

(* The kernel's steps are the oracle's Exit and Spawn.                    *)
LEMMA OsRefines ==
    ASSUME NEW p \in Pids, ProcessExit(p) \/ ProcessSpawn(p)
    PROVE  Oracle!Next
<1>1. UNCHANGED <<nextChan, chanPid, chanInc, chanClosed>>
    BY DEF ProcessExit, ProcessSpawn, trackerVars
<1>2. CASE ProcessExit(p)
    <2>1. Oracle!Exit(p)
        BY <1>1, <1>2 DEF ProcessExit, Oracle!Exit
    <2>2. QED
        BY <2>1 DEF Oracle!Next
<1>3. CASE ProcessSpawn(p)
    <2>1. Oracle!Spawn(p)
        BY <1>1, <1>3 DEF ProcessSpawn, Oracle!Spawn
    <2>2. QED
        BY <2>1 DEF Oracle!Next
<1>4. QED
    BY <1>2, <1>3


(* NewWatcher's registration is the oracle's Arm of the fresh channel:    *)
(* the PID has no entry, so by UnfiredIsEntry every earlier channel of it *)
(* has been closed.                                                        *)
LEMMA RegisterRefines ==
    ASSUME IInv, UnfiredIsEntry, NEW w \in Watchers, NEW p \in Pids,
           NewWatcherRegister(w, p)
    PROVE  Oracle!Next
<1>0. PICK n \in Chans : n = nextChan
    BY DEF NewWatcherRegister, IInv, TypeOK, Chans
<1> USE <1>0
<1>1. /\ watched[p] = NoChan
      /\ chanPid' = [chanPid EXCEPT ![n] = p]
      /\ chanInc' = [chanInc EXCEPT ![n] = inc[p]]
      /\ nextChan' = n + 1
      /\ UNCHANGED <<alive, inc, chanClosed>>
    BY DEF NewWatcherRegister
<1>2. n \in Chans /\ n \notin {d \in Chans : d < n}
    BY <1>0 DEF Chans
<1>3. {s \in {d \in Chans : d < n} \ AbsFired : AbsSig[s].pid = p} = {}
    <2> SUFFICES ASSUME NEW c \in Chans, c < n, ~chanClosed[c], chanPid[c] = p
                 PROVE  FALSE
        BY DEF AbsSig, AbsFired
    <2>1. watched[p] = c
        BY DEF UnfiredIsEntry
    <2>2. QED
        BY <1>1, <2>1 DEF NoChan, Chans
<1>4. {d \in Chans : d < n + 1} = {d \in Chans : d < n} \cup {n}
    BY <1>2 DEF IInv, TypeOK, Chans
<1>5. AbsSig' = [t \in {d \in Chans : d < n} \cup {n} |->
                    IF t = n THEN [pid |-> p, inc |-> inc[p]] ELSE AbsSig[t]]
    BY <1>1, <1>2, <1>4 DEF AbsSig, IInv, TypeOK
<1>6. Oracle!Arm(p, n)
    BY <1>1, <1>2, <1>3, <1>5 DEF Oracle!Arm, Oracle!Pending, AbsSig, AbsFired
<1>7. QED
    BY <1>2, <1>6 DEF Oracle!Next


(* receiveKevents' delivery fires the channels it closes, all of them    *)
(* pending (the registry holds unclosed channels) and all of them past    *)
(* their incarnation (every received event reports an exit); a batch     *)
(* whose PIDs have no entry closes nothing and is a stutter.             *)
LEMMA DeliverRefines ==
    ASSUME IInv, DispatchDeliver
    PROVE  [Oracle!Next]_Oracle!vars
<1> DEFINE hit == {p \in batch : watched[p] # NoChan}
           fired == {watched[p] : p \in hit}
<1>1. /\ chanClosed' = [c \in Chans |-> chanClosed[c] \/ c \in fired]
      /\ UNCHANGED <<alive, inc, nextChan, chanPid, chanInc>>
    BY DEF DispatchDeliver, osVars
<1>2. \A c \in fired : /\ c \in Chans /\ c < nextChan /\ ~chanClosed[c]
                       /\ IncDead(chanPid[c], chanInc[c])
    BY DEF IInv, RegistryInv, KqueueStages, TypeOK, NoChan, Chans
<1>3. CASE fired = {}
    <2>1. chanClosed' = chanClosed
        BY <1>1, <1>3 DEF IInv, TypeOK
    <2>2. QED
        BY <1>1, <2>1, StutterRefines DEF oracleVars
<1>4. CASE fired # {}
    <2>1. PICK S \in SUBSET Chans : S = fired
        BY <1>2
    <2>2. S \subseteq {d \in Chans : d < nextChan} \ AbsFired
        BY <1>2, <2>1 DEF AbsFired
    <2>3. \A c \in S : Oracle!Terminated(AbsSig[c])
        BY <1>2, <2>1 DEF AbsSig, IncDead, Oracle!Terminated
    <2>4. AbsFired' = AbsFired \cup S
        BY <1>1, <2>1 DEF AbsFired
    <2>5. AbsSig' = AbsSig
        BY <1>1 DEF AbsSig
    <2>6. Oracle!Fire(S)
        BY <1>1, <1>4, <2>1, <2>2, <2>3, <2>4, <2>5 DEF Oracle!Fire, AbsSig, AbsFired
    <2>7. QED
        BY <2>6 DEF Oracle!Next
<1>5. QED
    BY <1>3, <1>4

(* Every step of the tracker is a step of the oracle or a stutter.       *)
LEMMA StepRefines ==
    IInv /\ UnfiredIsEntry /\ [Next]_vars => [Oracle!Next]_Oracle!vars
<1> SUFFICES ASSUME IInv, UnfiredIsEntry, [Next]_vars PROVE [Oracle!Next]_Oracle!vars
    OBVIOUS
<1>1. ASSUME NEW p \in Pids, ProcessExit(p) \/ ProcessSpawn(p)
      PROVE  [Oracle!Next]_Oracle!vars
    BY <1>1, OsRefines
<1>2. ASSUME NEW w \in Watchers, wpid[w] \in Pids, NewWatcherRegister(w, wpid[w])
      PROVE  [Oracle!Next]_Oracle!vars
    BY <1>2, RegisterRefines
<1>3. CASE DispatchDeliver
    BY <1>3, DeliverRefines
<1>4. CASE UNCHANGED <<oracleVars, watched>>
    BY <1>4, StutterRefines
<1>5. QED
    BY <1>1, <1>2, <1>3, <1>4, StepCases

(* The kqueue tracker implements the exit-signal oracle for every set of  *)
(* PIDs and watchers and every bound: NewWatcher makes a new done channel *)
(* for a PID only once every earlier channel of that PID has been closed, *)
(* and receiveKevents closes a channel only after the incarnation its     *)
(* knote was armed on has exited.                                          *)
THEOREM TrackerImplementsOracle == Spec => OracleSpec
<1>1. Spec => [](IInv /\ UnfiredIsEntry)
    BY UnfiredInvariant
<1>2. QED
    BY <1>1, InitRefines, StepRefines, PTL DEF Spec, OracleSpec, Oracle!Spec

=============================================================================
