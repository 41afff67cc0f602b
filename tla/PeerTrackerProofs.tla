------------------------- MODULE PeerTrackerProofs -------------------------
(***************************************************************************)
(* Proofs about PeerTracker for every value of its constants.             *)
(***************************************************************************)
EXTENDS PeerTracker, TLAPS

(* The facts, beyond the checked properties, that make them inductive.    *)

(* Channels not made yet are not closed.                                  *)
FreshChansOpen == \A c \in Chans : c >= nextChan => ~chanClosed[c]

(* A made channel records a PID and an incarnation that has started.      *)
ChanHistory ==
    \A c \in Chans : c < nextChan =>
        /\ chanPid[c] \in Pids
        /\ chanInc[c] <= inc[chanPid[c]]

(* An armed knote, a queued and a received exit event are three disjoint  *)
(* stages of one registry entry; an armed knote watches the current,      *)
(* running occupant, a queued or received event reports the end of the   *)
(* occupant the entry's channel was armed on.                            *)
KqueueStages ==
    /\ knotes \cap pending = {}
    /\ knotes \cap batch = {}
    /\ pending \cap batch = {}
    /\ \A p \in knotes \cup pending \cup batch : watched[p] # NoChan
    /\ \A p \in knotes : alive[p] /\ chanInc[watched[p]] = inc[p]
    /\ \A p \in pending \cup batch : IncDead(p, chanInc[watched[p]])

(* The dispatch goroutine holds events only between receive and deliver. *)
BatchOnlyInDeliver == dpc # "deliver" => batch = {}

(* Close cancels the context before the fd is closed.                     *)
CloseOrder ==
    /\ trackerPc # "open" => ctxDone
    /\ kqOpen <=> trackerPc # "closed"
    /\ ~kqOpen => knotes = {} /\ pending = {}

(* Every open watcher holds a channel that has been made.                 *)
WatcherChansMade == \A w \in Watchers : wpc[w] = "open" => wchan[w] < nextChan

IInv ==
    /\ TypeOK
    /\ RegistryInv
    /\ SignalSound
    /\ WatcherBound
    /\ NoPanic
    /\ FreshChansOpen
    /\ ChanHistory
    /\ KqueueStages
    /\ BatchOnlyInDeliver
    /\ CloseOrder
    /\ WatcherChansMade

-----------------------------------------------------------------------------
(* Type correctness.                                                       *)

USE PidsAssumption, BoundsAssumption

(* Every step of Next keeps the variables in their types.                  *)
LEMMA TypeStep == TypeOK /\ [Next]_vars => TypeOK'
<1> SUFFICES ASSUME TypeOK, [Next]_vars PROVE TypeOK'
    OBVIOUS
<1>1. ASSUME NEW p \in Pids, ProcessExit(p) PROVE TypeOK'
    BY <1>1 DEF ProcessExit, TypeOK, trackerVars, dispatchVars, watcherVars
<1>2. ASSUME NEW p \in Pids, ProcessSpawn(p) PROVE TypeOK'
    BY <1>2 DEF ProcessSpawn, TypeOK, trackerVars, dispatchVars, watcherVars
<1>3. ASSUME NEW w \in Watchers, NEW p \in {0} \cup Pids, NewWatcherCheck(w, p)
      PROVE TypeOK'
    BY <1>3 DEF NewWatcherCheck, TypeOK, osVars, trackerVars, dispatchVars
<1>4. ASSUME NEW w \in Watchers, NewWatcherLocked(w) PROVE TypeOK'
    <2> DEFINE p == wpid[w]
    <2>1. p \in Pids /\ wpc[w] = "newing"
        BY <1>4 DEF NewWatcherLocked, TypeOK
    <2>2. UNCHANGED <<dispatchVars, wpid, winc, wclosed, walive, wres>>
        BY <1>4 DEF NewWatcherLocked
    <2>3. CASE NewWatcherReuse(w, p)
        BY <2>1, <2>2, <2>3 DEF NewWatcherReuse, TypeOK, osVars, trackerVars,
           dispatchVars, NoChan, Chans
    <2>4. CASE NewWatcherFail(w, p)
        BY <2>1, <2>2, <2>4 DEF NewWatcherFail, TypeOK, osVars, trackerVars,
           dispatchVars
    <2>5. CASE NewWatcherRegister(w, p)
        <3>1. nextChan \in Chans
            BY <2>5 DEF NewWatcherRegister, TypeOK, Chans
        <3>2. knotes' \subseteq Pids /\ pending' \subseteq Pids
            BY <2>1, <2>5 DEF NewWatcherRegister, AddKeventForWatcher, TypeOK
        <3>3. watched' \in [Pids -> {NoChan} \cup Chans]
            BY <2>1, <2>5, <3>1 DEF NewWatcherRegister, TypeOK
        <3>6. chanPid' \in [Chans -> {0} \cup Pids]
            BY <2>1, <2>5, <3>1 DEF NewWatcherRegister, TypeOK
        <3>7. chanInc' \in [Chans -> 0..MaxInc]
            BY <2>1, <2>5, <3>1 DEF NewWatcherRegister, TypeOK
        <3>8. nextChan' \in 1..(MaxChans + 1)
            BY <2>5, <3>1 DEF NewWatcherRegister, Chans
        <3>4. /\ wpc' \in [Watchers -> {"idle", "newing", "open", "failed"}]
              /\ wchan' \in [Watchers -> {NoChan} \cup Chans]
              /\ wlive' \in [Watchers -> BOOLEAN]
              /\ \A v \in Watchers : wpc'[v] \in {"newing", "open"} => wpid'[v] \in Pids
              /\ \A v \in Watchers : wpc'[v] = "open" => wchan'[v] \in Chans
            BY <2>1, <2>2, <2>5, <3>1 DEF NewWatcherRegister, TypeOK, watcherVars
        <3>5. QED
            BY <2>2, <2>5, <3>2, <3>3, <3>4, <3>6, <3>7, <3>8
               DEF NewWatcherRegister, TypeOK, dispatchVars
    <2>6. QED
        BY <1>4, <2>3, <2>4, <2>5 DEF NewWatcherLocked
<1>5. ASSUME NEW w \in Watchers, IsAliveBegin(w) PROVE TypeOK'
    BY <1>5 DEF IsAliveBegin, TypeOK, osVars, trackerVars, dispatchVars
<1>6. ASSUME NEW w \in Watchers, IsAliveEnd(w) PROVE TypeOK'
    BY <1>6 DEF IsAliveEnd, TypeOK, osVars, trackerVars, dispatchVars
<1>7. ASSUME NEW w \in Watchers, WatcherClose(w) PROVE TypeOK'
    BY <1>7 DEF WatcherClose, TypeOK, osVars, trackerVars, dispatchVars
<1>8. ASSUME NEW w \in Watchers, ConnectionDone(w) PROVE TypeOK'
    BY <1>8 DEF ConnectionDone, TypeOK, osVars, trackerVars, dispatchVars
<1>9. CASE CloseBegin
    BY <1>9 DEF CloseBegin, TypeOK, osVars, dispatchVars, watcherVars
<1>10. CASE CloseEnd
    BY <1>10 DEF CloseEnd, TypeOK, dispatchVars, watcherVars
<1>11. CASE DispatchReceive
    BY <1>11 DEF DispatchReceive, TypeOK, trackerVars, watcherVars
<1>12. CASE DispatchError
    BY <1>12 DEF DispatchError, KeventErrors, TypeOK, osVars, trackerVars, watcherVars
<1>13. CASE DispatchDeliver
    BY <1>13 DEF DispatchDeliver, TypeOK, osVars, watcherVars, NoChan, Chans
<1>14. CASE UNCHANGED vars
    BY <1>14 DEF vars, TypeOK, osVars, trackerVars, dispatchVars, watcherVars
<1>15. QED
    BY <1>1, <1>2, <1>3, <1>4, <1>5, <1>6, <1>7, <1>8, <1>9, <1>10, <1>11,
       <1>12, <1>13, <1>14 DEF Next

(* The initial states are typed.                                          *)
LEMMA InitTypeOK == Init => TypeOK
<1> SUFFICES ASSUME Init PROVE TypeOK
    OBVIOUS
<1>1. /\ alive \in [Pids -> BOOLEAN]
      /\ inc \in [Pids -> 0..MaxInc]
      /\ kqOpen \in BOOLEAN
      /\ knotes \subseteq Pids
      /\ pending \subseteq Pids
    BY DEF Init
<1>2. /\ ctxDone \in BOOLEAN
      /\ trackerPc \in {"open", "closing", "closed"}
      /\ watched \in [Pids -> {NoChan} \cup Chans]
      /\ chanClosed \in [Chans -> BOOLEAN]
    BY DEF Init, NoChan
<1>3. nextChan \in 1..(MaxChans + 1)
    BY DEF Init
<1>4. chanPid \in [Chans -> {0} \cup Pids]
    BY DEF Init
<1>5. chanInc \in [Chans -> 0..MaxInc]
    BY DEF Init
<1>6. /\ dpc \in {"wait", "deliver", "exited", "panicked"}
      /\ batch \subseteq Pids
    BY DEF Init
<1>7. /\ wpc \in [Watchers -> {"idle", "newing", "open", "failed"}]
      /\ wpid \in [Watchers -> {0} \cup Pids]
      /\ winc \in [Watchers -> 0..MaxInc]
      /\ wlive \in [Watchers -> BOOLEAN]
      /\ wchan \in [Watchers -> {NoChan} \cup Chans]
      /\ wclosed \in [Watchers -> BOOLEAN]
      /\ walive \in [Watchers -> {"idle", "sleeping"}]
      /\ wres \in [Watchers -> {"none", "ok", "exited", "notwatched"}]
    BY DEF Init
<1>8. \A w \in Watchers : wpc[w] = "idle"
    BY DEF Init
<1>9. QED
    BY <1>1, <1>2, <1>3, <1>4, <1>5, <1>6, <1>7, <1>8 DEF TypeOK

(* The tracker's variables always have their types (PeerTracker TypeOK).   *)
THEOREM TypeCorrect == Spec => []TypeOK
    BY InitTypeOK, TypeStep, PTL DEF Spec

-----------------------------------------------------------------------------
(* The registry, the exit signal and the shutdown order.                  *)

(* The initial states satisfy the inductive invariant.                     *)
LEMMA InitIInv == Init => IInv
<1> SUFFICES ASSUME Init PROVE IInv
    OBVIOUS
<1>1. TypeOK
    BY InitTypeOK
<1>2. QED
    BY <1>1 DEF Init, IInv, RegistryInv, SignalSound, WatcherBound, NoPanic,
       FreshChansOpen, ChanHistory, KqueueStages, BatchOnlyInDeliver,
       CloseOrder, WatcherChansMade, NoChan, Chans

(* The parts of IInv about the OS, the registry and the dispatch loop,   *)
(* and the parts about the watchers.                                       *)
CorePart ==
    /\ RegistryInv /\ SignalSound /\ NoPanic /\ FreshChansOpen /\ ChanHistory
    /\ KqueueStages /\ BatchOnlyInDeliver /\ CloseOrder
WatcherPart == WatcherBound /\ WatcherChansMade

LEMMA IInvParts == IInv <=> TypeOK /\ CorePart /\ WatcherPart
    BY DEF IInv, CorePart, WatcherPart

(* A step of a caller goroutine that leaves the OS, the tracker and the   *)
(* dispatch loop alone keeps CorePart.                                     *)
LEMMA CoreFrame ==
    ASSUME CorePart, UNCHANGED <<osVars, trackerVars, dispatchVars>>
    PROVE  CorePart'
    BY DEF CorePart, RegistryInv, SignalSound, NoPanic, FreshChansOpen,
           ChanHistory, KqueueStages, BatchOnlyInDeliver, CloseOrder, IncDead,
           osVars, trackerVars, dispatchVars

(* A step that leaves the watchers and the registry's channels alone      *)
(* keeps WatcherPart.                                                      *)
LEMMA WatcherFrame ==
    ASSUME WatcherPart,
           UNCHANGED <<watcherVars, watched, chanClosed, nextChan, chanPid>>
    PROVE  WatcherPart'
    BY DEF WatcherPart, WatcherBound, WatcherChansMade, watcherVars

(* The caller steps other than NewWatcherLocked.                          *)
LEMMA CheckStep ==
    ASSUME IInv, NEW w \in Watchers, NEW p \in {0} \cup Pids, NewWatcherCheck(w, p)
    PROVE  CorePart' /\ WatcherPart'
<1>1. CorePart'
    BY CoreFrame, IInvParts DEF NewWatcherCheck
<1>2. WatcherPart'
    BY DEF NewWatcherCheck, IInv, TypeOK, WatcherPart, WatcherBound, WatcherChansMade, trackerVars
<1>3. QED
    BY <1>1, <1>2

LEMMA IsAliveBeginStep ==
    ASSUME IInv, NEW w \in Watchers, IsAliveBegin(w)
    PROVE  CorePart' /\ WatcherPart'
<1>1. CorePart'
    BY CoreFrame, IInvParts DEF IsAliveBegin
<1>2. WatcherPart'
    BY DEF IsAliveBegin, IInv, TypeOK, WatcherPart, WatcherBound, WatcherChansMade, trackerVars
<1>3. QED
    BY <1>1, <1>2

LEMMA IsAliveEndStep ==
    ASSUME IInv, NEW w \in Watchers, IsAliveEnd(w)
    PROVE  CorePart' /\ WatcherPart'
<1>1. CorePart'
    BY CoreFrame, IInvParts DEF IsAliveEnd
<1>2. WatcherPart'
    BY DEF IsAliveEnd, IInv, TypeOK, WatcherPart, WatcherBound, WatcherChansMade, trackerVars
<1>3. QED
    BY <1>1, <1>2

LEMMA WatcherCloseStep ==
    ASSUME IInv, NEW w \in Watchers, WatcherClose(w)
    PROVE  CorePart' /\ WatcherPart'
<1>1. CorePart'
    BY CoreFrame, IInvParts DEF WatcherClose
<1>2. WatcherPart'
    BY DEF WatcherClose, IInv, TypeOK, WatcherPart, WatcherBound, WatcherChansMade, trackerVars
<1>3. QED
    BY <1>1, <1>2

LEMMA ConnectionDoneStep ==
    ASSUME IInv, NEW w \in Watchers, ConnectionDone(w)
    PROVE  CorePart' /\ WatcherPart'
<1>1. CorePart'
    BY CoreFrame, IInvParts DEF ConnectionDone
<1>2. WatcherPart'
    BY DEF ConnectionDone, IInv, TypeOK, WatcherPart, WatcherBound, WatcherChansMade, trackerVars
<1>3. QED
    BY <1>1, <1>2

(* The steps of the operating system, of Close and of the dispatch loop   *)
(* before delivery leave the watchers and the registry's channels alone.  *)
LEMMA ProcessExitStep ==
    ASSUME IInv, NEW p \in Pids, ProcessExit(p)
    PROVE  CorePart' /\ WatcherPart'
<1>1. WatcherPart'
    BY WatcherFrame, IInvParts DEF ProcessExit, trackerVars
<1> USE DEF IInv, ProcessExit, trackerVars, dispatchVars
<1>2. RegistryInv'
    BY DEF RegistryInv
<1>3. SignalSound'
    BY DEF SignalSound, TypeOK, IncDead
<1>4. KqueueStages'
    BY DEF KqueueStages, TypeOK, IncDead
<1>5. CloseOrder'
    BY DEF CloseOrder
<1>6. (NoPanic /\ FreshChansOpen /\ ChanHistory /\ BatchOnlyInDeliver)'
    BY DEF NoPanic, FreshChansOpen, ChanHistory, BatchOnlyInDeliver
<1>7. QED
    BY <1>1, <1>2, <1>3, <1>4, <1>5, <1>6 DEF CorePart

LEMMA ProcessSpawnStep ==
    ASSUME IInv, NEW p \in Pids, ProcessSpawn(p)
    PROVE  CorePart' /\ WatcherPart'
<1>1. WatcherPart'
    BY WatcherFrame, IInvParts DEF ProcessSpawn, trackerVars
<1> USE DEF IInv, ProcessSpawn, trackerVars, dispatchVars
<1>2. RegistryInv'
    BY DEF RegistryInv
<1>3. SignalSound'
    BY DEF SignalSound, ChanHistory, TypeOK, IncDead, Chans
<1>4. KqueueStages'
    <2>1. p \notin knotes
        BY DEF KqueueStages
    <2>2. \A q \in pending \cup batch : chanInc[watched[q]] <= inc[q]
        BY DEF KqueueStages, RegistryInv, ChanHistory, TypeOK, NoChan, Chans
    <2>3. QED
        BY <2>1, <2>2 DEF KqueueStages, TypeOK, IncDead, Chans, NoChan
<1>5. ChanHistory'
    BY DEF ChanHistory, TypeOK, Chans
<1>6. (NoPanic /\ FreshChansOpen /\ CloseOrder /\ BatchOnlyInDeliver)'
    BY DEF NoPanic, FreshChansOpen, CloseOrder, BatchOnlyInDeliver
<1>7. QED
    BY <1>1, <1>2, <1>3, <1>4, <1>5, <1>6 DEF CorePart

LEMMA CloseBeginStep ==
    ASSUME IInv, CloseBegin
    PROVE  CorePart' /\ WatcherPart'
<1>1. WatcherPart'
    BY WatcherFrame, IInvParts DEF CloseBegin
<1>2. CorePart'
    BY DEF IInv, CloseBegin, osVars, dispatchVars, CorePart, RegistryInv, SignalSound, NoPanic, FreshChansOpen, ChanHistory, KqueueStages, BatchOnlyInDeliver, CloseOrder, IncDead
<1>3. QED
    BY <1>1, <1>2

LEMMA CloseEndStep ==
    ASSUME IInv, CloseEnd
    PROVE  CorePart' /\ WatcherPart'
<1>1. WatcherPart'
    BY WatcherFrame, IInvParts DEF CloseEnd
<1>2. CorePart'
    BY DEF IInv, CloseEnd, dispatchVars, CorePart, RegistryInv, SignalSound, NoPanic, FreshChansOpen, ChanHistory, KqueueStages, BatchOnlyInDeliver, CloseOrder, IncDead
<1>3. QED
    BY <1>1, <1>2

LEMMA DispatchReceiveStep ==
    ASSUME IInv, DispatchReceive
    PROVE  CorePart' /\ WatcherPart'
<1>1. WatcherPart'
    BY WatcherFrame, IInvParts DEF DispatchReceive, trackerVars
<1>2. PICK B \in SUBSET pending : batch' = B /\ pending' = pending \ B
    BY DEF DispatchReceive
<1>3. batch = {}
    BY DEF DispatchReceive, IInv, BatchOnlyInDeliver
<1>4. CorePart'
    BY <1>2, <1>3 DEF IInv, DispatchReceive, trackerVars, CorePart, RegistryInv, SignalSound, NoPanic, FreshChansOpen, ChanHistory, KqueueStages, BatchOnlyInDeliver, CloseOrder, IncDead
<1>5. QED
    BY <1>1, <1>4

LEMMA DispatchErrorStep ==
    ASSUME IInv, DispatchError
    PROVE  CorePart' /\ WatcherPart'
<1>1. WatcherPart'
    BY WatcherFrame, IInvParts DEF DispatchError, trackerVars
<1>2. NoPanic'
    BY DEF IInv, DispatchError, KeventErrors, CloseOrder, NoPanic
<1>3. CorePart'
    BY <1>2 DEF IInv, DispatchError, osVars, trackerVars, CorePart, RegistryInv, SignalSound, NoPanic, FreshChansOpen, ChanHistory, KqueueStages, BatchOnlyInDeliver, CloseOrder, IncDead
<1>4. QED
    BY <1>1, <1>3

(* NewWatcher's registration: the fresh channel nextChan is unclosed and *)
(* differs from every entry, and the PID had no knote or queued event.    *)
LEMMA RegisterStep ==
    ASSUME IInv, NEW w \in Watchers, NEW p \in Pids, wpid[w] = p,
           NewWatcherRegister(w, p),
           UNCHANGED <<dispatchVars, wpid, winc, wclosed, walive, wres>>
    PROVE  CorePart' /\ WatcherPart'
<1> DEFINE n == nextChan
<1>1. n \in Chans /\ ~chanClosed[n]
    BY DEF NewWatcherRegister, IInv, TypeOK, FreshChansOpen, Chans
<1>2. \A q \in Pids : watched[q] # NoChan => watched[q] < n /\ watched[q] \in Chans
    BY DEF IInv, RegistryInv, TypeOK, NoChan, Chans
<1>3. p \notin knotes \cup pending \cup batch
    BY DEF NewWatcherRegister, IInv, KqueueStages
<1>4. /\ watched' = [watched EXCEPT ![p] = n]
      /\ chanPid' = [chanPid EXCEPT ![n] = p]
      /\ chanInc' = [chanInc EXCEPT ![n] = inc[p]]
      /\ nextChan' = n + 1
      /\ kqOpen /\ kqOpen' = kqOpen
      /\ knotes' = IF alive[p] THEN knotes \cup {p} ELSE knotes
      /\ pending' = IF alive[p] THEN pending ELSE pending \cup {p}
      /\ UNCHANGED <<alive, inc, ctxDone, trackerPc, chanClosed, dpc, batch>>
    BY DEF NewWatcherRegister, AddKeventForWatcher, dispatchVars
<1>5. /\ wpc' = [wpc EXCEPT ![w] = "open"]
      /\ wchan' = [wchan EXCEPT ![w] = n]
    BY DEF NewWatcherRegister
<1> USE <1>1, <1>2, <1>4
<1>6. RegistryInv'
    BY <1>3 DEF IInv, RegistryInv, FreshChansOpen, TypeOK, NoChan, Chans
<1>7. SignalSound'
    BY DEF IInv, SignalSound, TypeOK, IncDead, Chans
<1>8. FreshChansOpen'
    BY DEF IInv, FreshChansOpen, TypeOK, Chans
<1>9. ChanHistory'
    BY DEF IInv, ChanHistory, TypeOK, Chans
<1>10. KqueueStages'
    <2>1. CASE alive[p]
        BY <1>3, <2>1 DEF IInv, KqueueStages, TypeOK, IncDead, NoChan, Chans
    <2>2. CASE ~alive[p]
        BY <1>3, <2>2 DEF IInv, KqueueStages, TypeOK, IncDead, NoChan, Chans
    <2>3. QED
        BY <2>1, <2>2
<1>11. (NoPanic /\ BatchOnlyInDeliver /\ CloseOrder)'
    BY DEF IInv, NoPanic, BatchOnlyInDeliver, CloseOrder
<1>12. WatcherBound'
    <2> SUFFICES ASSUME NEW v \in Watchers, wpc'[v] = "open", ~wclosed'[v]
                 PROVE  /\ chanPid'[wchan'[v]] = wpid'[v]
                        /\ chanClosed'[wchan'[v]] \/ watched'[wpid'[v]] = wchan'[v]
        BY DEF WatcherBound
    <2>1. CASE v = w
        BY <1>5, <2>1 DEF IInv, TypeOK
    <2>2. CASE v # w
        <3>1. wpc[v] = "open" /\ ~wclosed[v] /\ wchan'[v] = wchan[v]
            BY <1>5, <2>2 DEF IInv, TypeOK
        <3>2. wchan[v] \in Chans /\ wchan[v] < n /\ wpid[v] \in Pids
            BY <3>1 DEF IInv, TypeOK, WatcherChansMade
        <3>3. chanPid[wchan[v]] = wpid[v]
              /\ (chanClosed[wchan[v]] \/ watched[wpid[v]] = wchan[v])
            BY <3>1 DEF IInv, WatcherBound
        <3>4. watched[wpid[v]] = wchan[v] => wpid[v] # p
            BY <3>2 DEF NewWatcherRegister, NoChan, Chans
        <3>5. QED
            BY <3>1, <3>2, <3>3, <3>4 DEF IInv, TypeOK, Chans
    <2>3. QED
        BY <2>1, <2>2
<1>13. WatcherChansMade'
    BY <1>5 DEF IInv, WatcherChansMade, TypeOK, Chans
<1>14. QED
    BY <1>6, <1>7, <1>8, <1>9, <1>10, <1>11, <1>12, <1>13 DEF CorePart, WatcherPart

LEMMA NewWatcherLockedStep ==
    ASSUME IInv, NEW w \in Watchers, NewWatcherLocked(w)
    PROVE  CorePart' /\ WatcherPart'
<1> DEFINE p == wpid[w]
<1>1. p \in Pids
    BY DEF NewWatcherLocked, IInv, TypeOK
<1>2. UNCHANGED <<dispatchVars, wpid, winc, wclosed, walive, wres>>
    BY DEF NewWatcherLocked
<1>3. CASE NewWatcherReuse(w, p)
    <2>1. CorePart'
        BY <1>2, <1>3, CoreFrame, IInvParts DEF NewWatcherReuse
    <2>2. /\ wpc' = [wpc EXCEPT ![w] = "open"]
          /\ wchan' = [wchan EXCEPT ![w] = watched[p]]
          /\ watched[p] # NoChan
          /\ UNCHANGED trackerVars
        BY <1>3 DEF NewWatcherReuse
    <2>3. watched[p] < nextChan /\ chanPid[watched[p]] = p
        BY <1>1, <2>2 DEF IInv, RegistryInv
    <2>4. WatcherPart'
        BY <1>1, <1>2, <2>2, <2>3 DEF IInv, TypeOK,
           WatcherPart, WatcherBound, WatcherChansMade, trackerVars
    <2>5. QED
        BY <2>1, <2>4
<1>4. CASE NewWatcherFail(w, p)
    <2>1. CorePart'
        BY <1>2, <1>4, CoreFrame, IInvParts DEF NewWatcherFail
    <2>2. WatcherPart'
        BY <1>2, <1>4 DEF NewWatcherFail, IInv, TypeOK,
           WatcherPart, WatcherBound, WatcherChansMade, trackerVars
    <2>3. QED
        BY <2>1, <2>2
<1>5. CASE NewWatcherRegister(w, p)
    BY <1>1, <1>2, <1>5, RegisterStep
<1>6. QED
    BY <1>3, <1>4, <1>5 DEF NewWatcherLocked

(* Delivery: the channels it closes are registry entries, distinct from every entry it keeps, by the      *)
(* injectivity of the registry; their processes have exited since every  *)
(* received event reports an exit.                                         *)
LEMMA DispatchDeliverStep ==
    ASSUME IInv, DispatchDeliver
    PROVE  CorePart' /\ WatcherPart'
<1> DEFINE hit == {p \in batch : watched[p] # NoChan}
           fired == {watched[p] : p \in hit}
<1>1. /\ chanClosed' = [c \in Chans |-> chanClosed[c] \/ c \in fired]
      /\ watched' = [p \in Pids |-> IF p \in hit THEN NoChan ELSE watched[p]]
      /\ batch' = {}
      /\ dpc' = "wait"
      /\ UNCHANGED <<osVars, ctxDone, trackerPc, nextChan, chanPid, chanInc, watcherVars>>
    BY DEF DispatchDeliver
<1>2. \A p \in Pids : watched[p] # NoChan /\ p \notin hit => p \notin batch
    OBVIOUS
<1>3. \A p \in Pids, q \in hit : watched[p] # NoChan /\ p \notin hit
                                    => watched[p] # watched[q]
    BY DEF IInv, RegistryInv, TypeOK
<1>4. \A c \in fired : c \in Chans /\ c < nextChan
                        /\ IncDead(chanPid[c], chanInc[c])
    BY DEF IInv, RegistryInv, KqueueStages, TypeOK, NoChan, Chans
<1> USE <1>1 DEF osVars, watcherVars
<1>5. RegistryInv'
    BY <1>2, <1>3 DEF IInv, RegistryInv, TypeOK, NoChan, Chans
<1>6. SignalSound'
    BY <1>4 DEF IInv, SignalSound, TypeOK, IncDead, Chans
<1>7. FreshChansOpen'
    <2> SUFFICES ASSUME NEW c \in Chans, c >= nextChan PROVE ~chanClosed'[c]
        BY DEF FreshChansOpen
    <2>1. c \notin fired
        <3>1. SUFFICES ASSUME c \in fired PROVE FALSE
            OBVIOUS
        <3>2. c < nextChan
            BY <1>4, <3>1
        <3>3. QED
            BY <3>2 DEF IInv, TypeOK, Chans
    <2>2. QED
        BY <2>1 DEF IInv, FreshChansOpen
<1>8. KqueueStages'
    BY DEF IInv, KqueueStages, TypeOK, IncDead, NoChan, Chans
<1>9. (NoPanic /\ ChanHistory /\ BatchOnlyInDeliver /\ CloseOrder)'
    BY DEF IInv, NoPanic, ChanHistory, BatchOnlyInDeliver, CloseOrder, IncDead
<1>10. WatcherBound'
    <2> SUFFICES ASSUME NEW v \in Watchers, wpc[v] = "open", ~wclosed[v]
                 PROVE  /\ chanPid[wchan[v]] = wpid[v]
                        /\ chanClosed'[wchan[v]] \/ watched'[wpid[v]] = wchan[v]
        BY DEF WatcherBound
    <2>1. wchan[v] \in Chans /\ wpid[v] \in Pids
        BY DEF IInv, TypeOK
    <2>2. chanPid[wchan[v]] = wpid[v]
          /\ (chanClosed[wchan[v]] \/ watched[wpid[v]] = wchan[v])
        BY DEF IInv, WatcherBound
    <2>3. QED
        BY <2>1, <2>2 DEF IInv, TypeOK
<1>11. WatcherChansMade'
    BY DEF IInv, WatcherChansMade
<1>12. QED
    BY <1>5, <1>6, <1>7, <1>8, <1>9, <1>10, <1>11 DEF CorePart, WatcherPart

(* IInv is inductive: every step of Next, and every stutter, keeps it.  *)
LEMMA IInvStep == IInv /\ [Next]_vars => IInv'
<1> SUFFICES ASSUME IInv, [Next]_vars PROVE IInv'
    OBVIOUS
<1>1. TypeOK'
    BY TypeStep DEF IInv
<1>2. CorePart' /\ WatcherPart'
    <2>1. ASSUME NEW p \in Pids, ProcessExit(p) \/ ProcessSpawn(p)
          PROVE  CorePart' /\ WatcherPart'
        BY <2>1, ProcessExitStep, ProcessSpawnStep
    <2>2. ASSUME NEW w \in Watchers, NEW p \in {0} \cup Pids, NewWatcherCheck(w, p)
          PROVE  CorePart' /\ WatcherPart'
        BY <2>2, CheckStep
    <2>3. ASSUME NEW w \in Watchers,
                 \/ NewWatcherLocked(w)
                 \/ IsAliveBegin(w) \/ IsAliveEnd(w)
                 \/ WatcherClose(w) \/ ConnectionDone(w)
          PROVE  CorePart' /\ WatcherPart'
        BY <2>3, NewWatcherLockedStep, IsAliveBeginStep, IsAliveEndStep,
           WatcherCloseStep, ConnectionDoneStep
    <2>4. CASE CloseBegin \/ CloseEnd
        BY <2>4, CloseBeginStep, CloseEndStep
    <2>5. CASE DispatchReceive \/ DispatchError \/ DispatchDeliver
        BY <2>5, DispatchReceiveStep, DispatchErrorStep, DispatchDeliverStep
    <2>6. CASE UNCHANGED vars
        <3>1. CorePart'
            BY <2>6, CoreFrame, IInvParts DEF vars
        <3>2. WatcherPart'
            BY <2>6, WatcherFrame, IInvParts DEF vars, trackerVars
        <3>3. QED
            BY <3>1, <3>2
    <2>7. QED
        BY <2>1, <2>2, <2>3, <2>4, <2>5, <2>6 DEF Next
<1>3. QED
    BY <1>1, <1>2 DEF IInv, CorePart, WatcherPart

-----------------------------------------------------------------------------
(* Safety theorems.                                                        *)

(* The strengthened invariant holds in every reachable state.             *)
THEOREM IInvInvariant == Spec => []IInv
BY InitIInv, IInvStep, PTL DEF Spec

(* The registry b.watchedPIDs that NewWatcher fills and receiveKevents    *)
(* reaps stays well formed for every number of PIDs, watchers and         *)
(* channels: each entry an unclosed channel of its own PID, never shared, *)
(* and, while the kqueue is open, always on its way to being reaped.      *)
THEOREM RegistryCorrect == Spec => []RegistryInv
<1>1. IInv => RegistryInv
    BY DEF IInv
<1>2. QED
    BY <1>1, IInvInvariant, PTL

(* receiveKevents closes a done channel only after the process its knote  *)
(* was armed on has exited, even when the PID has been reused since.      *)
THEOREM SignalSoundness == Spec => []SignalSound
<1>1. IInv => SignalSound
    BY DEF IInv
<1>2. QED
    BY <1>1, IInvInvariant, PTL

(* A watcher returned by NewWatcher and not closed stays bound to its     *)
(* PID's registry entry until that entry's channel is closed.             *)
THEOREM WatcherBinding == Spec => []WatcherBound
<1>1. IInv => WatcherBound
    BY DEF IInv
<1>2. QED
    BY <1>1, IInvInvariant, PTL

(* The dispatch goroutine receiveKevents never panics: neither on EBADF  *)
(* (Close cancels b.ctx before closing the fd) nor on a double close.    *)
THEOREM DispatchNeverPanics == Spec => []NoPanic
<1>1. IInv => NoPanic
    BY DEF IInv
<1>2. QED
    BY <1>1, IInvInvariant, PTL

=============================================================================
