---------------------------- MODULE PeerTracker ----------------------------
(***************************************************************************)
(* The kqueue-based caller liveness tracker of the SPIRE agent            *)
(* (package peertracker, bsdTracker and bsdWatcher).                       *)
(*                                                                         *)
(* Actors:                                                                 *)
(*   - the operating system: processes exit and their PIDs are reused;     *)
(*     a kqueue holds one EVFILT_PROC/NOTE_EXIT one-shot knote per PID     *)
(*     and queues an event when the process it watches exits;             *)
(*   - the dispatch goroutine receiveKevents, which drains the kqueue and  *)
(*     closes the done channel of every exited PID under b.mtx;           *)
(*   - caller goroutines, one per watcher slot, which call NewWatcher,     *)
(*     IsAlive and Watcher.Close;                                          *)
(*   - the owner of the tracker, which calls Tracker.Close once.          *)
(*                                                                         *)
(* Every critical section under b.mtx is one atomic step, except Close,   *)
(* which holds b.mtx across two steps (cancel, then close the kqueue fd)  *)
(* because the dispatch goroutine reads ctx and the fd without the lock.  *)
(***************************************************************************)
EXTENDS Naturals, FiniteSets

CONSTANTS
    Pids,        \* the PIDs callers can present (0 is the invalid PID)
    Watchers,    \* caller goroutine slots, each holding at most one watcher
    MaxChans,    \* bound on the done channels the tracker ever makes
    MaxInc,      \* bound on how often one PID is reused by the OS
    ReceiveCap   \* size of the receive buffer of one kevent call (5)

ASSUME PidsAssumption == Pids \subseteq Nat \ {0}
ASSUME BoundsAssumption ==
    /\ MaxChans \in Nat
    /\ MaxInc \in Nat
    /\ ReceiveCap \in Nat \ {0}

NoChan == 0
Chans == 1..MaxChans

VARIABLES
    \* the operating system
    alive,       \* alive[p]: the current occupant of PID p is running
    inc,         \* inc[p]: which occupant (incarnation) of PID p is current
    kqOpen,      \* the kqueue file descriptor b.kqfd is open
    knotes,      \* PIDs with an armed NOTE_EXIT knote
    pending,     \* PIDs whose exit event is queued in the kqueue
    \* the tracker
    ctxDone,     \* b.ctx has been cancelled
    trackerPc,   \* "open", "closing" (Close holds b.mtx), "closed"
    watched,     \* b.watchedPIDs: watched[p] is the done channel or NoChan
    chanClosed,  \* chanClosed[c]: close(done) has run for channel c
    nextChan,    \* the next channel make(chan struct{}) returns
    chanPid,     \* ghost: the PID channel c was made for
    chanInc,     \* ghost: the incarnation its knote was armed on
    \* the dispatch goroutine
    dpc,         \* "wait", "deliver", "exited", "panicked"
    batch,       \* the PIDs of receive[:num] not yet handled
    \* caller goroutines
    wpc,         \* "idle", "newing", "open", "failed"
    wpid,        \* info.PID given to NewWatcher
    winc,        \* ghost: the incarnation of the caller behind wpid
    wlive,       \* ghost: that caller was running when NewWatcher returned
    wchan,       \* the watcher's done channel
    wclosed,     \* the watcher's closed flag
    walive,      \* "idle" or "sleeping" (inside IsAlive, after the check)
    wres         \* result of the last IsAlive

osVars == <<alive, inc, kqOpen, knotes, pending>>
trackerVars == <<ctxDone, trackerPc, watched, chanClosed, nextChan, chanPid, chanInc>>
dispatchVars == <<dpc, batch>>
watcherVars == <<wpc, wpid, winc, wlive, wchan, wclosed, walive, wres>>
vars == <<osVars, trackerVars, dispatchVars, watcherVars>>

(* The incarnation i of PID p has terminated.                              *)
IncDead(p, i) == inc[p] > i \/ ~alive[p]

-----------------------------------------------------------------------------
(* The operating system.                                                   *)

(* The current occupant of p exits; an armed one-shot knote fires.        *)
ProcessExit(p) ==
    /\ alive[p]
    /\ alive' = [alive EXCEPT ![p] = FALSE]
    /\ knotes' = knotes \ {p}
    /\ pending' = pending \cup (knotes \cap {p})
    /\ UNCHANGED <<inc, kqOpen, trackerVars, dispatchVars, watcherVars>>

(* The kernel hands the free PID p to a new process.                       *)
ProcessSpawn(p) ==
    /\ ~alive[p]
    /\ inc[p] < MaxInc
    /\ alive' = [alive EXCEPT ![p] = TRUE]
    /\ inc' = [inc EXCEPT ![p] = @ + 1]
    /\ UNCHANGED <<kqOpen, knotes, pending, trackerVars, dispatchVars, watcherVars>>

-----------------------------------------------------------------------------
(* The tracker.                                                            *)

(* addKeventForWatcher(pid) succeeding: EV_ADD of a one-shot NOTE_EXIT    *)
(* filter.  On a process that has exited but is not reaped yet the        *)
(* filter reports the exit at once.  Failing calls (EBADF on a closed fd, *)
(* ESRCH, ENOMEM) are the other disjunct of NewWatcherLocked.             *)
AddKeventForWatcher(p) ==
    /\ kqOpen
    /\ knotes' = IF alive[p] THEN knotes \cup {p} ELSE knotes
    /\ pending' = IF alive[p] THEN pending ELSE pending \cup {p}

(* NewWatcher up to b.mtx.Lock(): the PID == 0 and b.ctx.Err() checks.   *)
NewWatcherCheck(w, p) ==
    /\ wpc[w] = "idle"
    /\ IF p = 0 \/ ctxDone
         THEN /\ wpc' = [wpc EXCEPT ![w] = "failed"]
              /\ UNCHANGED <<wpid, winc>>
         ELSE /\ wpc' = [wpc EXCEPT ![w] = "newing"]
              /\ wpid' = [wpid EXCEPT ![w] = p]
              /\ winc' = [winc EXCEPT ![w] = inc[p]]
    /\ UNCHANGED <<osVars, trackerVars, dispatchVars, wlive, wchan, wclosed, walive, wres>>

(* The three outcomes of NewWatcher under b.mtx, for the PID p of w.      *)

(* Mutant: the reuse branch returns a watcher whose done is left nil.     *)
NewWatcherReuseNilChan(w, p) ==
    /\ watched[p] # NoChan
    /\ wpc' = [wpc EXCEPT ![w] = "open"]
    /\ wlive' = [wlive EXCEPT ![w] = ~IncDead(p, winc[w])]
    /\ UNCHANGED <<osVars, trackerVars, wchan>>

(* Mutant: no deduplication; a watched PID gets a new knote and its entry *)
(* is overwritten by a fresh channel.                                      *)
NewWatcherReuseNoDedup(w, p) ==
    /\ watched[p] # NoChan
    /\ nextChan <= MaxChans
    /\ AddKeventForWatcher(p)
    /\ watched' = [watched EXCEPT ![p] = nextChan]
    /\ chanPid' = [chanPid EXCEPT ![nextChan] = p]
    /\ chanInc' = [chanInc EXCEPT ![nextChan] = inc[p]]
    /\ nextChan' = nextChan + 1
    /\ wpc' = [wpc EXCEPT ![w] = "open"]
    /\ wchan' = [wchan EXCEPT ![w] = nextChan]
    /\ wlive' = [wlive EXCEPT ![w] = ~IncDead(p, winc[w])]
    /\ UNCHANGED <<alive, inc, kqOpen, ctxDone, trackerPc, chanClosed>>

(* done, ok := b.watchedPIDs[pid] found: share the PID's done channel.    *)
NewWatcherReuse(w, p) ==
    /\ watched[p] # NoChan
    /\ wpc' = [wpc EXCEPT ![w] = "open"]
    /\ wchan' = [wchan EXCEPT ![w] = watched[p]]
    /\ wlive' = [wlive EXCEPT ![w] = ~IncDead(p, winc[w])]
    /\ UNCHANGED <<osVars, trackerVars>>

(* Mutant: the error of addKeventForWatcher is ignored and the entry is   *)
(* stored and the watcher returned although no knote was armed.           *)
NewWatcherFailKeepEntry(w, p) ==
    /\ watched[p] = NoChan
    /\ nextChan <= MaxChans
    /\ watched' = [watched EXCEPT ![p] = nextChan]
    /\ chanPid' = [chanPid EXCEPT ![nextChan] = p]
    /\ chanInc' = [chanInc EXCEPT ![nextChan] = inc[p]]
    /\ nextChan' = nextChan + 1
    /\ wpc' = [wpc EXCEPT ![w] = "open"]
    /\ wchan' = [wchan EXCEPT ![w] = nextChan]
    /\ wlive' = [wlive EXCEPT ![w] = ~IncDead(p, winc[w])]
    /\ UNCHANGED <<osVars, ctxDone, trackerPc, chanClosed>>

(* Not found and addKeventForWatcher fails (EBADF, ESRCH, ENOMEM):        *)
(* "could not create watcher", nothing is stored.                         *)
NewWatcherFail(w, p) ==
    /\ watched[p] = NoChan
    /\ wpc' = [wpc EXCEPT ![w] = "failed"]
    /\ UNCHANGED <<osVars, trackerVars, wchan, wlive>>

(* Not found: arm the knote, make(chan struct{}) and store it.            *)
NewWatcherRegister(w, p) ==
    /\ watched[p] = NoChan
    /\ nextChan <= MaxChans
    /\ AddKeventForWatcher(p)
    /\ watched' = [watched EXCEPT ![p] = nextChan]
    /\ chanPid' = [chanPid EXCEPT ![nextChan] = p]
    /\ chanInc' = [chanInc EXCEPT ![nextChan] = inc[p]]
    /\ nextChan' = nextChan + 1
    /\ wpc' = [wpc EXCEPT ![w] = "open"]
    /\ wchan' = [wchan EXCEPT ![w] = nextChan]
    /\ wlive' = [wlive EXCEPT ![w] = ~IncDead(p, winc[w])]
    /\ UNCHANGED <<alive, inc, kqOpen, ctxDone, trackerPc, chanClosed>>

(* NewWatcher from b.mtx.Lock() on: one of the three outcomes.           *)
NewWatcherLocked(w) ==
    /\ wpc[w] = "newing"
    /\ trackerPc # "closing"
    /\ \/ NewWatcherReuse(w, wpid[w])
       \/ NewWatcherFail(w, wpid[w])
       \/ NewWatcherRegister(w, wpid[w])
    /\ UNCHANGED <<dispatchVars, wpid, winc, wclosed, walive, wres>>

(* Mutant: Close closes the kqueue fd before it cancels b.ctx.            *)
CloseBeginFdFirst ==
    /\ trackerPc = "open"
    /\ trackerPc' = "closing"
    /\ kqOpen' = FALSE
    /\ knotes' = {}
    /\ pending' = {}
    /\ UNCHANGED <<alive, inc, ctxDone, watched, chanClosed, nextChan, chanPid,
                   chanInc, dispatchVars, watcherVars>>

(* Tracker.Close, first step: lock b.mtx and cancel b.ctx.                 *)
CloseBegin ==
    /\ trackerPc = "open"
    /\ trackerPc' = "closing"
    /\ ctxDone' = TRUE
    /\ UNCHANGED <<osVars, watched, chanClosed, nextChan, chanPid, chanInc,
                   dispatchVars, watcherVars>>

(* Tracker.Close, second step: close the kqueue fd, which drops its       *)
(* knotes and queued events, and unlock b.mtx.                             *)
CloseEnd ==
    /\ trackerPc = "closing"
    /\ trackerPc' = "closed"
    /\ kqOpen' = FALSE
    /\ knotes' = {}
    /\ pending' = {}
    /\ UNCHANGED <<alive, inc, ctxDone, watched, chanClosed, nextChan, chanPid,
                   chanInc, dispatchVars, watcherVars>>

-----------------------------------------------------------------------------
(* The dispatch goroutine receiveKevents.                                  *)

(* Mutant: only receive[:num-1] is handled, the last event is lost.      *)
DispatchReceiveDropLast ==
    /\ dpc = "wait"
    /\ kqOpen
    /\ pending # {}
    /\ \E B \in SUBSET pending :
          /\ Cardinality(B) = IF ReceiveCap < Cardinality(pending)
                                THEN ReceiveCap ELSE Cardinality(pending)
          /\ \E last \in B : batch' = B \ {last}
          /\ pending' = pending \ B
    /\ dpc' = "deliver"
    /\ UNCHANGED <<alive, inc, kqOpen, knotes, trackerVars, watcherVars>>

(* unix.Kevent returns num = min(ReceiveCap, queued) events.               *)
DispatchReceive ==
    /\ dpc = "wait"
    /\ kqOpen
    /\ pending # {}
    /\ \E B \in SUBSET pending :
          /\ Cardinality(B) = IF ReceiveCap < Cardinality(pending)
                                THEN ReceiveCap ELSE Cardinality(pending)
          /\ batch' = B
          /\ pending' = pending \ B
    /\ dpc' = "deliver"
    /\ UNCHANGED <<alive, inc, kqOpen, knotes, trackerVars, watcherVars>>

(* Errors unix.Kevent can return here: EINTR at any time, EBADF once the  *)
(* fd is closed.                                                           *)
KeventErrors == {"EINTR"} \cup (IF kqOpen THEN {} ELSE {"EBADF"})

(* Mutant: the loop retries when it finds b.ctx cancelled instead of     *)
(* returning.                                                              *)
DispatchErrorContinueOnShutdown ==
    /\ dpc = "wait"
    /\ \E e \in KeventErrors :
          dpc' = IF ctxDone \/ e = "EINTR" THEN "wait" ELSE "panicked"
    /\ UNCHANGED <<osVars, trackerVars, batch, watcherVars>>

(* unix.Kevent fails: return if b.ctx is cancelled, retry on EINTR,       *)
(* panic otherwise.                                                        *)
DispatchError ==
    /\ dpc = "wait"
    /\ \E e \in KeventErrors :
          dpc' = IF ctxDone THEN "exited"
                 ELSE IF e = "EINTR" THEN "wait"
                 ELSE "panicked"
    /\ UNCHANGED <<osVars, trackerVars, batch, watcherVars>>

(* Under b.mtx: for each received PID with an entry, close(done) and      *)
(* delete the entry.  Closing a closed channel would panic in Go; that    *)
(* no entry's channel is closed is RegistryInv.                           *)
DispatchDeliver ==
    LET hit == {p \in batch : watched[p] # NoChan}
        fired == {watched[p] : p \in hit}
    IN
    /\ dpc = "deliver"
    /\ trackerPc # "closing"
    /\ chanClosed' = [c \in Chans |-> chanClosed[c] \/ c \in fired]
    /\ watched' = [p \in Pids |-> IF p \in hit THEN NoChan ELSE watched[p]]
    /\ batch' = {}
    /\ dpc' = "wait"
    /\ UNCHANGED <<osVars, ctxDone, trackerPc, nextChan, chanPid, chanInc, watcherVars>>

-----------------------------------------------------------------------------
(* The watchers.                                                           *)

(* IsAlive up to time.Sleep: a closed watcher answers at once.            *)
IsAliveBegin(w) ==
    /\ wpc[w] = "open"
    /\ walive[w] = "idle"
    /\ IF wclosed[w]
         THEN /\ wres' = [wres EXCEPT ![w] = "notwatched"]
              /\ UNCHANGED walive
         ELSE /\ walive' = [walive EXCEPT ![w] = "sleeping"]
              /\ wres' = [wres EXCEPT ![w] = "none"]
    /\ UNCHANGED <<osVars, trackerVars, dispatchVars, wpc, wpid, winc, wlive, wchan, wclosed>>

(* IsAlive after the safety delay: select on the done channel.            *)
IsAliveEnd(w) ==
    /\ walive[w] = "sleeping"
    /\ walive' = [walive EXCEPT ![w] = "idle"]
    /\ wres' = [wres EXCEPT ![w] = IF chanClosed[wchan[w]] THEN "exited" ELSE "ok"]
    /\ UNCHANGED <<osVars, trackerVars, dispatchVars, wpc, wpid, winc, wlive, wchan, wclosed>>

(* Mutant: Watcher.Close cleans up after itself: it closes the done      *)
(* channel and deletes the PID's registry entry.                          *)
WatcherCloseReaps(w) ==
    /\ wpc[w] = "open"
    /\ ~wclosed[w]
    /\ wclosed' = [wclosed EXCEPT ![w] = TRUE]
    /\ chanClosed' = [chanClosed EXCEPT ![wchan[w]] = TRUE]
    /\ watched' = [watched EXCEPT ![wpid[w]] =
                        IF @ = wchan[w] THEN NoChan ELSE @]
    /\ UNCHANGED <<osVars, ctxDone, trackerPc, nextChan, chanPid, chanInc,
                   dispatchVars, wpc, wpid, winc, wlive, wchan, walive, wres>>

(* Watcher.Close: set the closed flag; the registry is left alone.        *)
WatcherClose(w) ==
    /\ wpc[w] = "open"
    /\ ~wclosed[w]
    /\ wclosed' = [wclosed EXCEPT ![w] = TRUE]
    /\ UNCHANGED <<osVars, trackerVars, dispatchVars, wpc, wpid, winc, wlive, wchan, walive, wres>>

(* The caller goroutine is done with its connection and takes a new one.  *)
ConnectionDone(w) ==
    /\ \/ wpc[w] = "failed"
       \/ wpc[w] = "open" /\ wclosed[w] /\ walive[w] = "idle"
    /\ wpc' = [wpc EXCEPT ![w] = "idle"]
    /\ wpid' = [wpid EXCEPT ![w] = 0]
    /\ winc' = [winc EXCEPT ![w] = 0]
    /\ wlive' = [wlive EXCEPT ![w] = FALSE]
    /\ wchan' = [wchan EXCEPT ![w] = NoChan]
    /\ wclosed' = [wclosed EXCEPT ![w] = FALSE]
    /\ wres' = [wres EXCEPT ![w] = "none"]
    /\ UNCHANGED <<osVars, trackerVars, dispatchVars, walive>>

-----------------------------------------------------------------------------

(* newTracker: the kqueue was created and the dispatch goroutine started. *)
Init ==
    /\ alive = [p \in Pids |-> TRUE]
    /\ inc = [p \in Pids |-> 0]
    /\ kqOpen = TRUE
    /\ knotes = {}
    /\ pending = {}
    /\ ctxDone = FALSE
    /\ trackerPc = "open"
    /\ watched = [p \in Pids |-> NoChan]
    /\ chanClosed = [c \in Chans |-> FALSE]
    /\ nextChan = 1
    /\ chanPid = [c \in Chans |-> 0]
    /\ chanInc = [c \in Chans |-> 0]
    /\ dpc = "wait"
    /\ batch = {}
    /\ wpc = [w \in Watchers |-> "idle"]
    /\ wpid = [w \in Watchers |-> 0]
    /\ winc = [w \in Watchers |-> 0]
    /\ wlive = [w \in Watchers |-> FALSE]
    /\ wchan = [w \in Watchers |-> NoChan]
    /\ wclosed = [w \in Watchers |-> FALSE]
    /\ walive = [w \in Watchers |-> "idle"]
    /\ wres = [w \in Watchers |-> "none"]

Next ==
    \/ \E p \in Pids : ProcessExit(p) \/ ProcessSpawn(p)
    \/ \E w \in Watchers :
          \/ \E p \in {0} \cup Pids : NewWatcherCheck(w, p)
          \/ NewWatcherLocked(w)
          \/ IsAliveBegin(w)
          \/ IsAliveEnd(w)
          \/ WatcherClose(w)
          \/ ConnectionDone(w)
    \/ CloseBegin \/ CloseEnd
    \/ DispatchReceive \/ DispatchError \/ DispatchDeliver

(* The dispatch goroutine is always scheduled eventually, and Close runs  *)
(* to its end once begun.  A Kevent call on a closed fd returns (EBADF),   *)
(* so once the fd is closed the loop's wait ends in an error; EINTR alone *)
(* gets no fairness, no signal need ever arrive.                          *)
Fairness ==
    /\ WF_vars(DispatchReceive)
    /\ WF_vars(DispatchDeliver)
    /\ WF_vars(CloseEnd)
    /\ WF_vars(~kqOpen /\ DispatchError)

Spec == Init /\ [][Next]_vars
FairSpec == Spec /\ Fairness

-----------------------------------------------------------------------------
(* Properties.                                                             *)

(* Every variable has its type; a watcher past the PID check holds a     *)
(* valid PID, and an open watcher holds a real (non-nil) done channel, so *)
(* IsAlive's select never reads a nil channel.                            *)
TypeOK ==
    /\ alive \in [Pids -> BOOLEAN]
    /\ inc \in [Pids -> 0..MaxInc]
    /\ kqOpen \in BOOLEAN
    /\ knotes \subseteq Pids
    /\ pending \subseteq Pids
    /\ ctxDone \in BOOLEAN
    /\ trackerPc \in {"open", "closing", "closed"}
    /\ watched \in [Pids -> {NoChan} \cup Chans]
    /\ chanClosed \in [Chans -> BOOLEAN]
    /\ nextChan \in 1..(MaxChans + 1)
    /\ chanPid \in [Chans -> {0} \cup Pids]
    /\ chanInc \in [Chans -> 0..MaxInc]
    /\ dpc \in {"wait", "deliver", "exited", "panicked"}
    /\ batch \subseteq Pids
    /\ wpc \in [Watchers -> {"idle", "newing", "open", "failed"}]
    /\ wpid \in [Watchers -> {0} \cup Pids]
    /\ winc \in [Watchers -> 0..MaxInc]
    /\ wlive \in [Watchers -> BOOLEAN]
    /\ wchan \in [Watchers -> {NoChan} \cup Chans]
    /\ wclosed \in [Watchers -> BOOLEAN]
    /\ walive \in [Watchers -> {"idle", "sleeping"}]
    /\ wres \in [Watchers -> {"none", "ok", "exited", "notwatched"}]
    /\ \A w \in Watchers : wpc[w] \in {"newing", "open"} => wpid[w] \in Pids
    /\ \A w \in Watchers : wpc[w] = "open" => wchan[w] \in Chans

(* The registry b.watchedPIDs (NewWatcher, receiveKevents): an entry      *)
(* holds a channel made for that PID, not yet closed and not shared with  *)
(* another PID, and while the kqueue is open an entry is always on its    *)
(* way to being reaped: its knote is armed or its exit event is queued or *)
(* received.  An entry without one would never be reaped.                 *)
RegistryInv ==
    \A p \in Pids : watched[p] # NoChan =>
        /\ watched[p] < nextChan
        /\ chanPid[watched[p]] = p
        /\ ~chanClosed[watched[p]]
        /\ \A q \in Pids \ {p} : watched[q] # watched[p]
        /\ kqOpen => p \in knotes \cup pending \cup batch

(* The exit signal fires only after the process whose knote the channel   *)
(* was armed on has terminated (receiveKevents closes done only for a     *)
(* NOTE_EXIT of that knote, even when the PID has been reused since).     *)
SignalSound ==
    \A c \in Chans : c < nextChan /\ chanClosed[c] => IncDead(chanPid[c], chanInc[c])

(* A watcher handed out by NewWatcher, until it is closed, stays bound to *)
(* the registry: its done channel is either closed already or still the  *)
(* registry entry of its PID, so the exit the dispatch loop reaps for    *)
(* that PID reaches it.                                                   *)
WatcherBound ==
    \A w \in Watchers : wpc[w] = "open" /\ ~wclosed[w] =>
        /\ chanPid[wchan[w]] = wpid[w]
        /\ chanClosed[wchan[w]] \/ watched[wpid[w]] = wchan[w]

(* The dispatch goroutine never panics: Close cancels b.ctx before it     *)
(* closes the kqueue fd, so the EBADF that Kevent returns once the fd is  *)
(* closed is always taken for a shutdown.                                 *)
NoPanic == dpc # "panicked"

(* Liveness: once the process a registry entry was armed on has exited,   *)
(* the dispatch loop eventually reaps the entry (closing its channel),    *)
(* unless the tracker is closed first.                                    *)
ExitEventuallySignalled ==
    \A p \in Pids :
        (watched[p] # NoChan /\ IncDead(p, chanInc[watched[p]]))
            ~> (watched[p] = NoChan \/ ctxDone)

(* Spec section 8: Close while the dispatch loop is blocked in Kevent    *)
(* returns, and the loop then terminates without taking the fatal path.  *)
ShutdownCompletes == trackerPc = "closing" ~> dpc = "exited"

(* The refinement mapping to the abstract oracle: the signals armed so    *)
(* far are the channels NewWatcher has made, each armed for the PID and   *)
(* incarnation of its knote, and a signal has fired when receiveKevents   *)
(* has closed its channel.                                                 *)
Oracle == INSTANCE LivenessOracle WITH
    Signals <- Chans,
    sigOf <- [c \in {d \in Chans : d < nextChan} |->
                 [pid |-> chanPid[c], inc |-> chanInc[c]]],
    fired <- {c \in Chans : chanClosed[c]}

(* The tracker implements the oracle (spec sections 3 and 5): NewWatcher  *)
(* makes a new done channel for a PID only when every earlier channel of *)
(* that PID has been closed, so every watcher of the PID shares its one   *)
(* pending channel, and receiveKevents closes a channel once, only after  *)
(* the incarnation its knote was armed on has exited.                     *)
OracleSpec == Oracle!Spec

=============================================================================
