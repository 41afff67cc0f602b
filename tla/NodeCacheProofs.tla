-------------------------- MODULE NodeCacheProofs --------------------------
(***************************************************************************)
(* TLAPS proof that a node's refresh time in the node cache never goes     *)
(* back, for any IDs, refresh goroutines and bounds.                       *)
(*                                                                         *)
(* The action property is not a consequence of RefreshCommit alone: the   *)
(* commit overwrites c.nodeRefreshTime[id] whatever it held.  It holds     *)
(* because the value written is time.Now() at the commit, and every       *)
(* refresh time stored so far was an earlier reading of the same clock.   *)
(* That is the invariant Stamped.                                          *)
(***************************************************************************)
EXTENDS NodeCache, TLAPS

(* Every stored refresh time is a past reading of the clock.              *)
Stamped ==
    /\ now \in Nat
    /\ refreshTime \in [Ids -> Nat]
    /\ rid \in [Refreshers -> Ids]
    /\ \A id \in Ids : refreshTime[id] <= now

(* The step the action property allows.                                   *)
NoStampBack == \A id \in Ids : refreshTime'[id] >= refreshTime[id]

LEMMA InitStamped == Init => Stamped
BY DEF Init, Stamped

LEMMA StampedStep == Stamped /\ [Next]_vars => Stamped'
<1> SUFFICES ASSUME Stamped, [Next]_vars PROVE Stamped'
    OBVIOUS
<1>1. ASSUME NEW id \in Ids, NEW st \in States, DsWrite(id, st) PROVE Stamped'
    BY <1>1 DEF DsWrite, Stamped
<1>2. CASE Tick
    BY <1>2 DEF Tick, Stamped
<1>3. ASSUME NEW r \in Refreshers, NEW id \in Ids, RefreshFetch(r, id)
      PROVE  Stamped'
    BY <1>3 DEF RefreshFetch, Stamped
<1>4. ASSUME NEW r \in Refreshers, RefreshCommit(r) PROVE Stamped'
    <2>1. rid[r] \in Ids
        BY DEF Stamped
    <2>2. refreshTime' = [refreshTime EXCEPT ![rid[r]] = now] /\ now' = now /\ rid' = rid
        BY <1>4 DEF RefreshCommit
    <2>3. QED
        BY <2>1, <2>2 DEF Stamped
<1>5. CASE UNCHANGED vars
    BY <1>5 DEF vars, Stamped
<1>6. QED
    BY <1>1, <1>2, <1>3, <1>4, <1>5 DEF Next

LEMMA StampedNoStampBack == Stamped /\ [Next]_vars => [NoStampBack]_vars
<1> SUFFICES ASSUME Stamped, [Next]_vars PROVE NoStampBack
    OBVIOUS
<1>1. ASSUME NEW r \in Refreshers, RefreshCommit(r) PROVE NoStampBack
    <2>1. rid[r] \in Ids
        BY DEF Stamped
    <2>2. refreshTime' = [refreshTime EXCEPT ![rid[r]] = now]
        BY <1>1 DEF RefreshCommit
    <2>3. QED
        BY <2>1, <2>2 DEF Stamped, NoStampBack
<1>2. CASE ~\E r \in Refreshers : RefreshCommit(r)
    <2>1. refreshTime' = refreshTime
        BY <1>2 DEF Next, DsWrite, Tick, RefreshFetch, vars
    <2>2. QED
        BY <2>1 DEF Stamped, NoStampBack
<1>3. QED
    BY <1>1, <1>2

(* RefreshAttestedNode's commit never moves a node's refresh time back,   *)
(* whichever of two overlapping refreshes of it takes c.mtx last: the     *)
(* time it stores is read under the lock, after every time stored before. *)
THEOREM RefreshTimeNeverGoesBack == Spec => RefreshTimeMonotonic
<1>1. Spec => []Stamped
    BY InitStamped, StampedStep, PTL DEF Spec
<1>2. QED
    BY <1>1, StampedStep, StampedNoStampBack, PTL DEF Spec, RefreshTimeMonotonic, NoStampBack

=============================================================================
