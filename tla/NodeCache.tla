------------------------------ MODULE NodeCache ------------------------------
(***************************************************************************)
(* The attested-node cache of package nodecache                            *)
(* (src/pkg/common/witsvid/common.go, lines 16-108).                       *)
(*                                                                         *)
(* BuildFromDatastore snapshots the nodes valid at build time.             *)
(* RefreshAttestedNode reads one node from the datastore without the lock, *)
(* then stores it and time.Now() under the write lock.  The datastore is   *)
(* written by the rest of the server: each write of a node bumps its       *)
(* version.  A node as read is a snapshot [ver, state]; the datastore      *)
(* answers a deleted node with nil, which the cache stores like any other. *)
(***************************************************************************)
EXTENDS Naturals

CONSTANTS
    Ids,        \* agent SPIFFE IDs
    Refreshers, \* goroutines calling RefreshAttestedNode
    NoNode,     \* no map entry for the id
    MaxVer,     \* bound on datastore writes per node
    MaxTime     \* bound on the clock

VARIABLES
    ds,          \* ds[id]: the datastore's current snapshot of the node
    nodes,       \* c.nodes
    refreshTime, \* c.nodeRefreshTime (0 = no entry, read as buildTime)
    now,         \* time.Now()
    pc,          \* pc[r]: "idle", or "fetched" (waiting for c.mtx)
    rid,         \* rid[r]: the id refresher r is refreshing
    local,       \* local[r]: the node r read from the datastore
    readAt,      \* readAt[r]: the time of that read
    returned     \* returned[id]: the newest node a completed refresh of id returned

vars == <<ds, nodes, refreshTime, now, pc, rid, local, readAt, returned>>

States == {"valid", "expired", "deleted"}
Snapshots == [ver : 0..MaxVer, state : States]

(* The newer of two snapshots of a node (for the ghost returned).         *)
Newer(a, b) == IF a = NoNode \/ b.ver > a.ver THEN b ELSE a

(* BuildFromDatastore: buildTime is 0; ListAttestedNodes(ValidAt) lists    *)
(* only the nodes valid at build time.                                     *)
Init ==
    /\ ds \in [Ids -> [ver : {0}, state : States]]
    /\ nodes = [id \in Ids |-> IF ds[id].state = "valid" THEN ds[id] ELSE NoNode]
    /\ refreshTime = [id \in Ids |-> 0]
    /\ now = 0
    /\ pc = [r \in Refreshers |-> "idle"]
    /\ rid \in [Refreshers -> Ids]
    /\ local = [r \in Refreshers |-> NoNode]
    /\ readAt = [r \in Refreshers |-> 0]
    /\ returned = [id \in Ids |-> NoNode]

(* Another part of the server writes a node: re-attestation, expiry or    *)
(* deletion (not code of this package).                                    *)
DsWrite(id, st) ==
    /\ ds[id].ver < MaxVer
    /\ ds' = [ds EXCEPT ![id] = [ver |-> @.ver + 1, state |-> st]]
    /\ UNCHANGED <<nodes, refreshTime, now, pc, rid, local, readAt, returned>>

Tick ==
    /\ now < MaxTime
    /\ now' = now + 1
    /\ UNCHANGED <<ds, nodes, refreshTime, pc, rid, local, readAt, returned>>

(* RefreshAttestedNode up to c.mtx.Lock(): ds.FetchAttestedNode(id).       *)
RefreshFetch(r, id) ==
    /\ pc[r] = "idle"
    /\ pc' = [pc EXCEPT ![r] = "fetched"]
    /\ rid' = [rid EXCEPT ![r] = id]
    /\ local' = [local EXCEPT ![r] = ds[id]]
    /\ readAt' = [readAt EXCEPT ![r] = now]
    /\ UNCHANGED <<ds, nodes, refreshTime, now, returned>>

(* RefreshAttestedNode under c.mtx: store the node and time.Now().         *)
RefreshCommit(r) ==
    /\ pc[r] = "fetched"
    /\ nodes' = [nodes EXCEPT ![rid[r]] = local[r]]
    /\ refreshTime' = [refreshTime EXCEPT ![rid[r]] = now]
    /\ returned' = [returned EXCEPT ![rid[r]] = Newer(@, local[r])]
    /\ pc' = [pc EXCEPT ![r] = "idle"]
    /\ UNCHANGED <<ds, now, rid, local, readAt>>

(* FetchAttestedNode, under the read lock: the node (nil when absent or   *)
(* deleted) and its refresh time, buildTime when never refreshed, the     *)
(* zero time when absent.  It changes nothing.                             *)
FetchAttestedNode(id) ==
    IF nodes[id] = NoNode THEN <<NoNode, 0>> ELSE <<nodes[id], refreshTime[id]>>

Next ==
    \/ \E id \in Ids, st \in States : DsWrite(id, st)
    \/ Tick
    \/ \E r \in Refreshers, id \in Ids : RefreshFetch(r, id)
    \/ \E r \in Refreshers : RefreshCommit(r)

Spec == Init /\ [][Next]_vars

-----------------------------------------------------------------------------
(* A node's refresh time never goes back, whichever of two overlapping     *)
(* refreshes of it takes c.mtx last: callers read the time FetchAttested-  *)
(* Node returns as how fresh the node is.                                  *)
RefreshTimeMonotonic ==
    [][\A id \in Ids : refreshTime'[id] >= refreshTime[id]]_vars

(* TestBuildCache: once RefreshAttestedNode has returned a node and no     *)
(* other refresh of that id is in flight, FetchAttestedNode returns that   *)
(* node or a newer one.                                                    *)
FetchReflectsCompletedRefresh ==
    \A id \in Ids :
        /\ returned[id] # NoNode
        /\ ~\E r \in Refreshers : pc[r] = "fetched" /\ rid[r] = id
        => FetchAttestedNode(id)[1].ver >= returned[id].ver

=============================================================================
