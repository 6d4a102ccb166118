--------------------------- MODULE ViewerMailbox ----------------------------
(***************************************************************************)
(* viewer.offer of room.go with its lock: the publisher and the viewer's    *)
(* own handler offer frames while the writer receives from the channel at   *)
(* any moment, without the lock.  The offer drains the channel and puts the *)
(* new frame in two steps; outside they are one Offer of LatestSlot, which  *)
(* is how RelayRoom models them.                                            *)
(***************************************************************************)
EXTENDS Naturals

CONSTANTS Offerers  \* goroutines that offer

VARIABLES
    holder,     \* {} or the offerer that holds viewer.mu
    pc, update, \* where each offerer is, and the frame it offers
    newest,     \* viewer.newestGeneration
    updates,    \* the channel: 0, or the frame in its one place
    \* history
    put,        \* last frame put into the channel
    shadow,     \* what waits, as the consumer could tell
    taken       \* last frame the writer received

boxVars == <<holder, pc, update, newest, updates, put, shadow, taken>>

BoxTypeOK ==
    /\ holder \in {{}} \cup {{o} : o \in Offerers}
    /\ pc \in [Offerers -> {"idle", "waiting", "locked", "drained"}]
    /\ update \in [Offerers -> Nat]
    /\ {newest, updates, put, shadow, taken} \subseteq Nat

BoxInit ==
    /\ holder = {} /\ pc = [o \in Offerers |-> "idle"]
    /\ update = [o \in Offerers |-> 0]
    /\ newest = 0 /\ updates = 0 /\ put = 0 /\ shadow = 0 /\ taken = 0

Begin(o, g) ==
    /\ pc[o] = "idle"
    /\ pc' = [pc EXCEPT ![o] = "waiting"]
    /\ update' = [update EXCEPT ![o] = g]
    /\ UNCHANGED <<holder, newest, updates, put, shadow, taken>>

MutexFree == holder = {}

Lock(o) ==
    /\ pc[o] = "waiting" /\ MutexFree
    /\ holder' = {o}
    /\ pc' = [pc EXCEPT ![o] = "locked"]
    /\ UNCHANGED <<update, newest, updates, put, shadow, taken>>

IsNewer(o) == update[o] > newest

Reject(o) ==
    /\ pc[o] = "locked" /\ ~IsNewer(o)
    /\ holder' = {}
    /\ pc' = [pc EXCEPT ![o] = "idle"]
    /\ UNCHANGED <<update, newest, updates, put, shadow, taken>>

Raise(o) == newest' = update[o]

Drain(o) ==
    /\ pc[o] = "locked" /\ IsNewer(o)
    /\ Raise(o)
    /\ updates' = 0
    /\ pc' = [pc EXCEPT ![o] = "drained"]
    /\ UNCHANGED <<holder, update, put, shadow, taken>>

(* The send does not block: were the place taken, the frame would be lost.  *)
Put(o) ==
    /\ pc[o] = "drained"
    /\ IF updates = 0
       THEN updates' = update[o] /\ put' = update[o] /\ shadow' = update[o]
       ELSE UNCHANGED <<updates, put, shadow>>
    /\ holder' = {}
    /\ pc' = [pc EXCEPT ![o] = "idle"]
    /\ UNCHANGED <<update, newest, taken>>

(* The writer of the viewer. *)
Receive ==
    /\ updates # 0
    /\ taken' = updates
    /\ updates' = 0 /\ shadow' = 0
    /\ UNCHANGED <<holder, pc, update, newest, put>>

BoxNext ==
    \/ Receive
    \/ \E o \in Offerers :
        \/ \E g \in Nat \ {0} : Begin(o, g)
        \/ Lock(o) \/ Reject(o) \/ Drain(o) \/ Put(o)

BoxSpec == BoxInit /\ [][BoxNext]_boxVars
-----------------------------------------------------------------------------
(* The newest frame offered is never lost between two offerers and a writer *)
(* that receives between drain and put.                                     *)
NewestNotLost ==
    (\A o \in Offerers : pc[o] # "drained") =>
        newest \in {updates, taken}

(* The locked offer implements one atomic offer: proved, for any offerers *)
(* and frames, in RelaySessionsProofs.                                     *)
Slot == INSTANCE LatestSlot WITH accepted <- put, waiting <- shadow
SlotSpec == Slot!Spec
=============================================================================
