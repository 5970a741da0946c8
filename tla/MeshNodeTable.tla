--------------------------- MODULE MeshNodeTable ---------------------------
(***************************************************************************)
(* The neighbour table of meshloralite.c: nodes[] and nodeCount, filled by *)
(* updateNode() for every accepted frame and emptied by pruneNodes(), which*)
(* loop() calls every PRUNE_MS.  The table is the sequence of its first    *)
(* nodeCount entries.                                                      *)
(*                                                                         *)
(* millis() is a uint32_t that wraps; time here is the true time since     *)
(* boot, and the code only ever sees it modulo ClockMod.                   *)
(* A text too long for pend[], which overwrites lastPrune too (see         *)
(* MeshLoRaLite), is not sent here.                                        *)
(***************************************************************************)
EXTENDS Integers, Sequences, SequencesExt

CONSTANTS
    Id,              \* the nodeIDs that are heard
    NodeTableSize,   \* NODE_TABLE_SIZE
    NodeTimeout,     \* NODE_TIMEOUT_MS
    PruneEvery,      \* the 5000 ms of loop()
    ClockMod,        \* number of values of millis()
    MaxTime          \* bound: true time of the run

\* The wrap of millis() is far longer than any age the table can reach.
ASSUME TableAssumption ==
    /\ NodeTableSize \in Nat \ {0} /\ NodeTimeout \in Nat /\ PruneEvery \in Nat
    /\ MaxTime \in Nat /\ ClockMod \in Nat
    /\ ClockMod > NodeTimeout + PruneEvery + 2

VARIABLES
    time,       \* true time
    nodes,      \* nodes[0 .. nodeCount - 1]
    lastPrune,  \* as stored, modulo ClockMod
    heard       \* heard[id]: history, true time of the last frame, or -1

vars == <<time, nodes, lastPrune, heard>>

millis == time % ClockMod

\* Subtraction of two uint32_t
Elapsed(since) == (millis - since) % ClockMod

Entry(id) == [id |-> id, lastSeen |-> millis]

Init ==
    /\ time = 0
    /\ nodes = << >>
    /\ lastPrune = 0
    /\ heard = [id \in Id |-> -1]

Listed == {nodes[k].id : k \in DOMAIN nodes}

\* Mutant: a frame from a listed node does not refresh its lastSeen.
updateNodeNoRefresh(tab, id) ==
    IF \E k \in DOMAIN tab : tab[k].id = id THEN tab
    ELSE IF Len(tab) < NodeTableSize THEN Append(tab, Entry(id)) ELSE tab

\* Mutant: known nodes are appended again.
updateNodeAppends(tab, id) ==
    IF Len(tab) < NodeTableSize THEN Append(tab, Entry(id)) ELSE tab

\* Mutant: the size of the table is not checked.
updateNodeNoLimit(tab, id) ==
    IF \E k \in DOMAIN tab : tab[k].id = id
      THEN [k \in DOMAIN tab |-> IF tab[k].id = id THEN Entry(id) ELSE tab[k]]
      ELSE Append(tab, Entry(id))

\* A listed node is refreshed in place, a new one appended if there is room.
updateNode(tab, id) ==
    IF \E k \in DOMAIN tab : tab[k].id = id
      THEN [k \in DOMAIN tab |-> IF tab[k].id = id THEN Entry(id) ELSE tab[k]]
      ELSE IF Len(tab) < NodeTableSize THEN Append(tab, Entry(id)) ELSE tab

\* nodes[k] = nodes[--nodeCount]
DropAt(tab, k) == Front([tab EXCEPT ![k] = Last(tab)])

\* Mutant: the loop walks upwards, so an entry moved into k is not looked at.
pruneNodesUpwards(tab) ==
    LET walk[k \in 0 .. Len(tab)] ==
            IF k = 0 THEN tab
            ELSE LET t == walk[k - 1]
                 IN  IF k <= Len(t) /\ Elapsed(t[k].lastSeen) > NodeTimeout
                       THEN DropAt(t, k) ELSE t
    IN  walk[Len(tab)]

\* The loop from the last entry down to the first.
pruneNodes(tab) ==
    LET walk[k \in 1 .. Len(tab) + 1] ==
            IF k = Len(tab) + 1 THEN tab
            ELSE LET t == walk[k + 1]
                 IN  IF Elapsed(t[k].lastSeen) > NodeTimeout
                       THEN DropAt(t, k) ELSE t
    IN  walk[1]

-----------------------------------------------------------------------------
\* An accepted frame of id.
Hear(id) ==
    /\ nodes' = updateNode(nodes, id)
    /\ heard' = [heard EXCEPT ![id] = time]
    /\ UNCHANGED <<time, lastPrune>>

PruneDue == Elapsed(lastPrune) > PruneEvery

\* loop(): if (millis() - lastPrune > 5000)
Prune ==
    /\ PruneDue
    /\ nodes' = pruneNodes(nodes)
    /\ lastPrune' = millis
    /\ UNCHANGED <<time, heard>>

\* CLI: nodes clear
NodesClear ==
    /\ nodes # << >>
    /\ nodes' = << >>
    /\ UNCHANGED <<time, lastPrune, heard>>

\* Time passes; loop() comes round before the next tick of this coarse clock.
Tick ==
    /\ time < MaxTime
    /\ ~ PruneDue
    /\ time' = time + 1
    /\ UNCHANGED <<nodes, lastPrune, heard>>

Next == (\E id \in Id : Hear(id)) \/ Prune \/ NodesClear \/ Tick

Spec == Init /\ [][Next]_vars

-----------------------------------------------------------------------------
(* Properties                                                              *)

\* Type correctness; the table stays within nodes[NODE_TABLE_SIZE].
TypeOK ==
    /\ time \in Nat /\ lastPrune \in 0 .. ClockMod - 1
    /\ nodes \in Seq([id : Id, lastSeen : 0 .. ClockMod - 1])
    /\ Len(nodes) <= NodeTableSize
    /\ heard \in [Id -> Int]

\* No node is listed twice, through refreshes, swaps with the last entry and
\* pruning.
NoDuplicates ==
    \A j, k \in DOMAIN nodes : nodes[j].id = nodes[k].id => j = k

\* A node that has been silent for NODE_TIMEOUT_MS is gone one prune period
\* later, also when millis() has wrapped meanwhile: "The table is
\* automatically cleared if no beacons are received for approximately 90
\* seconds."
NoStaleEntry ==
    \A id \in Listed : /\ heard[id] >= 0
                       /\ time - heard[id] <= NodeTimeout + PruneEvery + 1

\* pruneNodes() never removes a node heard within NODE_TIMEOUT_MS, whatever
\* else it removes and wherever the entry is moved to.
FreshSurvivesPrune ==
    [][lastPrune' # lastPrune =>
         \A id \in Listed : (time - heard[id] <= NodeTimeout) => id \in Listed']_vars
=============================================================================
