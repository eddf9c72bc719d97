--------------------------- MODULE SnapshotStream ---------------------------
(***************************************************************************)
(* What a client may expect of the snapshots of its room, of one kind:     *)
(* each is shown as the server had it, and until the room is reset none is *)
(* older than the one before.  Snapshots may be left out, and the last one *)
(* may be shown again.                                                     *)
(***************************************************************************)
EXTENDS Integers

CONSTANTS MaxTick, MaxChunkCount

NoTick == 0
Tick == 1 .. MaxTick
Index == 0 .. MaxChunkCount - 1

VARIABLES
    sent,       \* into how many chunks the server divided each tick
    last,       \* the tick shown last since the room was reset
    shown       \* the snapshot shown last

\* The chunks of a tick, each in its place.
Whole(tick) ==
    [serverTick |-> tick,
     chunkDataList |-> [i \in Index |-> IF i < sent[tick] THEN tick ELSE NoTick]]

Init ==
    /\ sent \in [Tick -> 1 .. MaxChunkCount]
    /\ last = NoTick
    /\ shown = [serverTick |-> NoTick, chunkDataList |-> [i \in Index |-> NoTick]]

Show(tick) ==
    /\ tick >= last
    /\ last' = tick
    /\ shown' = Whole(tick)
    /\ UNCHANGED sent

Reset == last' = NoTick /\ UNCHANGED <<sent, shown>>

Next == Reset \/ \E tick \in Tick : Show(tick)

Spec == Init /\ [][Next]_<<sent, last, shown>>
=============================================================================
