----------------------- MODULE SnapshotChunkAssembler -----------------------
(***************************************************************************)
(* How a client puts the chunks of a snapshot together:                    *)
(* Common/Net/Snapshot/SnapshotChunkAssemblerCore.h, by which              *)
(* Client/Net/SnapshotChunkAssembler.cpp assembles bullets and effects,    *)
(* each kind and each room on its own; here is one of them.                *)
(*                                                                         *)
(* The chunks of all ticks may arrive in any order, repeatedly or never.   *)
(* What a chunk carries is named by its tick; NoTick stands for nothing.   *)
(***************************************************************************)
EXTENDS Integers, FiniteSets

CONSTANTS MaxTick, MaxChunkCount

ASSUME ChunkAssumption == MaxTick \in Nat /\ MaxChunkCount \in Nat \ {0}

NoTick == 0
ServerTick == 1 .. MaxTick
Index == 0 .. MaxChunkCount - 1

VARIABLES
    sent,        \* into how many chunks the server divided each tick
    assembly,    \* assemblyTable_[roomId]
    applied,     \* lastAppliedTickTable_[roomId]
    shown        \* what PushChunk returned last

chunkVars == <<sent, assembly, applied, shown>>

Nothing == [i \in Index |-> NoTick]

\* A chunk count of 0 stands for no entry in the table.
NoAssembly == [serverTick |-> NoTick, chunkCount |-> 0, receivedChunkCount |-> 0,
               chunkDataList |-> Nothing]

NothingShown == [serverTick |-> NoTick, chunkDataList |-> Nothing]

ChunkTypeOK ==
    /\ sent \in [ServerTick -> 1 .. MaxChunkCount]
    /\ assembly \in [serverTick : ServerTick \cup {NoTick},
                     chunkCount : 0 .. MaxChunkCount,
                     receivedChunkCount : 0 .. MaxChunkCount - 1,
                     chunkDataList : [Index -> ServerTick \cup {NoTick}]]
    /\ applied \in ServerTick \cup {NoTick}
    /\ shown \in [serverTick : ServerTick \cup {NoTick},
                  chunkDataList : [Index -> ServerTick \cup {NoTick}]]

\* BuildBulletSnapshotTasks sends as many chunks as the bullets of the tick need.
ChunkInit ==
    /\ sent \in [ServerTick -> 1 .. MaxChunkCount]
    /\ assembly = NoAssembly
    /\ applied = NoTick
    /\ shown = NothingShown

-----------------------------------------------------------------------------
HasAssembly(a) == a.chunkCount # 0

\* Mutant: the tick applied last is not refused.
IsOlderThanApplied(a, tick) == applied # NoTick /\ tick < applied

IsStale(a, tick) ==
    /\ applied # NoTick
    /\ \/ tick < applied
       \/ tick = applied /\ ~ HasAssembly(a)

\* A tick with another number of chunks starts anew even if it is older.
NeedsReset(a, tick) ==
    \/ ~ HasAssembly(a)
    \/ tick > a.serverTick
    \/ sent[tick] # a.chunkCount

\* Mutant: the count of the tick given up is kept.
StartKeepingCount(a, tick) ==
    [serverTick |-> tick, chunkCount |-> sent[tick],
     receivedChunkCount |-> a.receivedChunkCount, chunkDataList |-> Nothing]

Start(a, tick) ==
    [serverTick |-> tick, chunkCount |-> sent[tick],
     receivedChunkCount |-> 0, chunkDataList |-> Nothing]

Current(a, tick) == IF NeedsReset(a, tick) THEN Start(a, tick) ELSE a

IsOlderThanAssembly(a, tick) == ~ NeedsReset(a, tick) /\ tick < a.serverTick

\* receivedChunkFlagList; a chunk without data has been received as well.
IsReceived(a, i) == a.chunkDataList[i] # NoTick

WithChunk(a, tick, i) ==
    [serverTick |-> a.serverTick, chunkCount |-> a.chunkCount,
     receivedChunkCount |-> a.receivedChunkCount + 1,
     chunkDataList |-> [a.chunkDataList EXCEPT ![i] = tick]]

IsComplete(a) == a.receivedChunkCount >= a.chunkCount

Wait(a) == assembly' = a /\ UNCHANGED <<applied, shown>>

Complete(a) ==
    /\ shown' = [serverTick |-> a.serverTick, chunkDataList |-> a.chunkDataList]
    /\ applied' = a.serverTick
    /\ assembly' = NoAssembly

\* PushChunk, with the assembly that the clean-up of expired ones has left.
PushChunk(a, tick, i) ==
    LET current == Current(a, tick)
        next == WithChunk(current, tick, i)
    IN  IF IsStale(a, tick) \/ IsOlderThanAssembly(a, tick) THEN Wait(a)
        ELSE IF IsReceived(current, i) THEN Wait(current)
        ELSE IF IsComplete(next) THEN Complete(next)
        ELSE Wait(next)

\* CleanupExpiredAssemblies: an unfinished assembly may have expired.
AfterCleanup == {assembly, NoAssembly}

\* PushBulletSnapshotChunk and PushImpactEffectChunk.
Push(tick, i) ==
    /\ i < sent[tick]
    /\ \E a \in AfterCleanup : PushChunk(a, tick, i)
    /\ UNCHANGED sent

\* ResetRoom, when the client leaves the room, and Clear.
ResetRoom ==
    /\ assembly' = NoAssembly
    /\ applied' = NoTick
    /\ UNCHANGED <<sent, shown>>

ChunkNext == ResetRoom \/ \E tick \in ServerTick, i \in Index : Push(tick, i)

ChunkSpec == ChunkInit /\ [][ChunkNext]_chunkVars

-----------------------------------------------------------------------------
Stream == INSTANCE SnapshotStream WITH last <- applied

\* However its chunks arrive, a client sees whole snapshots only, and none from
\* before the last one until it leaves the room.
ImplementsStream == Stream!Spec

\* A snapshot is assembled a second time only while a newer tick, of another
\* number of chunks, is under way: its late chunk displaces the newer one.
AppliedAgainByOtherCount ==
    HasAssembly(assembly) /\ applied # NoTick /\ assembly.serverTick <= applied =>
        \E newer \in ServerTick : newer > applied /\ sent[newer] # assembly.chunkCount
=============================================================================
