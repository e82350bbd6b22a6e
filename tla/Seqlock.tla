-------------------------------- MODULE Seqlock --------------------------------
(***************************************************************************)
(* One block of Control_Struct: a sequence counter and the data it guards,  *)
(* shared between the upper controller and SPARQ_CAN. ctrl and fb are two   *)
(* blocks of this kind with the roles exchanged. The fences order counter   *)
(* and data; within one memcpy the words may move in any order.             *)
(***************************************************************************)
EXTENDS Naturals

CONSTANTS
    Words,        \* what one load or store of the memcpy moves
    SeqMod,       \* 2^32, the values of std::atomic<uint32_t>
    MaxVersion,   \* bound: writes of one behaviour
    Faults        \* "writer": the writing process may die inside a write

ASSUME SeqAssumption == SeqMod \in Nat /\ SeqMod > 0 /\ SeqMod % 2 = 0

ASSUME VersionAssumption == MaxVersion \in Nat

VARIABLES
    seq,       \* the counter
    data,      \* per word, the number of the write that stored it
    writer,    \* "idle", or "copy" between the two fetch_add
    toCopy,    \* the words the memcpy of the write has still to store
    version,   \* the number of the latest write
    reader,    \* "idle", "copy" after the first load, "accepted"
    s1,        \* the reader's first load of seq
    toRead,    \* the words the memcpy of the read has still to load
    buf,       \* dst
    moved,     \* history: increments of seq since the reader's first load
    died       \* history: a writer died inside a write

lock == <<seq, data, writer, toCopy, version, died>>
read == <<reader, s1, toRead, buf>>
vars == <<lock, read, moved>>

Init ==
    /\ seq = 0 /\ data = [w \in Words |-> 0]
    /\ writer = "idle" /\ toCopy = {} /\ version = 0
    /\ reader = "idle" /\ s1 = 0 /\ toRead = {} /\ buf = [w \in Words |-> 0]
    /\ moved = 0 /\ died = FALSE

-------------------------------------------------------------------------------
(* write_ctrl, write_fb *)

(* fetch_add on an unsigned counter. *)
Increment ==
    /\ seq' = IF seq = SeqMod - 1 THEN 0 ELSE seq + 1
    /\ moved' = moved + 1

(* The counter becomes odd. *)
WriteBegin ==
    /\ writer = "idle" /\ version < MaxVersion
    /\ Increment
    /\ writer' = "copy" /\ toCopy' = Words
    /\ version' = version + 1
    /\ UNCHANGED <<data, died, read>>

(* memcpy into the block, between the two release fences. *)
WriteWord(w) ==
    /\ writer = "copy" /\ w \in toCopy
    /\ data' = [data EXCEPT ![w] = version]
    /\ toCopy' = toCopy \ {w}
    /\ UNCHANGED <<seq, writer, version, died, read, moved>>

(* The counter becomes even again. *)
WriteEnd ==
    /\ writer = "copy" /\ toCopy = {}
    /\ Increment
    /\ writer' = "idle"
    /\ UNCHANGED <<data, toCopy, version, died, read>>

(* The process is killed inside the write. The segment outlives it, since   *)
(* its refcount was not given back, and the next writer begins with the     *)
(* same fetch_add: from then on seq is even while a write is in progress.   *)
WriterDies ==
    /\ "writer" \in Faults /\ writer = "copy"
    /\ writer' = "idle" /\ toCopy' = {} /\ died' = TRUE
    /\ UNCHANGED <<seq, data, version, read, moved>>

-------------------------------------------------------------------------------
(* try_read_ctrl, try_read_fb *)

(* An odd counter returns false at once; the caller tries again. *)
ReadRefused ==
    /\ reader # "copy" /\ seq % 2 = 1
    /\ reader' = "idle"
    /\ UNCHANGED <<lock, s1, toRead, buf, moved>>

(* The acquire load. *)
ReadBegin ==
    /\ reader # "copy" /\ seq % 2 = 0
    /\ reader' = "copy" /\ s1' = seq /\ toRead' = Words
    /\ moved' = 0
    /\ UNCHANGED <<lock, buf>>

(* memcpy out of the block, before the acquire fence. *)
ReadWord(w) ==
    /\ reader = "copy" /\ w \in toRead
    /\ buf' = [buf EXCEPT ![w] = data[w]]
    /\ toRead' = toRead \ {w}
    /\ UNCHANGED <<lock, reader, s1, moved>>

(* Mutant: only the parity is tested again. *)
ReadEndParity ==
    /\ reader = "copy" /\ toRead = {}
    /\ reader' = IF seq % 2 = 0 THEN "accepted" ELSE "idle"
    /\ UNCHANGED <<lock, s1, toRead, buf, moved>>

(* The second load decides. *)
ReadEnd ==
    /\ reader = "copy" /\ toRead = {}
    /\ reader' = IF seq = s1 THEN "accepted" ELSE "idle"
    /\ UNCHANGED <<lock, s1, toRead, buf, moved>>

-------------------------------------------------------------------------------
Next ==
    \/ WriteBegin \/ WriteEnd \/ WriterDies \/ ReadBegin
    \/ ReadRefused \/ ReadEnd
    \/ \E w \in Words : WriteWord(w) \/ ReadWord(w)

Spec == Init /\ [][Next]_vars

-------------------------------------------------------------------------------
TypeOK ==
    /\ seq \in 0..(SeqMod - 1) /\ s1 \in 0..(SeqMod - 1)
    /\ data \in [Words -> 0..MaxVersion] /\ buf \in [Words -> 0..MaxVersion]
    /\ writer \in {"idle", "copy"} /\ reader \in {"idle", "copy", "accepted"}
    /\ toCopy \in SUBSET Words /\ toRead \in SUBSET Words
    /\ version \in 0..MaxVersion /\ moved \in Nat
    /\ died \in BOOLEAN

(* "Returns false if write in progress or torn read": what try_read returns *)
(* true for is the latest complete write, all of it. Two things void it: a  *)
(* writer that died inside a write, and a counter that went once round      *)
(* while the read lasted.                                                   *)
AcceptedIsLatest ==
    [][reader = "copy" /\ reader' = "accepted" =>
          \/ died \/ moved >= SeqMod
          \/ writer = "idle" /\ \A w \in Words : buf[w] = version]_vars
===============================================================================
