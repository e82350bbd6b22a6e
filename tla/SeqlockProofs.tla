----------------------------- MODULE SeqlockProofs -----------------------------
(***************************************************************************)
(* The seqlock of Sharemem.hpp, for any number of words and any even        *)
(* counter range: an accepted read is the latest complete write.            *)
(***************************************************************************)
EXTENDS Seqlock, TLAPS

(* The counter is odd exactly while a write is in progress. *)
Parity == ~died => seq % 2 = IF writer = "copy" THEN 1 ELSE 0

(* What the write has passed is of the latest version. *)
Content ==
    /\ writer = "idle" => toCopy = {}
    /\ ~died => \A w \in Words \ toCopy : data[w] = version

(* Less than once round, the counter is s1 advanced by moved. *)
Around ==
    reader = "copy" /\ moved < SeqMod =>
        seq = IF s1 + moved < SeqMod THEN s1 + moved ELSE s1 + moved - SeqMod

(* As long as the counter has not moved, what was read is current. *)
Clean ==
    reader = "copy" /\ moved = 0 /\ ~died =>
        /\ writer = "idle"
        /\ \A w \in Words \ toRead : buf[w] = version

IInv == TypeOK /\ Parity /\ Content /\ Around /\ Clean

(* Each block starts zeroed, nobody in it. *)
LEMMA InitIInv == Init => IInv
<1> SUFFICES ASSUME Init PROVE IInv
  OBVIOUS
<1>1. TypeOK
  <2>1. died \in BOOLEAN
    BY DEF Init
  <2>2. 0 \in 0..(SeqMod - 1) /\ 0 \in 0..MaxVersion
    BY SeqAssumption, VersionAssumption
  <2> QED BY <2>1, <2>2 DEF Init, TypeOK
<1>2. Parity /\ Content
  BY DEF Init, Parity, Content
<1>3. Around /\ Clean
  BY DEF Init, Around, Clean
<1> QED BY <1>1, <1>2, <1>3 DEF IInv

(* Every step of writer and reader keeps the types. *)
LEMMA TypeStep == TypeOK /\ [Next]_vars => TypeOK'
<1> SUFFICES ASSUME TypeOK, [Next]_vars PROVE TypeOK'
  OBVIOUS
<1> USE SeqAssumption, VersionAssumption
<1>1. CASE WriteBegin
  BY <1>1 DEF TypeOK, WriteBegin, Increment, read
<1>2. CASE WriteEnd
  BY <1>2 DEF TypeOK, WriteEnd, Increment, read
<1>3. CASE WriterDies
  BY <1>3 DEF TypeOK, WriterDies, read
<1>4. CASE ReadBegin \/ ReadRefused \/ ReadEnd
  BY <1>4 DEF TypeOK, ReadBegin, ReadRefused, ReadEnd, lock
<1>5. ASSUME NEW w \in Words, WriteWord(w) PROVE TypeOK'
  BY <1>5 DEF TypeOK, WriteWord, read
<1>6. ASSUME NEW w \in Words, ReadWord(w) PROVE TypeOK'
  BY <1>6 DEF TypeOK, ReadWord, lock
<1>7. CASE UNCHANGED vars
  BY <1>7 DEF TypeOK, vars, lock, read
<1> QED BY <1>1, <1>2, <1>3, <1>4, <1>5, <1>6, <1>7 DEF Next

(* One increment changes the parity, at the end of the range too. *)
LEMMA IncrementParity ==
    ASSUME seq \in 0..(SeqMod - 1), Increment
    PROVE  /\ seq % 2 = 0 => seq' % 2 = 1
           /\ seq % 2 = 1 => seq' % 2 = 0
  BY SeqAssumption DEF Increment

(* The counter and the content follow the writer. *)
LEMMA LockStep ==
    TypeOK /\ Parity /\ Content /\ [Next]_vars => Parity' /\ Content'
<1> SUFFICES ASSUME TypeOK, Parity, Content, [Next]_vars
             PROVE  Parity' /\ Content'
  OBVIOUS
<1>1. CASE WriteBegin
  BY <1>1, IncrementParity DEF TypeOK, Parity, Content, WriteBegin
<1>2. CASE WriteEnd
  BY <1>2, IncrementParity DEF TypeOK, Parity, Content, WriteEnd
<1>3. CASE WriterDies
  BY <1>3 DEF Parity, Content, WriterDies
<1>4. ASSUME NEW w \in Words, WriteWord(w) PROVE Parity' /\ Content'
  BY <1>4 DEF TypeOK, Parity, Content, WriteWord
<1>5. CASE UNCHANGED lock
  BY <1>5 DEF Parity, Content, lock
<1> QED
  BY <1>1, <1>2, <1>3, <1>4, <1>5
  DEF Next, ReadBegin, ReadRefused, ReadWord, ReadEnd, vars

(* One increment advances the counter by one along the circle. *)
LEMMA AroundIncrement ==
    ASSUME TypeOK, Around, Increment, UNCHANGED read
    PROVE  Around'
  BY SeqAssumption DEF TypeOK, Around, Increment, read

(* The distance to s1 and the words read follow the counter. *)
LEMMA ReadStep ==
    IInv /\ [Next]_vars => Around' /\ Clean'
<1> SUFFICES ASSUME IInv, [Next]_vars PROVE Around' /\ Clean'
  OBVIOUS
<1> USE DEF IInv
<1>1. CASE WriteBegin \/ WriteEnd
  <2>1. Around'
    BY <1>1, AroundIncrement DEF WriteBegin, WriteEnd
  <2>2. Clean'
    BY <1>1 DEF TypeOK, Clean, WriteBegin, WriteEnd, Increment, read
  <2> QED BY <2>1, <2>2
<1>2. CASE WriterDies
  BY <1>2 DEF Around, Clean, WriterDies, read
<1>3. ASSUME NEW w \in Words, WriteWord(w) PROVE Around' /\ Clean'
  BY <1>3 DEF Around, Clean, WriteWord, read
<1>4. CASE ReadBegin
  BY <1>4, SeqAssumption DEF TypeOK, Parity, Around, Clean, ReadBegin, lock
<1>5. ASSUME NEW w \in Words, ReadWord(w) PROVE Around' /\ Clean'
  BY <1>5 DEF TypeOK, Content, Around, Clean, ReadWord, lock
<1>6. CASE ReadRefused \/ ReadEnd
  BY <1>6 DEF Around, Clean, ReadRefused, ReadEnd
<1>7. CASE UNCHANGED vars
  BY <1>7 DEF Around, Clean, vars, lock, read
<1> QED BY <1>1, <1>2, <1>3, <1>4, <1>5, <1>6, <1>7 DEF Next

(* The invariant of counter, content and copies, in every reachable state.  *)
THEOREM SeqlockInvariant == Spec => []IInv
<1>1. IInv /\ [Next]_vars => IInv'
  BY TypeStep, LockStep, ReadStep DEF IInv
<1> QED BY <1>1, InitIInv, PTL DEF Spec

(* Counter, words and both processes keep their types (Sharemem.hpp). *)
THEOREM SeqlockTypes == Spec => []TypeOK
  BY SeqlockInvariant, PTL DEF IInv

(* What try_read_ctrl and try_read_fb return true for is the latest         *)
(* complete write, unless a writer died inside a write or the counter went  *)
(* round during the read.                                                   *)
THEOREM ReadsAreWhole == Spec => AcceptedIsLatest
<1>1. ASSUME IInv, [Next]_vars, reader = "copy", reader' = "accepted"
      PROVE  \/ died \/ moved >= SeqMod
             \/ writer = "idle" /\ \A w \in Words : buf[w] = version
  <2>1. ReadEnd
    BY <1>1 DEF Next, WriteBegin, WriteEnd, WriterDies, WriteWord, ReadBegin,
                ReadRefused, ReadWord, read, vars
  <2>2. seq = s1 /\ toRead = {}
    BY <1>1, <2>1 DEF ReadEnd
  <2>3. moved < SeqMod => moved = 0
    BY <1>1, <2>2, SeqAssumption DEF IInv, TypeOK, Around
  <2> QED BY <1>1, <2>2, <2>3, SeqAssumption DEF IInv, TypeOK, Clean
<1>2. IInv /\ [Next]_vars =>
        [reader = "copy" /\ reader' = "accepted" =>
            \/ died \/ moved >= SeqMod
            \/ writer = "idle" /\ \A w \in Words : buf[w] = version]_vars
  BY <1>1
<1> QED BY <1>2, SeqlockInvariant, PTL DEF Spec, AcceptedIsLatest
===============================================================================
