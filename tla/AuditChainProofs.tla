-------------------------- MODULE AuditChainProofs ---------------------------
(***************************************************************************)
(* Theorems about AuditChain, for every number of records and of crashes.  *)
(***************************************************************************)
EXTENDS AuditChain, SequenceTheorems, WellFoundedInduction, TLAPS

Size == Len(lines)

\* A running process has the key of the key file.  As long as there is no key, nothing has
\* been written; and every key but the last was lost in a crash.
KeyHeld ==
    /\ state \in {"tail", "up"} => keyfile \in Keys /\ key = keyfile
    /\ state = "generate" => key \in Keys /\ keyfile = Unreadable
    /\ keyfile \notin Keys =>
          /\ lines = <<>> /\ tail = Nothing
          /\ lastKey <= crashes + (IF state = "generate" THEN 1 ELSE 0)

\* The lock: one thread is inside append, in a process that runs, and it writes the record
\* after the ones the instance knows of.
LockHeld ==
    \A t \in Threads : pc[t] # "idle" =>
        /\ lock = t /\ state = "up"
        /\ rec[t] \in Records /\ rec[t].seq = seq + 1 /\ rec[t].key = keyfile
        /\ rec[t].seq <= made
        /\ pc[t] \in {"locked", "written"} => rec[t].prev = hash
        /\ pc[t] = "hashed" => rec[t].id = hash

\* No number is larger than the number of records made.
Numbered ==
    /\ seq <= made
    /\ \A i \in 1..Size : lines[i] \in Records => lines[i].seq <= made
    /\ tail \in Records => tail.seq <= made

\* The line is the record that has its place in the chain.
Linked(i) ==
    /\ lines[i] \in Records
    /\ lines[i].seq = i /\ lines[i].key = keyfile
    /\ lines[i].prev = IF i = 1 THEN NoHash ELSE lines[i - 1].id

\* The lines up to the first unreadable one are the chain.
ChainUpTo(n) ==
    /\ n \in 0..Size
    /\ \A i \in 1..n : Linked(i)
    /\ n < Size => lines[n + 1] = Unreadable

ReadableIsChain == \E n \in Nat : ChainUpTo(n)

\* Every line is readable, the unterminated one aside.
Whole == \A i \in 1..Size : lines[i] \in Records

LastId == IF Size = 0 THEN NoHash ELSE lines[Size].id

\* r is the record whose place is at the end of the file.
IsNext(r) == r.seq = Size + 1 /\ r.prev = LastId /\ r.key = keyfile

\* What a crash left unterminated, and what the memory of the instance is to the file.
MemoryIsTail ==
    Whole =>
        /\ tail \in Records =>
              /\ IsNext(tail)
              /\ state = "up" =>
                    /\ hash = tail.id /\ seq = Size + 1
                    /\ \A t \in Threads : pc[t] \in {"idle", "locked"}
        /\ tail = Nothing /\ state = "up" =>
              /\ \/ seq = Size /\ hash = LastId
                 \/ \E t \in Threads : pc[t] \in {"written", "hashed"}
              /\ \A t \in Threads : pc[t] \in {"written", "hashed"} =>
                    Size > 0 /\ lines[Size] = rec[t]

\* The record a head was read from is on disk.
Anchored(h) ==
    \/ \E i \in 1..Size : lines[i].id = h[2] /\ lines[i].seq >= h[1]
    \/ tail \in Records /\ tail.id = h[2] /\ tail.seq >= h[1]

MirrorFollows ==
    /\ mirror.pc = "reading" => state = "up" /\ mirror.seq # 0 /\ mirror.seq <= seq
    /\ Whole /\ tail # Unreadable => \A h \in mirrored : Anchored(h)

\* The inductive invariant.
Inv == TypeOK /\ KeyHeld /\ LockHeld /\ Numbered /\ ReadableIsChain /\ MemoryIsTail
         /\ MirrorFollows

----------------------------------------------------------------------------

USE ChainAssumption, NotRecords DEF Threads, NoHash

\* Steps that leave the file and its key alone leave the chain alone.
LEMMA ChainKept == ReadableIsChain /\ UNCHANGED <<lines, keyfile>> => ReadableIsChain'
  BY DEF ReadableIsChain, ChainUpTo, Linked, Size

LEMMA EmptyIsChain == lines' = <<>> => ReadableIsChain'
  <1> SUFFICES ASSUME lines' = <<>> PROVE ChainUpTo(0)'
    BY DEF ReadableIsChain
  <1>1. Size' = 0
    BY EmptySeq DEF Size
  <1> QED
    BY <1>1 DEF ChainUpTo

\* There is a key for every process start.
LEMMA NextKey ==
    ASSUME TypeOK, KeyHeld, state # "generate", keyfile \notin Keys
    PROVE  lastKey + 1 \in Keys
  BY DEF TypeOK, KeyHeld, Keys

LEMMA WholeIsChain ==
    ASSUME ReadableIsChain, Whole, lines \in Seq(Records \union {Unreadable})
    PROVE  \A i \in 1..Size : Linked(i)
  <1>1. Size \in Nat
    BY LenProperties DEF Size
  <1>2. PICK n \in Nat : ChainUpTo(n)
    BY DEF ReadableIsChain
  <1>3. n = Size
    BY <1>1, <1>2 DEF ChainUpTo, Whole
  <1> QED
    BY <1>2, <1>3 DEF ChainUpTo

Line == Records \union {Unreadable}

\* The file, terminated lines and the rest.
LEMMA AllLinesShape ==
    ASSUME TypeOK
    PROVE  /\ AllLines \in Seq(Line) /\ Size \in Nat
           /\ Len(AllLines) = IF tail = Nothing THEN Size ELSE Size + 1
           /\ \A i \in 1..Size : AllLines[i] = lines[i]
           /\ tail # Nothing => AllLines[Size + 1] = tail
           /\ AllLines = <<>> <=> Len(AllLines) = 0
  <1>1. lines \in Seq(Line) /\ tail \in Line \union {Nothing}
    BY DEF TypeOK, Line
  <1>2. CASE tail = Nothing
    BY <1>1, <1>2, LenProperties, EmptySeq DEF AllLines, Size
  <1>3. CASE tail # Nothing
    <2>1. tail \in Line
      BY <1>1, <1>3
    <2>2. /\ Append(lines, tail) \in Seq(Line)
          /\ Len(Append(lines, tail)) = Len(lines) + 1
          /\ \A i \in 1..Len(lines) : Append(lines, tail)[i] = lines[i]
          /\ Append(lines, tail)[Len(lines) + 1] = tail
          /\ Len(lines) \in Nat
      BY <1>1, <2>1, AppendProperties, LenProperties
    <2> QED
      BY <1>3, <2>2, EmptySeq DEF AllLines, Size
  <1> QED
    BY <1>2, <1>3

\* The line _load_chain_tail looks at.
LastLine == IF AllLines = <<>> THEN Unreadable ELSE AllLines[Len(AllLines)]

LEMMA LastLineShape ==
    ASSUME TypeOK
    PROVE  /\ tail # Nothing => LastLine = tail
           /\ tail = Nothing /\ Size > 0 => LastLine = lines[Size]
           /\ tail = Nothing /\ Size = 0 => LastLine = Unreadable
  BY AllLinesShape DEF LastLine

LEMMA LoadKeyKeepsInv == ASSUME Inv, LoadKey PROVE Inv'
  <1> USE DEF Inv, LoadKey, file, keys, memory, threads, mirroring
  <1>1. TypeOK'
    <2>1. CASE keyfile \in Keys
      BY <2>1 DEF TypeOK
    <2>2. CASE keyfile \notin Keys
      BY <2>2, NextKey DEF TypeOK
    <2> QED
      BY <2>1, <2>2
  <1>2. KeyHeld'
    BY DEF KeyHeld, TypeOK, Keys
  <1>3. LockHeld'
    BY DEF LockHeld, TypeOK
  <1>4. Numbered'
    BY DEF Numbered, Size, TypeOK
  <1>5. ReadableIsChain'
    <2>1. CASE keyfile \in Keys
      BY <2>1, ChainKept
    <2>2. CASE keyfile \notin Keys
      BY <2>2, EmptyIsChain DEF KeyHeld
    <2> QED
      BY <2>1, <2>2
  <1>6. MemoryIsTail'
    <2>1. tail \in Records => keyfile' = keyfile
      BY DEF KeyHeld
    <2> QED
      BY <2>1 DEF MemoryIsTail, Whole, IsNext, LastId, Size
  <1>7. MirrorFollows'
    BY DEF MirrorFollows, Whole, Anchored, Size, TypeOK
  <1> QED
    BY <1>1, <1>2, <1>3, <1>4, <1>5, <1>6, <1>7

LEMMA WriteKeyKeepsInv == ASSUME Inv, WriteKey PROVE Inv'
  <1> USE DEF Inv, WriteKey, file, keys, memory, threads, mirroring
  <1>1. TypeOK'
    BY DEF TypeOK, KeyHeld
  <1>2. KeyHeld'
    BY DEF KeyHeld, TypeOK, Keys
  <1>3. LockHeld'
    BY DEF LockHeld, TypeOK
  <1>4. Numbered'
    BY DEF Numbered, Size, TypeOK
  <1>5. ReadableIsChain'
    <2>1. lines' = <<>>
      BY DEF KeyHeld
    <2> QED
      BY <2>1, EmptyIsChain
  <1>6. MemoryIsTail'
    <2>1. tail \notin Records /\ tail' = tail
      BY DEF KeyHeld
    <2> QED
      BY <2>1 DEF MemoryIsTail
  <1>7. MirrorFollows'
    BY DEF MirrorFollows, Whole, Anchored, Size, TypeOK
  <1> QED
    BY <1>1, <1>2, <1>3, <1>4, <1>5, <1>6, <1>7

LEMMA LoadTailKeepsInv == ASSUME Inv, LoadTail PROVE Inv'
  <1> USE DEF Inv
  <1>1. /\ IF LastLine \in Records THEN seq' = LastLine.seq /\ hash' = LastLine.id
                                    ELSE seq' = 0 /\ hash' = NoHash
        /\ state = "tail" /\ state' = "up"
        /\ UNCHANGED <<file, keys, key, threads, mirroring, made, crashes>>
    BY DEF LoadTail, LastLine
  <1>2. LastLine \in Records => LastLine.seq \in Ids /\ LastLine.id \in Ids
    BY DEF Records
  <1> USE DEF file, keys, threads, mirroring
  <1>3. TypeOK'
    BY <1>1, <1>2 DEF TypeOK
  <1>4. KeyHeld'
    BY <1>1 DEF KeyHeld
  <1>5. \A t \in Threads : pc[t] = "idle"
    BY <1>1 DEF LockHeld, TypeOK
  <1>6. LockHeld'
    BY <1>1, <1>5 DEF LockHeld
  <1>7. Numbered'
    <2>1. LastLine \in Records => LastLine.seq <= made
      BY AllLinesShape, LastLineShape DEF Numbered
    <2>2. 0 <= made
      BY DEF TypeOK
    <2>3. seq' <= made
      BY <1>1, <2>1, <2>2
    <2> QED
      BY <1>1, <2>3 DEF Numbered, Size
  <1>8. ReadableIsChain'
    BY <1>1, ChainKept
  <1>9. MemoryIsTail'
    <2> SUFFICES ASSUME Whole
                 PROVE  /\ tail \in Records => IsNext(tail) /\ hash' = tail.id /\ seq' = Size + 1
                        /\ tail = Nothing => seq' = Size /\ hash' = LastId
      BY <1>1, <1>5 DEF MemoryIsTail, Whole, IsNext, LastId, Size
    <2>1. \A i \in 1..Size : Linked(i)
      BY WholeIsChain DEF TypeOK
    <2>2. CASE tail \in Records
      BY <1>1, <2>2, LastLineShape DEF MemoryIsTail, IsNext
    <2>3. CASE tail = Nothing /\ Size > 0
      BY <1>1, <2>1, <2>3, LastLineShape, AllLinesShape DEF Linked, LastId
    <2>4. CASE tail = Nothing /\ Size = 0
      BY <1>1, <2>4, LastLineShape DEF LastId
    <2> QED
      BY <2>2, <2>3, <2>4, AllLinesShape
  <1>10. MirrorFollows'
    BY <1>1 DEF MirrorFollows, Whole, Anchored, Size
  <1> QED
    BY <1>3, <1>4, <1>6, <1>7, <1>8, <1>9, <1>10

LEMMA BeginAppendKeepsInv == ASSUME Inv, NEW t \in Threads, BeginAppend(t) PROVE Inv'
  <1> USE DEF Inv
  <1> DEFINE r == [seq |-> seq + 1, prev |-> hash, id |-> made + 1, key |-> key]
  <1>1. /\ lock' = t /\ made' = made + 1 /\ made < MaxRecords
        /\ rec' = [rec EXCEPT ![t] = r] /\ pc' = [pc EXCEPT ![t] = "locked"]
        /\ state = "up" /\ lock = "free"
        /\ UNCHANGED <<file, keys, state, memory, mirroring, crashes>>
    BY DEF BeginAppend
  <1> USE DEF file, keys, memory, mirroring
  <1>2. made \in Nat /\ seq \in Nat /\ seq <= made /\ key \in Keys /\ key = keyfile
    BY <1>1 DEF TypeOK, Numbered, KeyHeld, Ids
  <1>3. /\ r \in Records /\ r.seq = seq + 1 /\ r.prev = hash /\ r.key = keyfile
        /\ r.seq <= made'
    <2>1. seq + 1 \in Ids /\ made + 1 \in Ids /\ hash \in Ids \union {NoHash}
      BY <1>1, <1>2 DEF TypeOK, Ids
    <2> QED
      BY <1>1, <1>2, <2>1 DEF Records
  <1> HIDE DEF r
  <1>4. \A u \in Threads : pc[u] = "idle"
    BY <1>1 DEF LockHeld
  <1>5. TypeOK'
    BY <1>1, <1>2, <1>3 DEF TypeOK
  <1>6. KeyHeld'
    BY <1>1 DEF KeyHeld
  <1>7. LockHeld'
    BY <1>1, <1>3, <1>4 DEF LockHeld, TypeOK
  <1>8. Numbered'
    <2>1. \A n \in Nat : n <= made => n <= made'
      BY <1>1, <1>2
    <2>2. \A q \in Records : q.seq \in Nat
      BY DEF Records, Ids
    <2> QED
      BY <1>1, <1>2, <2>1, <2>2 DEF Numbered, Size
  <1>9. ReadableIsChain'
    BY <1>1, ChainKept
  <1>10. MemoryIsTail'
    BY <1>1, <1>4 DEF MemoryIsTail, Whole, IsNext, LastId, Size, TypeOK
  <1>11. MirrorFollows'
    BY <1>1 DEF MirrorFollows, Whole, Anchored, Size
  <1> QED
    BY <1>5, <1>6, <1>7, <1>8, <1>9, <1>10, <1>11

LEMMA WriteRecordKeepsInv == ASSUME Inv, NEW t \in Threads, WriteRecord(t) PROVE Inv'
  <1> USE DEF Inv
  <1> DEFINE line == IF tail = Nothing THEN rec[t] ELSE Unreadable
  <1>1. /\ pc[t] = "locked" /\ pc' = [pc EXCEPT ![t] = "written"]
        /\ lines' = Append(lines, line) /\ tail' = Nothing
        /\ UNCHANGED <<keys, state, memory, lock, rec, mirroring, made, crashes>>
    BY DEF WriteRecord
  <1> USE DEF keys, memory, mirroring
  <1>2. /\ lock = t /\ state = "up" /\ keyfile \in Keys
        /\ rec[t] \in Records /\ rec[t].seq = seq + 1 /\ rec[t].key = keyfile
        /\ rec[t].prev = hash /\ rec[t].seq <= made
        /\ \A u \in Threads \ {t} : pc[u] = "idle"
    BY <1>1 DEF LockHeld, KeyHeld
  <1>3. /\ lines' \in Seq(Line) /\ Size \in Nat /\ Size' = Size + 1
        /\ \A i \in 1..Size : lines'[i] = lines[i]
        /\ lines'[Size + 1] = line /\ lines' # <<>>
    <2>1. lines \in Seq(Line) /\ line \in Line
      BY <1>2 DEF TypeOK, Line
    <2> HIDE DEF line
    <2> QED
      BY <1>1, <2>1, AppendProperties, LenProperties DEF Size
  <1> HIDE DEF line
  <1>4. Whole' => /\ Whole /\ tail = Nothing /\ line = rec[t] /\ seq = Size /\ hash = LastId
    <2> SUFFICES ASSUME Whole'
                 PROVE  Whole /\ tail = Nothing /\ line = rec[t] /\ seq = Size /\ hash = LastId
      OBVIOUS
    <2>1. \A i \in 1..(Size + 1) : lines'[i] \in Records
      BY <1>3 DEF Whole
    <2>2. Whole
      <3>1. \A i \in 1..Size : i \in 1..(Size + 1)
        BY <1>3
      <3> QED
        BY <1>3, <2>1, <3>1 DEF Whole
    <2>3. line \in Records
      BY <1>3, <2>1
    <2>4. tail = Nothing /\ line = rec[t]
      BY <2>3 DEF line
    <2> QED
      BY <1>1, <1>2, <2>2, <2>4 DEF MemoryIsTail
  <1>5. TypeOK'
    BY <1>1, <1>3 DEF TypeOK, Line
  <1>6. KeyHeld'
    BY <1>1, <1>2 DEF KeyHeld
  <1>7. LockHeld'
    BY <1>1, <1>2 DEF LockHeld, TypeOK
  <1>8. Numbered'
    <2>1. line \in Records => line.seq <= made
      BY <1>2 DEF line
    <2>2. \A i \in 1..(Size + 1) : i \in 1..Size \/ i = Size + 1
      BY <1>3
    <2>3. \A i \in 1..(Size + 1) : lines'[i] \in Records => lines'[i].seq <= made
      BY <1>3, <2>1, <2>2 DEF Numbered
    <2> QED
      BY <1>1, <1>3, <2>3 DEF Numbered
  <1>9. \A i \in 1..Size : Linked(i) => Linked(i)'
    <2> SUFFICES ASSUME NEW i \in 1..Size, Linked(i) PROVE Linked(i)'
      OBVIOUS
    <2>1. lines'[i] = lines[i] /\ (i # 1 => lines'[i - 1] = lines[i - 1])
      BY <1>3
    <2> QED
      BY <1>1, <2>1 DEF Linked
  <1>10. ReadableIsChain'
    <2>1. PICK n \in Nat : ChainUpTo(n)
      BY DEF ReadableIsChain
    <2>2. n \in 0..Size /\ n \in 0..(Size + 1) /\ \A i \in 1..n : i \in 1..Size
      BY <1>3, <2>1 DEF ChainUpTo
    <2>3. \A i \in 1..n : Linked(i)'
      BY <1>9, <2>1, <2>2 DEF ChainUpTo
    <2>4. CASE n = Size /\ tail = Nothing
      <3>1. Whole
        BY <2>1, <2>4 DEF Whole, ChainUpTo, Linked
      <3>2. lines'[Size + 1] = rec[t] /\ seq = Size /\ hash = LastId
        BY <1>1, <1>2, <1>3, <2>4, <3>1 DEF MemoryIsTail, line
      <3>3. Linked(n + 1)'
        <4>1. rec[t].prev = IF n + 1 = 1 THEN NoHash ELSE lines'[n].id
          BY <1>2, <1>3, <2>4, <3>2 DEF LastId
        <4>2. lines'[n + 1] = rec[t] /\ rec[t].seq = n + 1 /\ (n + 1) - 1 = n
          BY <1>2, <2>4, <3>2
        <4> QED
          BY <1>1, <1>2, <4>1, <4>2 DEF Linked
      <3>4. \A i \in 1..(Size + 1) : i \in 1..n \/ i = n + 1
        BY <1>3, <2>4
      <3>5. ChainUpTo(n + 1)'
        BY <1>3, <2>3, <2>4, <3>3, <3>4 DEF ChainUpTo
      <3> QED
        BY <3>5 DEF ReadableIsChain
    <2>5. CASE ~(n = Size /\ tail = Nothing)
      <3>1. lines'[n + 1] = Unreadable
        BY <1>3, <2>1, <2>2, <2>5 DEF ChainUpTo, line
      <3>2. ChainUpTo(n)'
        BY <1>3, <2>2, <2>3, <3>1 DEF ChainUpTo
      <3> QED
        BY <3>2 DEF ReadableIsChain
    <2> QED
      BY <2>4, <2>5
  <1>11. MemoryIsTail'
    BY <1>1, <1>2, <1>3, <1>4 DEF MemoryIsTail, TypeOK
  <1>12. MirrorFollows'
    <2>1. ASSUME Whole', NEW h \in mirrored PROVE Anchored(h)'
      <3>1. PICK i \in 1..Size : lines[i].id = h[2] /\ lines[i].seq >= h[1]
        BY <1>4, <2>1 DEF MirrorFollows, Anchored
      <3>2. i \in 1..(Size + 1) /\ lines'[i] = lines[i]
        BY <1>3
      <3> QED
        BY <1>3, <3>1, <3>2 DEF Anchored
    <2> QED
      BY <1>1, <2>1 DEF MirrorFollows
  <1> QED
    BY <1>5, <1>6, <1>7, <1>8, <1>10, <1>11, <1>12

LEMMA WriteFailsKeepsInv == ASSUME Inv, NEW t \in Threads, WriteFails(t) PROVE Inv'
  <1> USE DEF Inv, WriteFails, file, keys, memory, threads, mirroring
  <1>1. TypeOK'
    BY DEF TypeOK, Keys, Ids
  <1>2. KeyHeld'
    <2>1. keyfile \in Keys
      BY DEF KeyHeld, LockHeld
    <2> QED
      BY <2>1 DEF KeyHeld
  <1>3. LockHeld'
    BY DEF LockHeld, TypeOK
  <1>4. Numbered'
    BY DEF Numbered, Size, TypeOK
  <1>5. ReadableIsChain'
    BY ChainKept
  <1>6. MemoryIsTail'
    BY DEF MemoryIsTail, Whole, IsNext, LastId, Size, TypeOK
  <1>7. MirrorFollows'
    BY DEF MirrorFollows, Whole, Anchored, Size, TypeOK
  <1> QED
    BY <1>1, <1>2, <1>3, <1>4, <1>5, <1>6, <1>7

LEMMA SetHashKeepsInv == ASSUME Inv, NEW t \in Threads, SetHash(t) PROVE Inv'
  <1> USE DEF Inv, SetHash, file, keys, memory, threads, mirroring
  <1>1. TypeOK'
    <2>1. rec[t].id \in Ids
      BY DEF LockHeld, Records
    <2> QED
      BY <2>1 DEF TypeOK
  <1>2. KeyHeld'
    BY DEF KeyHeld, TypeOK, Keys
  <1>3. LockHeld'
    BY DEF LockHeld, TypeOK
  <1>4. Numbered'
    BY DEF Numbered, Size, TypeOK
  <1>5. ReadableIsChain'
    BY ChainKept
  <1>6. MemoryIsTail'
    BY DEF MemoryIsTail, Whole, IsNext, LastId, Size, TypeOK
  <1>7. MirrorFollows'
    BY DEF MirrorFollows, Whole, Anchored, Size, TypeOK
  <1> QED
    BY <1>1, <1>2, <1>3, <1>4, <1>5, <1>6, <1>7

LEMMA SetSeqKeepsInv == ASSUME Inv, NEW t \in Threads, SetSeq(t) PROVE Inv'
  <1> USE DEF Inv, SetSeq, file, keys, memory, threads, mirroring
  <1>1. TypeOK'
    <2>1. rec[t].seq \in Ids
      BY DEF LockHeld, Records
    <2> QED
      BY <2>1 DEF TypeOK
  <1>2. KeyHeld'
    BY DEF KeyHeld, TypeOK, Keys
  <1>3. LockHeld'
    BY DEF LockHeld, TypeOK
  <1>4. Numbered'
    <2>1. rec[t].seq <= made
      BY DEF LockHeld
    <2> QED
      BY <2>1 DEF Numbered, Size
  <1>5. ReadableIsChain'
    BY ChainKept
  <1>6. MemoryIsTail'
    <2> SUFFICES ASSUME Whole
                 PROVE  /\ tail \notin Records
                        /\ tail = Nothing => rec[t].seq = Size /\ hash = LastId
                        /\ \A u \in Threads : pc'[u] = "idle"
      BY DEF MemoryIsTail, Whole, IsNext, LastId, Size
    <2>1. state = "up" /\ lock = t /\ rec[t].id = hash
      BY DEF LockHeld
    <2>2. \A u \in Threads : pc'[u] = "idle"
      BY <2>1 DEF LockHeld, TypeOK
    <2>3. tail \notin Records
      BY <2>1 DEF MemoryIsTail
    <2>4. ASSUME tail = Nothing PROVE rec[t].seq = Size /\ hash = LastId
      <3>1. Size > 0 /\ lines[Size] = rec[t] /\ Size \in Nat
        BY <2>1, <2>4, AllLinesShape DEF MemoryIsTail
      <3>2. Linked(Size)
        BY <3>1, WholeIsChain DEF TypeOK
      <3> QED
        BY <2>1, <3>1, <3>2 DEF Linked, LastId
    <2> QED
      BY <2>2, <2>3, <2>4
  <1>7. MirrorFollows'
    <2>1. seq \in Nat /\ rec[t].seq = seq + 1
      BY DEF LockHeld, TypeOK, Ids
    <2>2. mirror.seq \in Nat /\ (mirror.seq <= seq => mirror.seq <= rec[t].seq)
      BY <2>1 DEF TypeOK, Ids
    <2> QED
      BY <2>2 DEF MirrorFollows, Whole, Anchored, Size
  <1> QED
    BY <1>1, <1>2, <1>3, <1>4, <1>5, <1>6, <1>7

LEMMA MirrorSeqKeepsInv == ASSUME Inv, MirrorSeq PROVE Inv'
  <1> USE DEF Inv, MirrorSeq, file, keys, memory, threads, mirroring
  <1>1. TypeOK'
    BY DEF TypeOK, Keys, Ids
  <1>2. KeyHeld'
    BY DEF KeyHeld, TypeOK, Keys
  <1>3. LockHeld'
    BY DEF LockHeld, TypeOK
  <1>4. Numbered'
    BY DEF Numbered, Size, TypeOK
  <1>5. ReadableIsChain'
    BY ChainKept
  <1>6. MemoryIsTail'
    BY DEF MemoryIsTail, Whole, IsNext, LastId, Size, TypeOK
  <1>7. MirrorFollows'
    <2>1. seq <= seq
      BY DEF TypeOK, Ids
    <2> QED
      BY <2>1 DEF MirrorFollows, Whole, Anchored, Size
  <1> QED
    BY <1>1, <1>2, <1>3, <1>4, <1>5, <1>6, <1>7

LEMMA MirrorHashKeepsInv == ASSUME Inv, MirrorHash PROVE Inv'
  <1> USE DEF Inv, MirrorHash, file, keys, memory, threads, mirroring
  <1>1. TypeOK'
    <2>1. mirror.seq \in Ids /\ hash \in Ids \union {NoHash} /\ 0 \in Ids \union {0}
      BY DEF TypeOK, MirrorFollows
    <2>2. mirrored' \subseteq Ids \X (Ids \union {NoHash})
      BY <2>1 DEF TypeOK
    <2>3. mirror' \in [pc : {"idle", "reading"}, seq : Ids \union {0}]
      BY <2>1
    <2> QED
      BY <2>2, <2>3 DEF TypeOK
  <1>2. KeyHeld'
    BY DEF KeyHeld, TypeOK, Keys
  <1>3. LockHeld'
    BY DEF LockHeld, TypeOK
  <1>4. Numbered'
    BY DEF Numbered, Size, TypeOK
  <1>5. ReadableIsChain'
    BY ChainKept
  <1>6. MemoryIsTail'
    BY DEF MemoryIsTail, Whole, IsNext, LastId, Size, TypeOK
  <1>7. MirrorFollows'
    <2>1. ASSUME Whole, tail # Unreadable PROVE Anchored(<<mirror.seq, hash>>)
      <3>1. state = "up" /\ mirror.seq # 0 /\ mirror.seq <= seq /\ mirror.seq \in Nat /\ seq \in Nat
        BY DEF MirrorFollows, TypeOK, Ids
      <3>2. Size \in Nat /\ \A i \in 1..Size : Linked(i)
        BY <2>1, WholeIsChain, AllLinesShape DEF TypeOK
      <3>3. CASE tail \in Records
        <4>1. tail.id = hash /\ tail.seq = seq
          BY <2>1, <3>1, <3>3 DEF MemoryIsTail, IsNext
        <4> QED
          BY <3>1, <3>3, <4>1 DEF Anchored
      <3>4. CASE tail = Nothing /\ seq = Size /\ hash = LastId
        <4>1. Size \in 1..Size /\ lines[Size].id = hash /\ lines[Size].seq >= mirror.seq
          BY <3>1, <3>2, <3>4 DEF Linked, LastId
        <4> QED
          BY <4>1 DEF Anchored
      <3>5. ASSUME tail = Nothing, NEW t \in Threads, pc[t] = "written" PROVE Anchored(<<mirror.seq, hash>>)
        <4>1. Size > 0 /\ lines[Size] = rec[t] /\ rec[t].prev = hash /\ rec[t].seq = seq + 1
          BY <2>1, <3>1, <3>5 DEF MemoryIsTail, LockHeld
        <4>2. rec[t].seq = Size /\ rec[t].prev = IF Size = 1 THEN NoHash ELSE lines[Size - 1].id
          BY <3>2, <4>1 DEF Linked
        <4>3. seq = Size - 1 /\ Size # 1
          BY <3>1, <3>2, <4>1, <4>2
        <4>4. Size - 1 \in 1..Size /\ lines[Size - 1].seq = Size - 1
          BY <3>2, <4>1, <4>3 DEF Linked
        <4>5. lines[Size - 1].id = hash /\ lines[Size - 1].seq >= mirror.seq
          BY <3>1, <4>1, <4>2, <4>3, <4>4
        <4> QED
          BY <4>4, <4>5 DEF Anchored
      <3>6. ASSUME tail = Nothing, NEW t \in Threads, pc[t] = "hashed" PROVE Anchored(<<mirror.seq, hash>>)
        <4>1. Size > 0 /\ lines[Size] = rec[t] /\ rec[t].id = hash /\ rec[t].seq = seq + 1
          BY <2>1, <3>1, <3>6 DEF MemoryIsTail, LockHeld
        <4>2. Size \in 1..Size /\ lines[Size].id = hash /\ lines[Size].seq >= mirror.seq
          BY <3>1, <3>2, <4>1
        <4> QED
          BY <4>2 DEF Anchored
      <3>7. tail \in Records \/ tail = Nothing
        BY <2>1 DEF TypeOK
      <3> QED
        BY <2>1, <3>1, <3>3, <3>4, <3>5, <3>6, <3>7 DEF MemoryIsTail
    <2>2. \A h : Anchored(h)' <=> Anchored(h)
      BY DEF Anchored, Size
    <2>3. Whole' <=> Whole
      BY DEF Whole, Size
    <2> QED
      BY <2>1, <2>2, <2>3 DEF MirrorFollows
  <1> QED
    BY <1>1, <1>2, <1>3, <1>4, <1>5, <1>6, <1>7

LEMMA CrashKeepsInv == ASSUME Inv, Crash PROVE Inv'
  <1> USE DEF Inv, Crash, file, keys, memory, threads, mirroring
  <1>1. TypeOK'
    BY DEF TypeOK, Keys, Ids
  <1>2. KeyHeld'
    <2>1. keyfile \notin Keys => lastKey <= crashes + 1 /\ tail' = tail
      BY DEF KeyHeld, LockHeld, TypeOK, Keys
    <2> QED
      BY <2>1 DEF KeyHeld, TypeOK
  <1>3. LockHeld'
    BY DEF LockHeld, TypeOK
  <1>4. Numbered'
    <2>1. tail' \in Records => tail'.seq <= made
      BY DEF Numbered, LockHeld
    <2>2. 0 <= made
      BY DEF TypeOK
    <2> QED
      BY <2>1, <2>2 DEF Numbered, Size
  <1>5. ReadableIsChain'
    BY ChainKept
  <1>6. MemoryIsTail'
    <2> SUFFICES ASSUME Whole, tail' \in Records PROVE IsNext(tail')
      BY DEF MemoryIsTail, Whole, IsNext, LastId, Size
    <2>1. CASE tail' = tail
      BY <2>1 DEF MemoryIsTail
    <2>2. ASSUME NEW t \in Threads, pc[t] = "locked", tail = Nothing, tail' = rec[t]
          PROVE  IsNext(rec[t])
      <3>1. /\ state = "up" /\ lock = t
            /\ rec[t].seq = seq + 1 /\ rec[t].key = keyfile /\ rec[t].prev = hash
        BY <2>2 DEF LockHeld
      <3>2. \A u \in Threads : pc[u] \notin {"written", "hashed"}
        BY <2>2, <3>1 DEF LockHeld
      <3> QED
        BY <2>2, <3>1, <3>2 DEF MemoryIsTail, IsNext
    <2> QED
      BY <2>1, <2>2
  <1>7. MirrorFollows'
    BY DEF MirrorFollows, Whole, Anchored, Size, TypeOK
  <1> QED
    BY <1>1, <1>2, <1>3, <1>4, <1>5, <1>6, <1>7

LEMMA RestartKeepsInv == ASSUME Inv, Restart PROVE Inv'
  <1> USE DEF Inv, Restart, file, keys, memory, threads, mirroring
  <1>1. TypeOK'
    BY DEF TypeOK, Keys, Ids
  <1>2. KeyHeld'
    BY DEF KeyHeld, TypeOK, Keys
  <1>3. LockHeld'
    BY DEF LockHeld, TypeOK
  <1>4. Numbered'
    BY DEF Numbered, Size, TypeOK
  <1>5. ReadableIsChain'
    BY ChainKept
  <1>6. MemoryIsTail'
    BY DEF MemoryIsTail, Whole, IsNext, LastId, Size, TypeOK
  <1>7. MirrorFollows'
    BY DEF MirrorFollows, Whole, Anchored, Size, TypeOK
  <1> QED
    BY <1>1, <1>2, <1>3, <1>4, <1>5, <1>6, <1>7

----------------------------------------------------------------------------
(* The invariant.                                                          *)

\* Init is where a first start begins ...
LEMMA InvInit == Init => Inv
  <1> SUFFICES ASSUME Init PROVE Inv
    OBVIOUS
  <1> USE DEF Init
  <1>1. Size = 0 /\ lines \in Seq(Line)
    BY EmptySeq DEF Size
  <1>2. TypeOK
    BY <1>1 DEF TypeOK, Line, Keys, Ids
  <1>3. KeyHeld /\ LockHeld /\ Numbered
    BY <1>1 DEF KeyHeld, LockHeld, Numbered
  <1>4. ReadableIsChain
    <2>1. ChainUpTo(0)
      BY <1>1 DEF ChainUpTo
    <2> QED
      BY <2>1 DEF ReadableIsChain
  <1>5. MemoryIsTail /\ MirrorFollows
    BY <1>1 DEF MemoryIsTail, MirrorFollows, LastId
  <1> QED
    BY <1>2, <1>3, <1>4, <1>5 DEF Inv

\* ... and the invariant survives every step.
LEMMA InvNext == Inv /\ [Next]_vars => Inv'
  <1> SUFFICES ASSUME Inv, [Next]_vars PROVE Inv'
    OBVIOUS
  <1>1. CASE UNCHANGED vars
    <2> USE <1>1 DEF Inv, vars, file, keys, memory, threads, mirroring
    <2>1. TypeOK' /\ KeyHeld' /\ LockHeld' /\ Numbered' /\ MirrorFollows'
      BY DEF TypeOK, KeyHeld, LockHeld, Numbered, MirrorFollows, Whole, Anchored, Size
    <2>2. ReadableIsChain'
      BY ChainKept
    <2>3. MemoryIsTail'
      BY DEF MemoryIsTail, Whole, IsNext, LastId, Size
    <2> QED
      BY <2>1, <2>2, <2>3
  <1> QED
    BY <1>1, LoadKeyKeepsInv, WriteKeyKeepsInv, LoadTailKeepsInv, BeginAppendKeepsInv,
       WriteRecordKeepsInv, WriteFailsKeepsInv, SetHashKeepsInv, SetSeqKeepsInv,
       MirrorSeqKeepsInv, MirrorHashKeepsInv, CrashKeepsInv, RestartKeepsInv
    DEF Next

----------------------------------------------------------------------------
(* The theorems.                                                           *)

\* The state has its type throughout: numbers, hashes and keys are never exhausted before
\* the records and the starts are.
THEOREM TypeCorrect == Spec => []TypeOK
  <1>1. Inv => TypeOK
    BY DEF Inv
  <1> QED
    BY InvInit, InvNext, <1>1, PTL DEF Spec

\* Line i of the whole file, the unterminated one included, has its place in the chain.
AllLinked(i) ==
    /\ AllLines[i] \in Records
    /\ AllLines[i].seq = i /\ AllLines[i].key = keyfile
    /\ AllLines[i].prev = IF i = 1 THEN NoHash ELSE AllLines[i - 1].id

\* read_all returns the chain: the longest readable beginning of the file is one of the
\* numbers the invariant speaks of, plus one when the unterminated line can be read.
LEMMA ReadAllIsChain ==
    ASSUME Inv
    PROVE  \E m \in 0..Len(AllLines) :
              /\ \A i \in 1..m : AllLinked(i)
              /\ m < Len(AllLines) => AllLines[m + 1] \notin Records
  <1> USE DEF Inv
  <1>1. PICK n \in Nat : ChainUpTo(n)
    BY DEF ReadableIsChain
  <1>2. n \in 0..Size /\ Size \in Nat /\ Size <= Len(AllLines) /\ Len(AllLines) \in Nat
    BY <1>1, AllLinesShape DEF ChainUpTo
  <1>3. \A i \in 1..n : AllLinked(i)
    <2> SUFFICES ASSUME NEW i \in 1..n PROVE AllLinked(i)
      OBVIOUS
    <2>1. Linked(i)
      BY <1>1 DEF ChainUpTo
    <2>2. AllLines[i] = lines[i] /\ (i # 1 => AllLines[i - 1] = lines[i - 1])
      BY <1>2, AllLinesShape
    <2> QED
      BY <2>1, <2>2 DEF AllLinked, Linked
  <1>4. CASE n < Size
    <2>1. AllLines[n + 1] = Unreadable
      BY <1>1, <1>2, <1>4, AllLinesShape DEF ChainUpTo
    <2> QED
      BY <1>2, <1>3, <2>1
  <1>5. CASE n = Size /\ tail = Nothing
    BY <1>2, <1>3, <1>5, AllLinesShape
  <1>6. CASE n = Size /\ tail = Unreadable
    <2>1. AllLines[n + 1] = Unreadable
      BY <1>6, AllLinesShape
    <2> QED
      BY <1>2, <1>3, <2>1
  <1>7. CASE n = Size /\ tail \in Records
    <2>1. Whole
      BY <1>1, <1>7 DEF ChainUpTo, Linked, Whole
    <2>2. IsNext(tail) /\ AllLines[n + 1] = tail /\ Len(AllLines) = n + 1
      BY <1>7, <2>1, AllLinesShape DEF MemoryIsTail
    <2>3. n # 0 => AllLines[n] = lines[n]
      BY <1>2, <1>7, AllLinesShape
    <2>4. AllLinked(n + 1)
      BY <1>2, <1>7, <2>2, <2>3 DEF AllLinked, IsNext, LastId
    <2>5. \A i \in 1..(n + 1) : i \in 1..n \/ i = n + 1
      BY <1>2
    <2> QED
      BY <1>2, <1>3, <2>2, <2>4, <2>5
  <1> QED
    BY <1>2, <1>4, <1>5, <1>6, <1>7 DEF TypeOK

\* I-SEC7 for any number of records, crashes and torn writes, with two threads appending:
\* what read_all returns verifies with the running process's key.  A write that is cut
\* short, or a start that numbers from one again behind a damaged line, ends the readable
\* part and never forges its continuation.
THEOREM ChainAlwaysVerifies == Spec => []ChainVerifies
  <1>1. Inv => ChainVerifies
    <2> SUFFICES ASSUME Inv, state = "up" PROVE Verifies(ReadAll)
      BY DEF ChainVerifies
    <2>1. PICK m \in 0..Len(AllLines) :
             /\ \A i \in 1..m : AllLinked(i)
             /\ m < Len(AllLines) => AllLines[m + 1] \notin Records
      BY ReadAllIsChain
    <2>2. AllLines \in Seq(Line) /\ Len(AllLines) \in Nat
      BY AllLinesShape, LenProperties DEF Inv
    <2> DEFINE readable == {n \in 0..Len(AllLines) : \A i \in 1..n : AllLines[i] \in Records}
    <2>3. m \in readable
      BY <2>1 DEF AllLinked
    <2>4. ASSUME NEW n \in readable PROVE n <= m
      <3>1. n \in Nat /\ n <= Len(AllLines) /\ m \in Nat
        BY <2>2
      <3>2. ~(m < n)
        BY <2>1, <2>2, <3>1
      <3> QED
        BY <3>1, <3>2
    <2>5. Max(readable) = m
      <3>1. \A n \in readable : n \in Nat
        BY <2>2
      <3>2. \A n \in readable : m >= n
        BY <2>3, <2>4, <3>1
      <3>3. \A x \in readable : (\A y \in readable : x >= y) => x = m
        BY <2>3, <3>1, <3>2
      <3> HIDE DEF readable
      <3> QED
        BY <2>3, <3>2, <3>3 DEF Max
    <2>6. ReadAll = SubSeq(AllLines, 1, m)
      BY <2>5 DEF ReadAll
    <2>7. /\ Len(ReadAll) = m
          /\ \A i \in 1..m : ReadAll[i] = AllLines[i]
      <3>1. \A i \in 1..m : AllLines[i] \in Line
        BY <2>1 DEF AllLinked, Line
      <3>2. /\ Len(SubSeq(AllLines, 1, m)) = IF 1 <= m THEN m - 1 + 1 ELSE 0
            /\ \A i \in 1..(m - 1 + 1) : SubSeq(AllLines, 1, m)[i] = AllLines[1 + i - 1]
        BY <2>2, <3>1, SubSeqProperties
      <3> QED
        BY <2>2, <2>6, <3>2
    <2>8. key = keyfile
      BY DEF Inv, KeyHeld
    <2>9. ASSUME NEW i \in 1..Len(ReadAll)
          PROVE  /\ ReadAll[i].prev = IF i = 1 THEN NoHash ELSE ReadAll[i - 1].id
                 /\ ReadAll[i].key = key
                 /\ i > 1 => ReadAll[i].seq = ReadAll[i - 1].seq + 1
      <3>1. i \in 1..m /\ (i # 1 => i - 1 \in 1..m)
        BY <2>2, <2>7
      <3>2. AllLinked(i) /\ (i # 1 => AllLinked(i - 1))
        BY <2>1, <3>1
      <3>3. ReadAll[i] = AllLines[i] /\ (i # 1 => ReadAll[i - 1] = AllLines[i - 1])
        BY <2>7, <3>1
      <3>4. i > 1 => ReadAll[i].seq = i /\ ReadAll[i - 1].seq = i - 1
        BY <3>1, <3>2, <3>3 DEF AllLinked
      <3> QED
        BY <2>8, <3>1, <3>2, <3>3, <3>4 DEF AllLinked
    <2> QED
      BY <2>9 DEF Verifies
  <1> QED
    BY InvInit, InvNext, <1>1, PTL DEF Spec

\* Numbers are well-founded: what a least counterexample is taken from.
LEMMA LeastNumber ==
    ASSUME NEW T, T \subseteq Nat, T # {}
    PROVE  \E x \in T : \A y \in T : x <= y
  <1>1. OpToRel(<, Nat) = {p \in Nat \X Nat : p[1] < p[2]}
    BY DEF OpToRel
  <1>2. PICK x \in T : \A y \in T : <<y, x>> \notin OpToRel(<, Nat)
    BY WFMin, NatLessThanWellFounded
  <1>3. ASSUME NEW y \in T PROVE x <= y
    <2>1. x \in Nat /\ y \in Nat
      OBVIOUS
    <2>2. <<y, x>> \in Nat \X Nat /\ <<y, x>>[1] = y /\ <<y, x>>[2] = x
      BY <2>1
    <2>3. <<y, x>> \notin {p \in Nat \X Nat : p[1] < p[2]}
      BY <1>1, <1>2
    <2> QED
      BY <2>1, <2>2, <2>3
  <1> QED
    BY <1>3

\* An undamaged file is one chain.
LEMMA UndamagedIsChain ==
    ASSUME Inv, Undamaged
    PROVE  \A i \in 1..Len(AllLines) : AllLinked(i)
  <1>1. PICK m \in 0..Len(AllLines) :
           /\ \A i \in 1..m : AllLinked(i)
           /\ m < Len(AllLines) => AllLines[m + 1] \notin Records
    BY ReadAllIsChain
  <1>2. Len(AllLines) \in Nat
    BY AllLinesShape, LenProperties DEF Inv
  <1>3. m = Len(AllLines)
    BY <1>1, <1>2 DEF Undamaged
  <1> QED
    BY <1>1, <1>3

\* What verify is for, on a chain of any length: of any selection and reordering of the
\* records of an undamaged file, it accepts only the chain from its first record on.
\* Otherwise there would be a first record out of place; it cannot be the first of all,
\* because only the genuine one links to nothing, and it cannot follow one that is in
\* place, because the number after that one is its own.
THEOREM ReorderingIsNoticed == Spec => []TamperEvident
  <1>1. Inv => TamperEvident
    <2> SUFFICES ASSUME Inv, Undamaged,
                        NEW n \in 1..Len(AllLines),
                        NEW f \in [1..n -> 1..Len(AllLines)],
                        Verifies([i \in 1..n |-> AllLines[f[i]]]),
                        \E i \in 1..n : f[i] # i
                 PROVE  FALSE
      BY DEF TamperEvident
    <2> DEFINE records == [i \in 1..n |-> AllLines[f[i]]]
               misplaced == {i \in 1..n : f[i] # i}
    <2>1. /\ \A i \in 1..Len(AllLines) : AllLinked(i)
          /\ Len(AllLines) \in Nat /\ n \in Nat
      BY UndamagedIsChain, AllLinesShape, LenProperties DEF Inv
    <2>2. Len(records) = n /\ \A i \in 1..n : records[i] = AllLines[f[i]] /\ AllLinked(f[i])
      BY <2>1
    <2>3. \A i \in 1..n : /\ records[i].prev = IF i = 1 THEN NoHash ELSE records[i - 1].id
                          /\ i > 1 => records[i].seq = records[i - 1].seq + 1
      BY <2>2 DEF Verifies
    <2> HIDE DEF records
    <2>4. PICK i \in misplaced : \A j \in misplaced : i <= j
      <3>1. misplaced \subseteq Nat /\ misplaced # {}
        OBVIOUS
      <3> HIDE DEF misplaced
      <3> QED
        BY <3>1, LeastNumber
    <2>5. i \in 1..n /\ f[i] # i /\ f[i] \in 1..Len(AllLines)
      BY <2>4
    <2>6. CASE i = 1
      <3>1. AllLines[f[1]].prev = NoHash
        BY <2>2, <2>3, <2>5, <2>6
      <3>2. f[1] - 1 \in 1..Len(AllLines)
        BY <2>1, <2>5, <2>6
      <3>3. AllLines[f[1]].prev = AllLines[f[1] - 1].id
        BY <2>2, <2>5, <2>6 DEF AllLinked
      <3>4. AllLines[f[1] - 1].id # NoHash
        BY <2>1, <3>2 DEF AllLinked, Records, Ids
      <3> QED
        BY <3>1, <3>3, <3>4
    <2>7. CASE i # 1
      <3>1. i - 1 \in 1..n /\ i > 1 /\ i \in Nat
        BY <2>1, <2>5, <2>7
      <3>2. f[i - 1] = i - 1
        <4>1. i - 1 \notin misplaced
          BY <2>4, <3>1
        <4> QED
          BY <3>1, <4>1
      <3>3. records[i].seq = f[i] /\ records[i - 1].seq = i - 1
        BY <2>2, <2>5, <3>1, <3>2, SMTT(30) DEF AllLinked
      <3>4. f[i] = (i - 1) + 1
        BY <2>3, <2>5, <3>1, <3>3
      <3> QED
        BY <2>5, <3>1, <3>4
    <2> QED
      BY <2>6, <2>7
  <1> QED
    BY InvInit, InvNext, <1>1, PTL DEF Spec

\* Every chain head sent to Telegram is anchored: _push_telegram reads the number and the
\* hash without the lock, between any two steps of an append by the other thread, and
\* still the hash is that of a record on disk which is not before the number's.
THEOREM MirrorIsAnchored == Spec => []MirrorAnchored
  <1>1. Inv => MirrorAnchored
    <2> SUFFICES ASSUME Inv, Undamaged, NEW h \in mirrored
                 PROVE  \E i \in 1..Len(AllLines) :
                           AllLines[i].id = h[2] /\ AllLines[i].seq >= h[1]
      BY DEF MirrorAnchored
    <2>1. /\ Size \in Nat /\ Len(AllLines) = (IF tail = Nothing THEN Size ELSE Size + 1)
          /\ \A i \in 1..Size : AllLines[i] = lines[i]
          /\ tail # Nothing => AllLines[Size + 1] = tail
      BY AllLinesShape DEF Inv
    <2>2. \A i \in 1..Size : i \in 1..Len(AllLines)
      BY <2>1
    <2>3. Whole
      BY <2>1, <2>2 DEF Undamaged, Whole
    <2>4. tail # Unreadable
      BY <2>1 DEF Undamaged
    <2>5. Anchored(h)
      BY <2>3, <2>4 DEF Inv, MirrorFollows
    <2> QED
      BY <2>1, <2>2, <2>5 DEF Anchored
  <1> QED
    BY InvInit, InvNext, <1>1, PTL DEF Spec

=============================================================================
