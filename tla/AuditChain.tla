----------------------------- MODULE AuditChain ------------------------------
(***************************************************************************)
(* The hash-chained audit log (anima/kernel/audit_chain.py): one instance  *)
(* per process, appended to by the event loop's thread and by an executor  *)
(* thread, mirrored off the box by the event loop, reloaded from disk      *)
(* after a crash.                                                          *)
(*                                                                         *)
(* A record's hash covers all of its content, a timestamp included: it is  *)
(* modelled by the record's identity.  Its signature is modelled by the    *)
(* key that made it.  A file is a sequence of lines and a last line that   *)
(* is not terminated.                                                      *)
(***************************************************************************)
EXTENDS Integers, Sequences, FiniteSetsExt

CONSTANTS
    MaxRecords,   \* bound: calls of append
    MaxCrashes,   \* bound: process crashes
    Unreadable,   \* a line json.loads rejects
    Nothing       \* no unterminated line; a key file that does not exist

ASSUME ChainAssumption ==
    /\ MaxRecords \in Nat /\ MaxCrashes \in Nat
    /\ Unreadable # Nothing

Threads == {"loop", "executor"}
NoHash == 0                 \* last_hash of an empty chain
Ids == 1..MaxRecords        \* the hashes of records
Keys == 1..(MaxCrashes + 1) \* the keys that can be generated

Records == [seq : Ids, prev : Ids \union {NoHash}, id : Ids, key : Keys]

ASSUME NotRecords ==
    /\ Unreadable \notin Records /\ Nothing \notin Records
    /\ Unreadable \notin Keys /\ Nothing \notin Keys

VARIABLES
    lines,     \* the terminated lines of audit_chain.jsonl
    tail,      \* what follows the last newline
    keyfile,   \* audit_signing_key.pem
    lastKey,   \* the last key that was generated
    state,     \* the process: down, then the steps of _init, then up
    key, seq, hash,   \* _private_key, _seq and _last_hash of the instance
    lock,      \* _lock: the thread that holds it, or "free"
    pc, rec,   \* the threads, and the record each is appending
    mirror,    \* the seq that _push_telegram has read, and where it is
    mirrored,  \* the chain heads sent to Telegram
    made, crashes

file == <<lines, tail>>
keys == <<keyfile, lastKey>>
memory == <<key, seq, hash>>
threads == <<lock, pc, rec>>
mirroring == <<mirror, mirrored>>
vars == <<file, keys, state, memory, threads, mirroring, made, crashes>>

TypeOK ==
    /\ lines \in Seq(Records \union {Unreadable})
    /\ tail \in Records \union {Unreadable, Nothing}
    /\ keyfile \in Keys \union {Unreadable, Nothing}
    /\ lastKey \in Keys \union {0}
    /\ state \in {"down", "keys", "generate", "tail", "up"}
    /\ key \in Keys \union {0} /\ seq \in Ids \union {0} /\ hash \in Ids \union {NoHash}
    /\ lock \in Threads \union {"free"}
    /\ pc \in [Threads -> {"idle", "locked", "written", "hashed"}]
    /\ rec \in [Threads -> Records \union {Nothing}]
    /\ mirror \in [pc : {"idle", "reading"}, seq : Ids \union {0}]
    /\ mirrored \subseteq (Ids \X (Ids \union {NoHash}))
    /\ made \in 0..MaxRecords /\ crashes \in 0..MaxCrashes

Init ==
    /\ lines = <<>> /\ tail = Nothing
    /\ keyfile = Nothing /\ lastKey = 0
    /\ state = "keys"
    /\ key = 0 /\ seq = 0 /\ hash = NoHash
    /\ lock = "free"
    /\ pc = [t \in Threads |-> "idle"] /\ rec = [t \in Threads |-> Nothing]
    /\ mirror = [pc |-> "idle", seq |-> 0] /\ mirrored = {}
    /\ made = 0 /\ crashes = 0

----------------------------------------------------------------------------
(* read_all and verify.                                                    *)

AllLines == IF tail = Nothing THEN lines ELSE Append(lines, tail)

\* read_all stops, without raising, at the first line it cannot parse.
ReadAll ==
    LET all == AllLines
        readable == {n \in 0..Len(all) : \A i \in 1..n : all[i] \in Records}
    IN  SubSeq(all, 1, Max(readable))

\* Mutant of Verifies: the linkage is not compared.
VerifiesUnlinked(records) ==
    \A i \in 1..Len(records) :
        /\ records[i].key = key
        /\ i > 1 => records[i].seq = records[i - 1].seq + 1

\* verify: signature, linkage and sequence number of every record.
Verifies(records) ==
    \A i \in 1..Len(records) :
        /\ records[i].prev = IF i = 1 THEN NoHash ELSE records[i - 1].id
        /\ records[i].key = key
        /\ i > 1 => records[i].seq = records[i - 1].seq + 1

----------------------------------------------------------------------------
(* _init, when the process starts.                                         *)

LoadKey ==
    /\ state = "keys"
    /\ IF keyfile \in Keys
         THEN state' = "tail" /\ key' = keyfile /\ UNCHANGED <<keyfile, lastKey>>
         ELSE /\ state' = "generate" /\ key' = lastKey + 1
              /\ lastKey' = lastKey + 1
              /\ keyfile' = Unreadable
    /\ UNCHANGED <<file, seq, hash, threads, mirroring, made, crashes>>

\* write_bytes has truncated the key file, and fills it.
WriteKey ==
    /\ state = "generate"
    /\ keyfile' = key
    /\ state' = "tail"
    /\ UNCHANGED <<file, lastKey, memory, threads, mirroring, made, crashes>>

\* Mutant of LoadTail: the hash is not restored.
LoadTailSeqOnly ==
    /\ state = "tail"
    /\ LET all == AllLines
           last == IF all = <<>> THEN Unreadable ELSE all[Len(all)]
       IN  seq' = IF last \in Records THEN last.seq ELSE 0
    /\ state' = "up"
    /\ UNCHANGED <<file, keys, key, hash, threads, mirroring, made, crashes>>

\* _load_chain_tail: a last line that does not parse leaves seq and last_hash as
\* they are for an empty chain.
LoadTail ==
    /\ state = "tail"
    /\ LET all == AllLines
           last == IF all = <<>> THEN Unreadable ELSE all[Len(all)]
       IN  IF last \in Records
             THEN seq' = last.seq /\ hash' = last.id
             ELSE seq' = 0 /\ hash' = NoHash
    /\ state' = "up"
    /\ UNCHANGED <<file, keys, key, threads, mirroring, made, crashes>>

----------------------------------------------------------------------------
(* append, by a thread.                                                    *)

\* Mutant of BeginAppend: the number of the last record is used again.
BeginAppendSameSeq(t) ==
    /\ state = "up" /\ lock = "free" /\ pc[t] = "idle"
    /\ t = "loop" => mirror.pc = "idle"
    /\ made < MaxRecords
    /\ lock' = t
    /\ made' = made + 1
    /\ rec' = [rec EXCEPT ![t] = [seq |-> seq, prev |-> hash, id |-> made + 1,
                                  key |-> key]]
    /\ pc' = [pc EXCEPT ![t] = "locked"]
    /\ UNCHANGED <<file, keys, state, memory, mirroring, crashes>>

\* Mutant of BeginAppend: last_hash is set before the record is written.
BeginAppendPublishing(t) ==
    /\ state = "up" /\ lock = "free" /\ pc[t] = "idle"
    /\ t = "loop" => mirror.pc = "idle"
    /\ made < MaxRecords
    /\ lock' = t
    /\ made' = made + 1
    /\ rec' = [rec EXCEPT ![t] = [seq |-> seq + 1, prev |-> hash, id |-> made + 1,
                                  key |-> key]]
    /\ hash' = made + 1
    /\ pc' = [pc EXCEPT ![t] = "locked"]
    /\ UNCHANGED <<file, keys, state, key, seq, mirroring, crashes>>

\* Take the lock, number, link and sign the record.
BeginAppend(t) ==
    /\ state = "up" /\ lock = "free" /\ pc[t] = "idle"
    /\ t = "loop" => mirror.pc = "idle"
    /\ made < MaxRecords
    /\ lock' = t
    /\ made' = made + 1
    /\ rec' = [rec EXCEPT ![t] = [seq |-> seq + 1, prev |-> hash, id |-> made + 1,
                                  key |-> key]]
    /\ pc' = [pc EXCEPT ![t] = "locked"]
    /\ UNCHANGED <<file, keys, state, memory, mirroring, crashes>>

\* The text goes after whatever the file ends with.
WriteRecord(t) ==
    /\ pc[t] = "locked"
    /\ lines' = Append(lines, IF tail = Nothing THEN rec[t] ELSE Unreadable)
    /\ tail' = Nothing
    /\ pc' = [pc EXCEPT ![t] = "written"]
    /\ UNCHANGED <<keys, state, memory, lock, rec, mirroring, made, crashes>>

\* The write is cut short and raises: append returns {} and the memory is as before.
WriteFails(t) ==
    /\ pc[t] = "locked"
    /\ \/ UNCHANGED tail
       \/ tail' = Unreadable
    /\ lock' = "free"
    /\ pc' = [pc EXCEPT ![t] = "idle"]
    /\ rec' = [rec EXCEPT ![t] = Nothing]
    /\ UNCHANGED <<lines, keys, state, memory, mirroring, made, crashes>>

SetHash(t) ==
    /\ pc[t] = "written"
    /\ hash' = rec[t].id
    /\ pc' = [pc EXCEPT ![t] = "hashed"]
    /\ UNCHANGED <<file, keys, state, key, seq, lock, rec, mirroring, made, crashes>>

SetSeq(t) ==
    /\ pc[t] = "hashed"
    /\ seq' = rec[t].seq
    /\ lock' = "free"
    /\ pc' = [pc EXCEPT ![t] = "idle"]
    /\ rec' = [rec EXCEPT ![t] = Nothing]
    /\ UNCHANGED <<file, keys, state, key, hash, mirroring, made, crashes>>

----------------------------------------------------------------------------
(* _push_telegram, on the event loop's thread, without the lock.           *)

MirrorSeq ==
    /\ state = "up" /\ pc["loop"] = "idle"
    /\ mirror.pc = "idle" /\ seq # 0
    /\ mirror' = [pc |-> "reading", seq |-> seq]
    /\ UNCHANGED <<file, keys, state, memory, threads, mirrored, made, crashes>>

MirrorHash ==
    /\ mirror.pc = "reading"
    /\ mirrored' = mirrored \union {<<mirror.seq, hash>>}
    /\ mirror' = [pc |-> "idle", seq |-> 0]
    /\ UNCHANGED <<file, keys, state, memory, threads, made, crashes>>

----------------------------------------------------------------------------

\* The process dies.  A record that was being written may be lost, cut short, or
\* written up to its newline; a key that was being written is torn.
Crash ==
    /\ state # "down" /\ crashes < MaxCrashes
    /\ state' = "down"
    /\ crashes' = crashes + 1
    /\ \/ UNCHANGED tail
       \/ \E t \in Threads :
            /\ pc[t] = "locked"
            /\ \/ tail' = Unreadable
               \/ tail = Nothing /\ tail' = rec[t]
    /\ key' = 0 /\ seq' = 0 /\ hash' = NoHash
    /\ lock' = "free"
    /\ pc' = [t \in Threads |-> "idle"] /\ rec' = [t \in Threads |-> Nothing]
    /\ mirror' = [pc |-> "idle", seq |-> 0]
    /\ UNCHANGED <<lines, keys, mirrored, made>>

Restart ==
    /\ state = "down"
    /\ state' = "keys"
    /\ UNCHANGED <<file, keys, memory, threads, mirroring, made, crashes>>

Next ==
    \/ LoadKey \/ WriteKey \/ LoadTail
    \/ \E t \in Threads : \/ BeginAppend(t) \/ WriteRecord(t) \/ WriteFails(t)
                          \/ SetHash(t) \/ SetSeq(t)
    \/ MirrorSeq \/ MirrorHash
    \/ Crash \/ Restart

Spec == Init /\ [][Next]_vars

----------------------------------------------------------------------------
(* Properties.                                                             *)

\* I-SEC7: whatever the threads, torn writes and crashes did, what read_all returns
\* verifies with the key of the running process.
ChainVerifies == state = "up" => Verifies(ReadAll)

\* No write was cut short.
Undamaged == \A i \in 1..Len(AllLines) : AllLines[i] \in Records

\* Of an undamaged file, verify accepts the genuine chain from its first record on:
\* records that are left out, repeated or moved are noticed, except at the end (which
\* is what the mirror is for).
TamperEvident ==
    state = "up" /\ Undamaged =>
        \A n \in 1..Len(AllLines) : \A f \in [1..n -> 1..Len(AllLines)] :
            Verifies([i \in 1..n |-> AllLines[f[i]]]) => \A i \in 1..n : f[i] = i

\* What the mirror sends proves something: although it reads the number and the
\* hash without the lock, while another thread appends, the hash is that of a record
\* on disk, no earlier than the one with that number.
MirrorAnchored ==
    Undamaged => \A h \in mirrored : \E i \in 1..Len(AllLines) :
        AllLines[i].id = h[2] /\ AllLines[i].seq >= h[1]

=============================================================================
