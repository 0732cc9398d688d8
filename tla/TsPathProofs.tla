----------------------------- MODULE TsPathProofs -----------------------------
(***************************************************************************)
(* The way of a TS packet through the driver: from the USB transfers to    *)
(* the receivers (TsSync), for every packet length, number of packets in   *)
(* sync, stream and cut of the stream into transfers; and through a        *)
(* receiver's ring buffer to its reader (PtxStream), for every size,       *)
(* threshold and length of chunks.                                         *)
(***************************************************************************)
EXTENDS PtxStream, TsSync, SequenceTheorems, WellFoundedInduction, TLAPS

(***************************************************************************)
(*                       The ring buffer: PtxStream                        *)
(***************************************************************************)
WPcs == {"idle", "enter", "actual", "tail", "copy", "store", "add", "exit", "account"}
RPcs == {"idle", "check", "wait", "enter", "actual", "head", "copy", "store", "sub", "exit"}
CPcs == Starting \cup {"idle", "stop", "close"}

-----------------------------------------------------------------------------
(* What the wake-ups rest on                                               *)

WriterType ==
    /\ w = [pc |-> w.pc, data |-> w.data, actual |-> w.actual, tail |-> w.tail, n |-> w.n]
    /\ w.pc \in WPcs
    /\ w.pc # "idle" => w.data \in Chunks
    /\ w.actual \in Int /\ w.n \in 0..MaxChunk

ReaderType ==
    /\ r = [pc |-> r.pc, remain |-> r.remain, actual |-> r.actual, head |-> r.head,
            n |-> r.n, out |-> r.out]
    /\ r.pc \in RPcs
    /\ r.remain \in Nat /\ r.actual \in Int /\ r.n \in Int
    /\ r.pc \in {"copy", "store", "sub"} => r.n > 0
    /\ r.pc \in {"copy", "store", "sub", "exit"} => r.n <= r.remain

TypeInv ==
    /\ state \in 0..2 /\ actual \in Int /\ c \in CPcs
    /\ WriterType /\ ReaderType

(* chrdev->streaming follows the state of the buffer.                      *)
StateInv ==
    /\ streaming <=> state # 0
    /\ c \in Starting => ~streaming

(* The writer never takes more than there is room for.                     *)
RoomInv ==
    /\ actual <= Size
    /\ w.pc = "tail" => /\ w.actual <= Size
                        /\ actual + Least(Len(w.data), Size - w.actual) <= Size
    /\ w.pc \in {"copy", "store", "add"} => w.n > 0 /\ actual + w.n <= Size

(* The counter that spaces the wake-ups covers what a sleeping reader has  *)
(* not seen.                                                               *)
Uncounted == IF w.pc \in {"exit", "account"} THEN w.n ELSE 0
SleepInv ==
    /\ wsize \in 0..(Threshold - 1)
    /\ r.pc = "wait" /\ ~woken => state # 0 /\ actual <= wsize + Uncounted

WakeInv == TypeInv /\ StateInv /\ RoomInv /\ SleepInv

-----------------------------------------------------------------------------
(* What the queue rests on                                                 *)

OneReceiver == JoinReaders /\ ~SharedBus

InWrite == {"actual", "tail", "copy", "store", "add", "exit"}
InRead == {"actual", "head", "copy", "store", "sub", "exit"}
One(P) == IF P THEN 1 ELSE 0

(* The control thread has the buffer to itself.                            *)
AloneInv ==
    /\ ~streaming => w.pc = "idle"
    /\ c \in {"stop", "close"} => w.pc = "idle" /\ ~capture
    /\ c \in Starting => r.pc = "idle"
    /\ rw_count = One(w.pc \in InWrite) + One(r.pc \in InRead)

(* The data lies between head and tail.                                    *)
Slots == 0..(Size - 1)
Last == IF w.pc = "add" THEN w.tail ELSE tail
RingInv ==
    /\ actual >= 0
    /\ head \in Slots /\ tail \in Slots
    /\ buf = [i \in Slots |-> buf[i]]
    /\ c \in {"head", "tail", "start"} => actual = 0
    /\ c = "tail" => head = 0
    /\ c \notin {"head", "tail"} => Last = Advance(First, actual)

WriterInv ==
    /\ w.pc = "tail" => actual <= w.actual
    /\ w.pc \in {"copy", "store"} => w.tail = tail
    /\ w.pc = "add" => w.tail \in Slots /\ tail = Advance(w.tail, w.n)
    /\ w.pc \in {"copy", "store", "add"} => w.n <= Len(w.data)
    /\ w.pc \in {"store", "add"} =>
          \A j \in 0..(w.n - 1) : buf[Advance(w.tail, j)] = w.data[j + 1]

ReaderInv ==
    /\ r.pc = "head" => r.actual \in 0..actual
    /\ r.pc \in {"copy", "store"} => r.head = head
    /\ r.pc = "sub" => r.head \in Slots /\ head = Advance(r.head, r.n)
    /\ r.pc \in {"copy", "store", "sub"} => r.n <= actual
    /\ r.pc \in {"store", "sub"} => r.out = [i \in 1..r.n |-> buf[Advance(r.head, i - 1)]]
    /\ r.pc # "exit" => got = <<>>

QueueInv == AloneInv /\ RingInv /\ WriterInv /\ ReaderInv

IInv == WakeInv /\ (OneReceiver => QueueInv)

-----------------------------------------------------------------------------
(* The sizes are natural numbers in the order the driver configures them.  *)
LEMMA SizeFacts ==
    /\ Size \in Nat /\ Threshold \in Nat /\ MaxChunk \in Nat /\ MaxRead \in Nat
    /\ 0 < MaxChunk /\ MaxChunk <= Threshold /\ Threshold <= Size
BY SizeAssumption, ThresholdAssumption, ChunkAssumption, ReadAssumption

(* A chunk is a sequence of at least one packet.                           *)
LEMMA ChunkFacts ==
    ASSUME NEW d \in Chunks
    PROVE  /\ d \in Seq(Data) \ {<<>>}
           /\ Len(d) \in Nat /\ 0 < Len(d) /\ Len(d) <= MaxChunk
<1>1. PICK n \in 1..MaxChunk : d \in [1..n -> Data]
  BY DEF Chunks
<1>2. n \in Nat /\ 0 < n
  BY <1>1, SizeFacts
<1>3. d \in Seq(Data)
  BY <1>1, <1>2, SeqDef
<1>4. Len(d) = n
  BY <1>1, <1>2, <1>3, LenProperties
<1>5. d # <<>>
  BY <1>2, <1>4
<1> QED
  BY <1>1, <1>2, <1>3, <1>4, <1>5, SizeFacts

(* A step of the writer that only moves on.                                *)
LEMMA WStepFields ==
    ASSUME WriterType, NEW from, NEW to \in WPcs, from # "idle", WStep(from, to)
    PROVE  /\ w.pc = from /\ w'.pc = to
           /\ w'.data = w.data /\ w'.actual = w.actual /\ w'.tail = w.tail /\ w'.n = w.n
           /\ w.data \in Chunks
           /\ WriterType'
<1>1. w' = [pc |-> to, data |-> w.data, actual |-> w.actual, tail |-> w.tail, n |-> w.n]
  BY DEF WriterType, WStep
<1> QED
  BY <1>1 DEF WriterType, WStep

(* A step of the reader that only moves on.                                *)
LEMMA RStepFields ==
    ASSUME ReaderType, NEW from, NEW to \in RPcs, RStep(from, to),
           to \in {"copy", "store", "sub", "exit"} => from \in {"copy", "store", "sub"}
    PROVE  /\ r.pc = from /\ r'.pc = to
           /\ r'.remain = r.remain /\ r'.actual = r.actual /\ r'.head = r.head
           /\ r'.n = r.n /\ r'.out = r.out
           /\ ReaderType'
<1>1. r' = [pc |-> to, remain |-> r.remain, actual |-> r.actual, head |-> r.head,
            n |-> r.n, out |-> r.out]
  BY DEF ReaderType, RStep
<1> QED
  BY <1>1 DEF ReaderType, RStep

-----------------------------------------------------------------------------
(* The initial states satisfy what the wake-ups rest on.                   *)
LEMMA WakeInit == Init => WakeInv
<1> SUFFICES ASSUME Init PROVE WakeInv
  OBVIOUS
<1>1. WriterType /\ ReaderType
  BY SizeFacts DEF Init, WIdle, RIdle, WriterType, ReaderType, WPcs, RPcs
<1>2. w.pc = "idle" /\ r.pc = "idle"
  BY DEF Init, WIdle, RIdle
<1>3. TypeInv
  BY <1>1 DEF Init, TypeInv, CPcs, Starting
<1>4. StateInv
  BY DEF Init, StateInv, Starting
<1>5. RoomInv /\ SleepInv
  BY <1>2, SizeFacts DEF Init, RoomInv, SleepInv
<1> QED
  BY <1>3, <1>4, <1>5 DEF WakeInv

(* The writer counts what it adds before a reader is left asleep over it.  *)
LEMMA WriterWakes ==
    ASSUME WakeInv, Writer
    PROVE  WakeInv'
<1>0. WriterType /\ ReaderType /\ state \in 0..2 /\ actual \in Int /\ c \in CPcs
  BY DEF WakeInv, TypeInv
<1>1. UNCHANGED <<state, streaming, c, r>>
  BY DEF Writer, WriteCheck, WriteEnter, WriteLoadActual, WriteLoadTail, WriteCopy,
         WriteStoreTail, WriteAddActual, WriteExit, WriteAccount, WStep
<1>2. StateInv' /\ ReaderType'
  BY <1>0, <1>1 DEF WakeInv, StateInv, ReaderType
<1>3. CASE WriteCheck
  <2>1. PICK d \in Chunks : w' = [pc |-> "enter", data |-> d, actual |-> 0, tail |-> 0, n |-> 0]
    BY <1>3 DEF WriteCheck, WIdle
  <2>a. WriterType'
    BY <2>1, SizeFacts DEF WriterType, WPcs
  <2>2. WriterType' /\ UNCHANGED <<actual, wsize, woken>> /\ w.pc = "idle"
    BY <1>3, <2>a DEF WriteCheck, ring
  <2>3. TypeInv' /\ RoomInv' /\ SleepInv'
    BY <1>0, <1>1, <1>2, <2>1, <2>2 DEF TypeInv, WakeInv, RoomInv, SleepInv, Uncounted
  <2> QED
    BY <1>2, <2>3 DEF WakeInv
<1>4. CASE WriteEnter
  <2>1. WriterType' /\ w.pc = "enter" /\ w'.pc = "actual" /\ UNCHANGED <<actual, wsize, woken>>
    BY <1>0, <1>4, WStepFields DEF WriteEnter, WPcs
  <2>2. TypeInv' /\ RoomInv' /\ SleepInv'
    BY <1>0, <1>1, <1>2, <2>1 DEF TypeInv, WakeInv, RoomInv, SleepInv, Uncounted
  <2> QED
    BY <1>2, <2>2 DEF WakeInv
<1>5. CASE WriteLoadActual
  <2>1. /\ w' = [pc |-> "tail", data |-> w.data, actual |-> actual, tail |-> w.tail, n |-> w.n]
        /\ w.pc = "actual" /\ UNCHANGED <<actual, wsize, woken>>
        /\ w.data \in Chunks
    BY <1>0, <1>5 DEF WriteLoadActual, WriterType, ring
  <2>2. WriterType'
    BY <1>0, <2>1 DEF WriterType, WPcs
  <2>3. RoomInv'
    <3>1. Len(w.data) \in Nat
      BY <2>1, ChunkFacts
    <3> QED
      BY <1>0, <2>1, <3>1, SizeFacts DEF WakeInv, RoomInv, Least
  <2>4. TypeInv' /\ SleepInv'
    BY <1>0, <1>1, <1>2, <2>1, <2>2 DEF TypeInv, WakeInv, SleepInv, Uncounted
  <2> QED
    BY <1>2, <2>3, <2>4 DEF WakeInv
<1>6. CASE WriteLoadTail
  <2> DEFINE n == Least(Len(w.data), Size - w.actual)
  <2>1. /\ w' = [pc |-> IF n > 0 THEN "copy" ELSE "exit", data |-> w.data, actual |-> 0,
                 tail |-> tail, n |-> n]
        /\ w.pc = "tail" /\ UNCHANGED <<actual, wsize, woken>>
        /\ w.data \in Chunks
    BY <1>0, <1>6 DEF WriteLoadTail, WriterType, ring
  <2>2. n \in 0..MaxChunk /\ actual + n <= Size /\ n \in Int
    <3>1. /\ Len(w.data) \in Nat /\ Len(w.data) <= MaxChunk
          /\ w.actual \in Int /\ w.actual <= Size
      BY <1>0, <2>1, ChunkFacts DEF WakeInv, RoomInv, WriterType
    <3>2. n \in 0..MaxChunk
      BY <3>1, SizeFacts DEF Least
    <3>3. actual + n <= Size
      BY <2>1 DEF WakeInv, RoomInv
    <3> QED
      BY <3>2, <3>3, SizeFacts
  <2> HIDE DEF n
  <2>3. WriterType'
    BY <1>0, <2>1, <2>2 DEF WriterType, WPcs
  <2>4. RoomInv'
    BY <1>0, <2>1, <2>2 DEF WakeInv, RoomInv
  <2>5. w'.n = n /\ Uncounted' \in Nat
    BY <2>1, <2>2, SizeFacts DEF Uncounted
  <2>6. SleepInv'
    <3>1. w.pc = "tail" => Uncounted = 0
      BY DEF Uncounted
    <3>3. wsize \in Int /\ actual \in Int
      BY <1>0, SizeFacts DEF WakeInv, SleepInv
    <3>4. \A k \in Nat : actual <= wsize + 0 => actual <= wsize + k
      BY <3>3
    <3>2. actual <= wsize + 0 => actual <= wsize + Uncounted'
      BY <2>5, <3>4
    <3> QED
      BY <1>1, <2>1, <3>1, <3>2, <3>3 DEF WakeInv, SleepInv
  <2>7. TypeInv'
    BY <1>0, <1>1, <1>2, <2>1, <2>3 DEF TypeInv
  <2> QED
    BY <1>2, <2>4, <2>6, <2>7 DEF WakeInv
<1>7. CASE WriteCopy \/ WriteStoreTail
  <2>1. /\ WriterType' /\ UNCHANGED <<actual, wsize, woken>> /\ w'.n = w.n
        /\ w.pc \in {"copy", "store"} /\ w'.pc \in {"store", "add"}
    BY <1>0, <1>7, WStepFields DEF WriteCopy, WriteStoreTail, WPcs
  <2>2. TypeInv' /\ RoomInv' /\ SleepInv'
    BY <1>0, <1>1, <1>2, <2>1 DEF TypeInv, WakeInv, RoomInv, SleepInv, Uncounted
  <2> QED
    BY <1>2, <2>2 DEF WakeInv
<1>8. CASE WriteAddActual
  <2>1. /\ WriterType' /\ UNCHANGED <<wsize, woken>> /\ w'.n = w.n /\ w.n \in Int
        /\ w.pc = "add" /\ w'.pc = "exit" /\ actual' = actual + w.n
    BY <1>0, <1>8, SizeFacts, WStepFields DEF WriteAddActual, WPcs, WriterType
  <2>2. TypeInv'
    BY <1>0, <1>1, <1>2, <2>1 DEF TypeInv
  <2>3. RoomInv' /\ SleepInv'
    BY <1>0, <1>1, <2>1, SizeFacts DEF WakeInv, RoomInv, SleepInv, Uncounted
  <2> QED
    BY <1>2, <2>2, <2>3 DEF WakeInv
<1>9. CASE WriteExit
  <2>1. /\ WriterType' /\ UNCHANGED <<actual, wsize, woken>> /\ w'.n = w.n
        /\ w.pc = "exit" /\ w'.pc = "account"
    BY <1>0, <1>9, WStepFields DEF WriteExit, WPcs
  <2>2. TypeInv' /\ RoomInv' /\ SleepInv'
    BY <1>0, <1>1, <1>2, <2>1 DEF TypeInv, WakeInv, RoomInv, SleepInv, Uncounted
  <2> QED
    BY <1>2, <2>2 DEF WakeInv
<1>10. CASE WriteAccount
  <2>1. /\ w.pc = "account" /\ w' = WIdle /\ w'.pc = "idle" /\ UNCHANGED actual
        /\ w.n \in Int /\ 0 <= w.n /\ w.n <= Threshold
        /\ wsize \in Int /\ 0 <= wsize /\ wsize < Threshold
    BY <1>0, <1>10, SizeFacts DEF WriteAccount, ring, WriterType, WIdle, WakeInv, SleepInv
  <2>2. WriterType'
    BY <2>1, SizeFacts DEF WriterType, WIdle, WPcs
  <2>3. TypeInv' /\ RoomInv'
    BY <1>0, <1>1, <1>2, <2>1, <2>2 DEF TypeInv, WakeInv, RoomInv
  <2>4. CASE wsize + w.n >= Threshold
    <3>1. wsize' = (wsize + w.n) - Threshold /\ woken' = (woken \/ r.pc = "wait")
      BY <1>10, <2>4 DEF WriteAccount, WakeReader
    <3>2. wsize' \in 0..(Threshold - 1)
      BY <2>1, <2>4, <3>1, SizeFacts
    <3>3. ~(r'.pc = "wait" /\ ~woken')
      BY <1>1, <3>1
    <3> QED
      BY <1>2, <2>3, <3>2, <3>3 DEF WakeInv, SleepInv
  <2>5. CASE ~(wsize + w.n >= Threshold)
    <3>1. wsize' = wsize + w.n /\ woken' = woken
      BY <1>10, <2>5 DEF WriteAccount
    <3>2. wsize' \in 0..(Threshold - 1)
      BY <2>1, <2>5, <3>1, SizeFacts
    <3>3. Uncounted = w.n /\ Uncounted' = 0
      BY <2>1 DEF Uncounted
    <3>4. wsize' + 0 = wsize + w.n
      BY <2>1, <3>1
    <3>5. SleepInv'
      BY <1>1, <2>1, <3>1, <3>2, <3>3, <3>4 DEF WakeInv, SleepInv
    <3> QED
      BY <1>2, <2>3, <3>5 DEF WakeInv
  <2> QED
    BY <2>4, <2>5
<1> QED
  BY <1>3, <1>4, <1>5, <1>6, <1>7, <1>8, <1>9, <1>10 DEF Writer

(* Room for the writer stays when the buffer holds less.                   *)
LEMMA RoomStays ==
    ASSUME WakeInv, w' = w, actual' \in Int, actual' <= actual \/ actual' = 0
    PROVE  RoomInv'
<1>1. /\ actual \in Int /\ w.n \in Int /\ w.n <= MaxChunk /\ w.actual \in Int
  BY SizeFacts DEF WakeInv, TypeInv, WriterType
<1>2. actual' <= Size
  BY <1>1, SizeFacts DEF WakeInv, RoomInv
<1>3. w.pc \in {"copy", "store", "add"} => actual' + w.n <= Size
  BY <1>1, SizeFacts DEF WakeInv, RoomInv
<1>4. w.pc = "tail" => actual' + Least(Len(w.data), Size - w.actual) <= Size
  <2> SUFFICES ASSUME w.pc = "tail"
               PROVE  actual' + Least(Len(w.data), Size - w.actual) <= Size
    OBVIOUS
  <2>1. Len(w.data) \in Nat /\ Len(w.data) <= MaxChunk
    BY ChunkFacts DEF WakeInv, TypeInv, WriterType
  <2> QED
    BY <1>1, <2>1, SizeFacts DEF WakeInv, RoomInv, Least
<1> QED
  BY <1>2, <1>3, <1>4 DEF WakeInv, RoomInv

(* A reader goes to sleep over an empty buffer of a running reception.     *)
LEMMA ReaderWakes ==
    ASSUME WakeInv, ReadBegin \/ Reader \/ ReadInterrupted
    PROVE  WakeInv'
<1>0. /\ WriterType /\ ReaderType /\ state \in 0..2 /\ actual \in Int /\ c \in CPcs
      /\ wsize \in 0..(Threshold - 1)
  BY DEF WakeInv, TypeInv, SleepInv
<1>1. UNCHANGED <<streaming, c, w, wsize>>
  BY DEF Reader, ReadBegin, ReadCheck, ReadWoken, ReadInterrupted, ReadEnter,
         ReadLoadActual, ReadLoadHead, ReadCopy, ReadStoreHead, ReadSubActual, ReadExit
<1>2. state' \in 0..2 /\ (state' # 0 <=> state # 0)
  <2>1. state' = state \/ (state = 1 /\ state' = 2)
    BY DEF Reader, ReadBegin, ReadCheck, ReadWoken, ReadInterrupted, ReadEnter,
         ReadLoadActual, ReadLoadHead, ReadCopy, ReadStoreHead, ReadSubActual, ReadExit
  <2> QED
    BY <1>0, <2>1
<1>3. StateInv' /\ WriterType'
  BY <1>0, <1>1, <1>2 DEF WakeInv, StateInv, WriterType
<1>4. CASE /\ ReaderType' /\ r'.pc # "wait"
           /\ actual' \in Int /\ actual' <= actual
  <2>1. RoomInv'
    BY <1>1, <1>4, RoomStays
  <2> QED
    BY <1>0, <1>1, <1>2, <1>3, <1>4, <2>1 DEF WakeInv, TypeInv, SleepInv
<1>a. actual <= actual
  BY <1>0
<1>5. CASE ReadBegin
  <2>1. PICK n \in 1..MaxRead :
          r' = [pc |-> "check", remain |-> n, actual |-> 0, head |-> 0, n |-> 0, out |-> <<>>]
    BY <1>5 DEF ReadBegin, RIdle
  <2>2. n \in Nat
    BY SizeFacts
  <2>3. ReaderType' /\ r'.pc # "wait"
    BY <2>1, <2>2 DEF ReaderType, RPcs
  <2> QED
    BY <1>0, <1>a, <1>4, <1>5, <2>3 DEF ReadBegin, ring
<1>6. CASE ReadCheck
  <2>1. CASE actual # 0 \/ state = 0 \/ ~available
    <3>1. RStep("check", "enter")
      BY <1>6, <2>1 DEF ReadCheck, RStep
    <3>2. ReaderType' /\ r'.pc # "wait"
      BY <1>0, <3>1, RStepFields DEF RPcs
    <3> QED
      BY <1>0, <1>a, <1>4, <1>6, <3>2 DEF ReadCheck, ring
  <2>2. CASE ~(actual # 0 \/ state = 0 \/ ~available)
    <3>1. RStep("check", "wait")
      BY <1>6, <2>2 DEF ReadCheck, RStep
    <3>2. ReaderType' /\ r'.pc = "wait"
      BY <1>0, <3>1, RStepFields DEF RPcs
    <3>3. /\ actual' = 0 /\ actual = 0 /\ state' # 0
      BY <1>6, <2>2 DEF ReadCheck, ring
    <3>4. RoomInv'
      BY <1>1, <3>3, RoomStays
    <3>5. wsize' \in Nat /\ Uncounted' \in Nat
      <4>1. w.n \in Nat
        BY <1>0, SizeFacts DEF WriterType
      <4> QED
        BY <1>0, <1>1, <4>1, SizeFacts DEF Uncounted
    <3>6. actual' <= wsize' + Uncounted'
      <4>1. \A a, b \in Nat : 0 <= a + b
        OBVIOUS
      <4> QED
        BY <3>3, <3>5, <4>1
    <3>7. SleepInv'
      BY <1>0, <1>1, <3>3, <3>6 DEF SleepInv
    <3>8. TypeInv'
      BY <1>0, <1>1, <1>2, <1>3, <3>2, <3>3 DEF TypeInv
    <3> QED
      BY <1>3, <3>4, <3>7, <3>8 DEF WakeInv
  <2> QED
    BY <2>1, <2>2
<1>7. CASE ReadWoken \/ ReadEnter
  <2>1. RStep("wait", "check") \/ RStep("enter", "actual")
    BY <1>7 DEF ReadWoken, ReadEnter
  <2>2. ReaderType' /\ r'.pc # "wait"
    BY <1>0, <2>1, RStepFields DEF RPcs
  <2> QED
    BY <1>0, <1>a, <1>4, <1>7, <2>2 DEF ReadWoken, ReadEnter, ring
<1>8. CASE ReadInterrupted
  <2>1. ReaderType' /\ r'.pc # "wait"
    BY <1>8 DEF ReadInterrupted, RIdle, ReaderType, RPcs
  <2> QED
    BY <1>0, <1>a, <1>4, <1>8, <2>1 DEF ReadInterrupted, ring
<1>9. CASE ReadLoadActual
  <2>1. r' = [pc |-> "head", remain |-> r.remain, actual |-> actual, head |-> r.head,
              n |-> r.n, out |-> r.out]
    BY <1>0, <1>9 DEF ReadLoadActual, ReaderType
  <2>2. ReaderType' /\ r'.pc # "wait"
    BY <1>0, <2>1 DEF ReaderType, RPcs
  <2> QED
    BY <1>0, <1>a, <1>4, <1>9, <2>2 DEF ReadLoadActual, ring
<1>10. CASE ReadLoadHead
  <2> DEFINE n == Least(r.remain, r.actual)
  <2>1. r' = [pc |-> IF n > 0 THEN "copy" ELSE "exit", remain |-> r.remain, actual |-> 0,
              head |-> head, n |-> n, out |-> r.out]
    BY <1>0, <1>10 DEF ReadLoadHead, ReaderType
  <2>2. n \in Int /\ n <= r.remain
    BY <1>0 DEF ReaderType, Least
  <2> HIDE DEF n
  <2>3. ReaderType' /\ r'.pc # "wait"
    BY <1>0, <2>1, <2>2 DEF ReaderType, RPcs
  <2> QED
    BY <1>0, <1>a, <1>4, <1>10, <2>3 DEF ReadLoadHead, ring
<1>11. CASE ReadCopy
  <2>1. r' = [pc |-> "store", remain |-> r.remain, actual |-> r.actual, head |-> r.head,
              n |-> r.n, out |-> [i \in 1..r.n |-> buf[Advance(r.head, i - 1)]]]
    BY <1>0, <1>11 DEF ReadCopy, ReaderType
  <2>2. ReaderType' /\ r'.pc # "wait"
    BY <1>0, <1>11, <2>1 DEF ReaderType, RPcs, ReadCopy
  <2> QED
    BY <1>0, <1>a, <1>4, <1>11, <2>2 DEF ReadCopy, ring
<1>12. CASE ReadStoreHead
  <2>1. ReaderType' /\ r'.pc # "wait"
    BY <1>0, <1>12, RStepFields DEF RPcs, ReadStoreHead
  <2> QED
    BY <1>0, <1>a, <1>4, <1>12, <2>1 DEF ReadStoreHead, ring
<1>13. CASE ReadSubActual
  <2>1. r' = [pc |-> "exit", remain |-> r.remain, actual |-> r.actual, head |-> r.head,
              n |-> r.n, out |-> <<>>]
    BY <1>0, <1>13 DEF ReadSubActual, ReaderType
  <2>2. ReaderType' /\ r'.pc # "wait"
    BY <1>0, <1>13, <2>1 DEF ReaderType, RPcs, ReadSubActual
  <2>3. actual' = actual - r.n /\ r.n \in Int /\ r.n > 0
    BY <1>0, <1>13 DEF ReadSubActual, ReaderType
  <2>4. actual' \in Int /\ actual' <= actual
    BY <1>0, <2>3
  <2> QED
    BY <1>4, <2>2, <2>4
<1>14. CASE ReadExit
  <2>1. \/ r' = RIdle
        \/ r' = [pc |-> "check", remain |-> r.remain - r.n, actual |-> 0, head |-> 0,
                 n |-> 0, out |-> <<>>]
    BY <1>14 DEF ReadExit, RIdle
  <2>a. r.remain - r.n \in Nat
    BY <1>0, <1>14 DEF ReaderType, ReadExit
  <2>2. ReaderType' /\ r'.pc # "wait"
    BY <2>1, <2>a DEF ReaderType, RIdle, RPcs
  <2> QED
    BY <1>0, <1>a, <1>4, <1>14, <2>2 DEF ReadExit, ring
<1> QED
  BY <1>5, <1>6, <1>7, <1>8, <1>9, <1>10, <1>11, <1>12, <1>13, <1>14 DEF Reader

(* Reception is started only when it was stopped, and a stop wakes.        *)
LEMMA ControlWakes ==
    ASSUME WakeInv, StartIoctl \/ StopIoctl \/ Close \/ Control \/ GroupDestroy
    PROVE  WakeInv'
<1>0. /\ WriterType /\ ReaderType /\ state \in 0..2 /\ actual \in Int /\ c \in CPcs
      /\ wsize \in 0..(Threshold - 1)
  BY DEF WakeInv, TypeInv, SleepInv
<1>1. /\ w' = w /\ r' = r
      /\ actual' = actual \/ (actual' = 0 /\ c = "actual")
      /\ wsize' = wsize \/ (wsize' = 0 /\ ~streaming)
  BY DEF StartIoctl, StopIoctl, Close, Control, GroupDestroy, ResetLock, ResetActual,
         ResetHead, ResetTail, RingStart, RingStop, ring, CStep
<1>b. ~woken' => ~woken
  <2>1. UNCHANGED woken \/ WakeReader
    BY DEF StartIoctl, StopIoctl, Close, Control, GroupDestroy, ResetLock, ResetActual,
           ResetHead, ResetTail, RingStart, RingStop
  <2> QED
    BY <2>1, Zenon DEF WakeReader
<1>2. WriterType' /\ ReaderType' /\ Uncounted' = Uncounted
  BY <1>0, <1>1 DEF WriterType, ReaderType, Uncounted
<1>3. actual' \in Int /\ (actual' <= actual \/ actual' = 0)
  BY <1>0, <1>1
<1>4. RoomInv'
  BY <1>1, <1>3, RoomStays
<1>5. wsize' \in 0..(Threshold - 1)
  BY <1>0, <1>1, SizeFacts
<1>6. CASE RingStart
  <2>1. /\ c = "start" /\ c' = "idle" /\ state' = 1 /\ streaming' /\ actual' = actual
        /\ wsize' = wsize /\ woken' = woken
    BY <1>6 DEF RingStart, CStep, ring
  <2>2. ~(r.pc = "wait" /\ ~woken)
    BY <2>1 DEF WakeInv, StateInv, SleepInv, Starting
  <2>3. TypeInv'
    BY <1>2, <1>3, <2>1 DEF TypeInv, CPcs
  <2>4. StateInv' /\ SleepInv'
    BY <1>1, <1>5, <2>1, <2>2 DEF StateInv, SleepInv, Starting
  <2> QED
    BY <1>4, <2>3, <2>4 DEF WakeInv
<1>7. CASE RingStop
  <2>1. c' = "idle" /\ state' = 0 /\ streaming' = FALSE /\ woken' = (woken \/ r.pc = "wait")
    BY <1>7 DEF RingStop, WakeReader
  <2>2. TypeInv'
    BY <1>2, <1>3, <2>1 DEF TypeInv, CPcs
  <2>3. StateInv' /\ SleepInv'
    BY <1>1, <1>5, <2>1 DEF StateInv, SleepInv, Starting
  <2> QED
    BY <1>4, <2>2, <2>3 DEF WakeInv
<1>8. CASE ~RingStart /\ ~RingStop
  <2>1. /\ state' = state /\ streaming' = streaming /\ c' \in CPcs
        /\ c' \in Starting => c \in Starting \/ ~streaming
    BY <1>0, <1>8 DEF StartIoctl, StopIoctl, Close, Control, GroupDestroy, ResetLock, ResetActual,
         ResetHead, ResetTail, CStep, CPcs, Starting
  <2>2. TypeInv'
    BY <1>0, <1>2, <1>3, <2>1 DEF TypeInv
  <2>3. StateInv'
    BY <2>1 DEF WakeInv, StateInv
  <2>4. SleepInv'
    <3> SUFFICES ASSUME r'.pc = "wait", ~woken'
                 PROVE  state' # 0 /\ actual' <= wsize' + Uncounted'
      BY <1>5 DEF SleepInv
    <3>1. r.pc = "wait" /\ ~woken
      BY <1>1, <1>b
    <3>2. state # 0 /\ actual <= wsize + Uncounted
      BY <3>1 DEF WakeInv, SleepInv
    <3>3. streaming /\ c \notin Starting
      BY <3>2 DEF WakeInv, StateInv
    <3>4. actual' = actual /\ wsize' = wsize
      BY <1>1, <3>3 DEF Starting
    <3> QED
      BY <1>2, <2>1, <3>2, <3>4
  <2> QED
    BY <1>4, <2>2, <2>3, <2>4 DEF WakeInv
<1> QED
  BY <1>6, <1>7, <1>8

(* Every step keeps what the wake-ups rest on, whatever else runs.         *)
LEMMA WakeKeeps ==
    ASSUME WakeInv, [Next]_vars
    PROVE  WakeInv'
<1>1. CASE UNCHANGED vars
  BY <1>1 DEF vars, ring, WakeInv, TypeInv, WriterType, ReaderType, StateInv, RoomInv,
              SleepInv, Uncounted
<1> QED
  BY <1>1, WriterWakes, ReaderWakes, ControlWakes DEF Next

(* No reader sleeps over a threshold's worth of data, however the          *)
(* application starts and stops and whoever else uses the unit.            *)
THEOREM NoReaderSleepsOverData == Spec => []NoSleepOverData
<1>1. Init => WakeInv
  BY WakeInit
<1>2. WakeInv /\ [Next]_vars => WakeInv'
  BY WakeKeeps
<1>3. WakeInv => NoSleepOverData
  <2> SUFFICES ASSUME WakeInv, r.pc = "wait", ~woken, w.pc = "idle"
               PROVE  actual < Threshold
    BY DEF NoSleepOverData
  <2>1. Uncounted = 0
    BY DEF Uncounted
  <2>2. wsize \in Int /\ wsize < Threshold /\ actual \in Int
    BY SizeFacts DEF WakeInv, SleepInv, TypeInv
  <2>3. actual <= wsize + 0
    BY <2>1 DEF WakeInv, SleepInv
  <2> QED
    BY <2>2, <2>3, SizeFacts
<1> QED
  BY <1>1, <1>2, <1>3, PTL DEF Spec

-----------------------------------------------------------------------------
(* Going round the buffer: the place n slots after i.                      *)
LEMMA AdvanceType ==
    ASSUME NEW i \in Slots, NEW n \in 0..Size
    PROVE  Advance(i, n) \in Slots
BY SizeFacts DEF Slots, Advance

(* Two advances are one.                                                   *)
LEMMA AdvanceSum ==
    ASSUME NEW i \in Slots, NEW m \in 0..Size, NEW n \in 0..Size, m + n <= Size
    PROVE  Advance(Advance(i, m), n) = Advance(i, m + n)
BY SizeFacts DEF Slots, Advance

(* Less than a full round apart, two places differ.                        *)
LEMMA AdvanceApart ==
    ASSUME NEW i \in Slots, NEW m \in 0..(Size - 1), NEW n \in 0..(Size - 1), m # n
    PROVE  Advance(i, m) # Advance(i, n)
BY SizeFacts DEF Slots, Advance

(* How far a place is from where an advance began.                         *)
LEMMA AdvanceBack ==
    ASSUME NEW i \in Slots, NEW n \in 0..(Size - 1)
    PROVE  (IF Advance(i, n) >= i THEN Advance(i, n) - i ELSE Advance(i, n) - i + Size) = n
BY SizeFacts DEF Slots, Advance

(* Nobody is inside the buffer when it is reset.                           *)
LEMMA Alone ==
    ASSUME WakeInv, QueueInv
    PROVE  c \in Starting => w.pc = "idle" /\ r.pc = "idle"
BY DEF WakeInv, StateInv, QueueInv, AloneInv

(* Where the data lies while the writer or the reader is at work.          *)
LEMMA DataFacts ==
    ASSUME WakeInv, QueueInv
    PROVE  /\ actual \in 0..Size /\ First \in Slots /\ Last \in Slots
           /\ w.pc # "idle" \/ r.pc # "idle" => Last = Advance(First, actual)
<1>1. actual \in 0..Size
  BY SizeFacts DEF WakeInv, TypeInv, RoomInv, QueueInv, RingInv
<1>2. First \in Slots
  BY DEF QueueInv, RingInv, ReaderInv, First
<1>3. Last \in Slots
  BY DEF QueueInv, RingInv, WriterInv, Last
<1>4. w.pc # "idle" \/ r.pc # "idle" => Last = Advance(First, actual)
  BY Alone DEF QueueInv, RingInv, Starting
<1> QED
  BY <1>1, <1>2, <1>3, <1>4

(* memcpy() into the buffer puts the chunk behind the data and leaves the  *)
(* data alone, wrapped or not.                                             *)
LEMMA CopyPlaces ==
    ASSUME WakeInv, QueueInv, WriteCopy
    PROVE  /\ buf' = [i \in Slots |-> buf'[i]]
           /\ \A j \in 0..(w.n - 1) : buf'[Advance(w.tail, j)] = w.data[j + 1]
           /\ \A j \in 0..(actual - 1) : buf'[Advance(First, j)] = buf[Advance(First, j)]
<1>1. /\ w.pc = "copy" /\ w.tail = tail /\ tail \in Slots /\ Last = tail
      /\ w.n \in Nat /\ actual + w.n <= Size /\ actual \in 0..Size /\ w.n > 0
      /\ DOMAIN buf = Slots /\ First \in Slots
      /\ w.tail = Advance(First, actual)
  <2>1. w.pc = "copy"
    BY DEF WriteCopy, WStep
  <2>2. w.tail = tail /\ tail \in Slots /\ Last = tail /\ DOMAIN buf = Slots
    BY <2>1 DEF QueueInv, WriterInv, RingInv, Last
  <2>3. w.n \in Nat /\ actual + w.n <= Size /\ w.n > 0
    BY <2>1, SizeFacts DEF WakeInv, TypeInv, WriterType, RoomInv
  <2> QED
    BY <2>1, <2>2, <2>3, DataFacts
<1>2. buf' = [i \in Slots |->
                IF i \in WriteSlots
                THEN w.data[1 + (IF i >= w.tail THEN i - w.tail ELSE i - w.tail + Size)]
                ELSE buf[i]]
  BY <1>1 DEF WriteCopy
<1>3. buf' = [i \in Slots |-> buf'[i]]
  BY <1>2
<1>4. ASSUME NEW j \in 0..(w.n - 1)
      PROVE  buf'[Advance(w.tail, j)] = w.data[j + 1]
  <2>1. j \in 0..(Size - 1) /\ j \in 0..Size /\ j + 1 = 1 + j
    BY <1>1, <1>4, SizeFacts
  <2>2. Advance(w.tail, j) \in Slots
    BY <1>1, <2>1, AdvanceType
  <2>3. (IF Advance(w.tail, j) >= w.tail THEN Advance(w.tail, j) - w.tail
                                         ELSE Advance(w.tail, j) - w.tail + Size) = j
    BY <1>1, <2>1, AdvanceBack
  <2>4. Advance(w.tail, j) \in WriteSlots
    BY DEF WriteSlots
  <2> QED
    BY <1>2, <2>1, <2>2, <2>3, <2>4
<1>5. ASSUME NEW j \in 0..(actual - 1)
      PROVE  buf'[Advance(First, j)] = buf[Advance(First, j)]
  <2>1. j \in 0..(Size - 1) /\ j \in 0..Size
    BY <1>1, <1>5, SizeFacts
  <2>2. Advance(First, j) \in Slots
    BY <1>1, <2>1, AdvanceType
  <2>3. ASSUME NEW k \in 0..(w.n - 1) PROVE Advance(w.tail, k) # Advance(First, j)
    <3>1. /\ k \in 0..Size /\ actual + k <= Size /\ actual + k \in 0..(Size - 1)
          /\ actual + k # j
      BY <1>1, <1>5, <2>3, SizeFacts
    <3>2. Advance(w.tail, k) = Advance(First, actual + k)
      BY <1>1, <3>1, AdvanceSum
    <3>3. Advance(First, actual + k) # Advance(First, j)
      BY <1>1, <2>1, <3>1, AdvanceApart
    <3> QED
      BY <3>2, <3>3
  <2>4. Advance(First, j) \notin WriteSlots
    BY <2>3 DEF WriteSlots
  <2> QED
    BY <1>2, <2>2, <2>4
<1> QED
  BY <1>3, <1>4, <1>5

-----------------------------------------------------------------------------
(* The initial states satisfy what the queue rests on.                     *)
LEMMA QueueInit == Init => QueueInv
<1> SUFFICES ASSUME Init PROVE QueueInv
  OBVIOUS
<1>1. w.pc = "idle" /\ r.pc = "idle" /\ c = "idle" /\ got = <<>>
  BY DEF Init, WIdle, RIdle
<1>2. AloneInv
  BY <1>1 DEF Init, AloneInv, Starting, InWrite, InRead, One
<1>3. RingInv
  <2>1. 0 \in Slots /\ Advance(0, 0) = 0
    BY SizeFacts DEF Slots, Advance
  <2>2. head = 0 /\ tail = 0 /\ actual = 0 /\ First = 0 /\ Last = 0
    BY <1>1 DEF Init, First, Last
  <2>3. buf = [i \in Slots |-> buf[i]]
    BY DEF Init, Slots
  <2> QED
    BY <1>1, <2>1, <2>2, <2>3 DEF RingInv
<1>4. WriterInv /\ ReaderInv
  BY <1>1 DEF WriterInv, ReaderInv
<1> QED
  BY <1>2, <1>3, <1>4 DEF QueueInv

(* The writer leaves the reader and the control thread as they are.        *)
LEMMA WriterAlone ==
    ASSUME WakeInv, QueueInv, OneReceiver, Writer
    PROVE  /\ AloneInv' /\ w'.pc \in WPcs
           /\ c \notin {"lock", "actual", "head", "tail", "start", "stop", "close"}
           /\ UNCHANGED <<state, streaming, capture, c, r, head, got>>
<1>1. UNCHANGED <<state, streaming, capture, c, r, head, got>>
  BY DEF Writer, WriteCheck, WriteEnter, WriteLoadActual, WriteLoadTail, WriteCopy,
         WriteStoreTail, WriteAddActual, WriteExit, WriteAccount, WStep, ring
<1>2. WriterType /\ rw_count \in Int
  BY DEF WakeInv, TypeInv, QueueInv, AloneInv, One
<1>3. state = 2 \/ w.pc # "idle"
  BY DEF Writer, WriteCheck, WriteEnter, WriteLoadActual, WriteLoadTail, WriteCopy,
         WriteStoreTail, WriteAddActual, WriteExit, WriteAccount, WStep
<1>4. w.pc = "idle" => capture
  BY DEF OneReceiver, Writer, WriteCheck, WriteEnter, WriteLoadActual, WriteLoadTail, WriteCopy,
         WriteStoreTail, WriteAddActual, WriteExit, WriteAccount, WStep
<1>5. streaming /\ c \notin Starting
  BY <1>3 DEF WakeInv, StateInv, QueueInv, AloneInv
<1>6. c \notin {"stop", "close"}
  BY <1>4 DEF QueueInv, AloneInv
<1>7. /\ w'.pc \in WPcs
      /\ rw_count' = rw_count + One(w'.pc \in InWrite) - One(w.pc \in InWrite)
  <2>1. CASE WriteEnter
    BY <1>2, <2>1, WStepFields DEF WriteEnter, WPcs, InWrite, One
  <2>2. CASE WriteExit
    BY <1>2, <2>2, WStepFields DEF WriteExit, WPcs, InWrite, One
  <2>3. CASE ~WriteEnter /\ ~WriteExit
    <3>1. rw_count' = rw_count
      BY <2>3 DEF Writer, WriteCheck, WriteLoadActual, WriteLoadTail, WriteCopy,
             WriteStoreTail, WriteAddActual, WriteAccount, ring
    <3>2. w'.pc \in WPcs /\ (w'.pc \in InWrite <=> w.pc \in InWrite)
      <4>1. CASE WriteCheck
        BY <4>1 DEF WriteCheck, WIdle, WPcs, InWrite
      <4>2. CASE WriteLoadActual
        BY <1>2, <4>2 DEF WriteLoadActual, WriterType, WPcs, InWrite
      <4>3. CASE WriteLoadTail
        BY <1>2, <4>3 DEF WriteLoadTail, WriterType, WPcs, InWrite
      <4>4. CASE WriteCopy \/ WriteStoreTail \/ WriteAddActual
        BY <1>2, <4>4, WStepFields DEF WriteCopy, WriteStoreTail, WriteAddActual, WPcs, InWrite
      <4>5. CASE WriteAccount
        BY <4>5 DEF WriteAccount, WIdle, WPcs, InWrite
      <4> QED
        BY <2>3, <4>1, <4>2, <4>3, <4>4, <4>5 DEF Writer
    <3> QED
      BY <1>2, <3>1, <3>2 DEF One
  <2> QED
    BY <2>1, <2>2, <2>3
<1>8. rw_count' = One(w'.pc \in InWrite) + One(r'.pc \in InRead)
  <2>1. rw_count = One(w.pc \in InWrite) + One(r.pc \in InRead)
    BY DEF QueueInv, AloneInv
  <2> QED
    BY <1>1, <1>7, <2>1 DEF One
<1> QED
  BY <1>1, <1>5, <1>6, <1>7, <1>8 DEF AloneInv, Starting

(* The writer puts its chunk between tail and head.                        *)
LEMMA WriterQueues ==
    ASSUME WakeInv, WakeInv', QueueInv, OneReceiver, Writer
    PROVE  QueueInv'
<1>1. /\ AloneInv' /\ c \notin {"head", "tail", "start"}
      /\ UNCHANGED <<state, c, r, head, got>>
  BY WriterAlone
<1>2. WriterType /\ actual \in 0..Size /\ First \in Slots /\ tail \in Slots /\ head \in Slots
  BY DataFacts DEF WakeInv, TypeInv, QueueInv, RingInv
<1>3. First' = First /\ actual >= 0
  BY <1>1, <1>2, SizeFacts DEF First
<1>4. Last = Advance(First, actual)
  BY <1>1 DEF QueueInv, RingInv
<1>5. CASE WriteCheck \/ WriteEnter \/ WriteExit \/ WriteAccount
  <2>1. /\ UNCHANGED <<actual, tail, buf>>
        /\ w.pc \in {"idle", "enter", "exit", "account"}
        /\ w'.pc \in {"idle", "enter", "actual", "account"}
    <3>1. CASE WriteCheck
      BY <3>1 DEF WriteCheck, WIdle, ring
    <3>3. CASE WriteAccount
      BY <3>3 DEF WriteAccount, WIdle, ring
    <3>2. CASE WriteEnter \/ WriteExit
      BY <1>2, <3>2, WStepFields DEF WriteEnter, WriteExit, WPcs
    <3> QED
      BY <1>5, <3>1, <3>2, <3>3
  <2>2. Last' = Last
    BY <2>1 DEF Last
  <2>3. RingInv'
    BY <1>1, <1>2, <1>3, <1>4, <2>1, <2>2 DEF QueueInv, RingInv
  <2>4. WriterInv' /\ ReaderInv'
    BY <1>1, <2>1 DEF QueueInv, WriterInv, ReaderInv
  <2> QED
    BY <1>1, <2>3, <2>4 DEF QueueInv
<1>6. CASE WriteLoadActual
  <2>1. /\ w' = [pc |-> "tail", data |-> w.data, actual |-> actual, tail |-> w.tail, n |-> w.n]
        /\ w.pc = "actual" /\ UNCHANGED <<actual, tail, buf>>
    BY <1>2, <1>6 DEF WriteLoadActual, WriterType, ring
  <2>2. Last' = Last
    BY <2>1 DEF Last
  <2>3. RingInv'
    BY <1>1, <1>2, <1>3, <1>4, <2>1, <2>2 DEF QueueInv, RingInv
  <2>4. WriterInv' /\ ReaderInv'
    BY <1>1, <1>2, <2>1, SizeFacts DEF QueueInv, WriterInv, ReaderInv
  <2> QED
    BY <1>1, <2>3, <2>4 DEF QueueInv
<1>7. CASE WriteLoadTail
  <2> DEFINE n == Least(Len(w.data), Size - w.actual)
  <2>1. /\ w' = [pc |-> IF n > 0 THEN "copy" ELSE "exit", data |-> w.data, actual |-> 0,
                 tail |-> tail, n |-> n]
        /\ w.pc = "tail" /\ UNCHANGED <<actual, tail, buf>>
        /\ w.data \in Chunks
    BY <1>2, <1>7 DEF WriteLoadTail, WriterType, ring
  <2>2. n <= Len(w.data)
    BY <1>2, <2>1, ChunkFacts, SizeFacts DEF Least, WriterType
  <2> HIDE DEF n
  <2>3. Last' = Last
    BY <2>1 DEF Last
  <2>4. RingInv'
    BY <1>1, <1>2, <1>3, <1>4, <2>1, <2>3 DEF QueueInv, RingInv
  <2>5. WriterInv' /\ ReaderInv'
    BY <1>1, <2>1, <2>2 DEF QueueInv, WriterInv, ReaderInv
  <2> QED
    BY <1>1, <2>4, <2>5 DEF QueueInv
<1>8. CASE WriteCopy
  <2>1. /\ w.pc = "copy" /\ w'.pc = "store" /\ UNCHANGED <<actual, tail>>
        /\ w'.n = w.n /\ w'.tail = w.tail /\ w'.data = w.data
    BY <1>2, <1>8, WStepFields DEF WriteCopy, WPcs
  <2>2. /\ buf' = [i \in Slots |-> buf'[i]]
        /\ \A j \in 0..(w.n - 1) : buf'[Advance(w.tail, j)] = w.data[j + 1]
        /\ \A j \in 0..(actual - 1) : buf'[Advance(First, j)] = buf[Advance(First, j)]
    BY <1>8, CopyPlaces
  <2>3. Last' = Last
    BY <2>1 DEF Last
  <2>4. RingInv'
    BY <1>1, <1>2, <1>3, <1>4, <2>1, <2>2, <2>3 DEF QueueInv, RingInv
  <2>5. WriterInv'
    BY <2>1, <2>2 DEF QueueInv, WriterInv
  <2>6. ReaderInv'
    <3>1. r.pc \in {"store", "sub"} =>
            [i \in 1..r.n |-> buf'[Advance(r.head, i - 1)]]
              = [i \in 1..r.n |-> buf[Advance(r.head, i - 1)]]
      <4> SUFFICES ASSUME r.pc \in {"store", "sub"}, NEW i \in 1..r.n
                   PROVE  buf'[Advance(r.head, i - 1)] = buf[Advance(r.head, i - 1)]
        OBVIOUS
      <4>1. r.head = First /\ r.n <= actual /\ r.n \in Int
        BY DEF QueueInv, ReaderInv, First, WakeInv, TypeInv, ReaderType
      <4>2. i - 1 \in 0..(actual - 1)
        BY <1>2, <4>1, SizeFacts
      <4> QED
        BY <2>2, <4>1, <4>2
    <3> QED
      BY <1>1, <2>1, <3>1 DEF QueueInv, ReaderInv
  <2> QED
    BY <1>1, <2>4, <2>5, <2>6 DEF QueueInv
<1>9. CASE WriteStoreTail
  <2>1. /\ w.pc = "store" /\ w'.pc = "add" /\ UNCHANGED <<actual, buf>>
        /\ w'.n = w.n /\ w'.tail = w.tail /\ w'.data = w.data
        /\ tail' = Advance(w.tail, w.n)
    BY <1>2, <1>9, WStepFields DEF WriteStoreTail, WPcs
  <2>2. w.tail = tail /\ w.n \in 0..Size
    BY <1>2, <2>1, SizeFacts DEF QueueInv, WriterInv, WriterType
  <2>3. tail' \in Slots
    BY <1>2, <2>1, <2>2, AdvanceType
  <2>4. Last' = Last
    BY <2>1, <2>2 DEF Last
  <2>5. RingInv'
    BY <1>1, <1>2, <1>3, <1>4, <2>1, <2>3, <2>4 DEF QueueInv, RingInv
  <2>6. WriterInv' /\ ReaderInv'
    BY <1>1, <1>2, <2>1, <2>2 DEF QueueInv, WriterInv, ReaderInv
  <2> QED
    BY <1>1, <2>5, <2>6 DEF QueueInv
<1>10. CASE WriteAddActual
  <2>1. /\ w.pc = "add" /\ w'.pc = "exit" /\ UNCHANGED <<tail, buf>>
        /\ actual' = actual + w.n
    BY <1>2, <1>10, WStepFields DEF WriteAddActual, WPcs
  <2>2. w.n \in 0..Size /\ actual + w.n <= Size /\ tail = Advance(w.tail, w.n)
    BY <1>2, <2>1, SizeFacts DEF QueueInv, WriterInv, WriterType, WakeInv, RoomInv
  <2>3. Last' = Advance(First, actual + w.n)
    <3>1. Last' = tail /\ Last = w.tail
      BY <2>1 DEF Last
    <3>2. Advance(Advance(First, actual), w.n) = Advance(First, actual + w.n)
      BY <1>2, <2>2, AdvanceSum
    <3> QED
      BY <1>4, <2>2, <3>1, <3>2
  <2>4. actual' >= 0 /\ actual' >= actual
    BY <1>2, <2>1, <2>2, SizeFacts
  <2>5. RingInv'
    BY <1>1, <1>2, <1>3, <2>1, <2>3, <2>4 DEF QueueInv, RingInv
  <2>6. WriterInv'
    BY <2>1 DEF QueueInv, WriterInv
  <2>7. ReaderInv'
    <3>1. \A k \in Int : k <= actual => k <= actual'
      BY <1>2, <2>1, <2>2, SizeFacts
    <3>2. r.pc = "head" => r.actual \in 0..actual'
      BY <1>2, <2>1, <2>2, SizeFacts DEF QueueInv, ReaderInv
    <3>3. r.pc \in {"copy", "store", "sub"} => r.n <= actual'
      BY <3>1 DEF QueueInv, ReaderInv, WakeInv, TypeInv, ReaderType
    <3> QED
      BY <1>1, <2>1, <3>2, <3>3 DEF QueueInv, ReaderInv
  <2> QED
    BY <1>1, <2>5, <2>6, <2>7 DEF QueueInv
<1> QED
  BY <1>5, <1>6, <1>7, <1>8, <1>9, <1>10 DEF Writer

(* The reader leaves the writer and the control thread as they are.        *)
LEMMA ReaderAlone ==
    ASSUME WakeInv, WakeInv', QueueInv, OneReceiver, ReadBegin \/ Reader \/ ReadInterrupted
    PROVE  /\ AloneInv'
           /\ c \notin {"lock", "actual", "head", "tail", "start"}
           /\ UNCHANGED <<streaming, capture, c, w, tail, buf>>
<1>1. UNCHANGED <<streaming, capture, c, w, tail, buf>>
  BY DEF Reader, ReadBegin, ReadCheck, ReadWoken, ReadInterrupted, ReadEnter,
         ReadLoadActual, ReadLoadHead, ReadCopy, ReadStoreHead, ReadSubActual, ReadExit, ring
<1>2. ReaderType /\ rw_count \in Int
  BY DEF WakeInv, TypeInv, QueueInv, AloneInv, One
<1>3. r.pc # "idle" \/ c \notin Starting
  BY DEF OneReceiver, Reader, ReadBegin, ReadCheck, ReadWoken, ReadInterrupted, ReadEnter,
         ReadLoadActual, ReadLoadHead, ReadCopy, ReadStoreHead, ReadSubActual, ReadExit, RStep
<1>4. c \notin Starting
  BY <1>3 DEF QueueInv, AloneInv
<1>5. rw_count' = rw_count + One(r'.pc \in InRead) - One(r.pc \in InRead)
  <2>1. CASE ReadEnter
    BY <1>2, <2>1, RStepFields DEF ReadEnter, RPcs, InRead, One
  <2>2. CASE ReadExit
    <3>1. r.pc = "exit" /\ r'.pc \in {"idle", "check"} /\ rw_count' = rw_count - 1
      BY <2>2 DEF ReadExit, RIdle
    <3> QED
      BY <1>2, <3>1 DEF InRead, One
  <2>3. CASE ~ReadEnter /\ ~ReadExit
    <3>1. rw_count' = rw_count
      BY <2>3 DEF Reader, ReadBegin, ReadCheck, ReadWoken, ReadInterrupted,
         ReadLoadActual, ReadLoadHead, ReadCopy, ReadStoreHead, ReadSubActual, ring
    <3>2. r'.pc \in InRead <=> r.pc \in InRead
      <4>1. CASE ReadBegin
        BY <4>1 DEF ReadBegin, RIdle, InRead
      <4>5. CASE ReadInterrupted
        BY <4>5 DEF ReadInterrupted, RIdle, InRead
      <4>2. CASE ReadCheck
        BY <1>2, <4>2 DEF ReadCheck, ReaderType, InRead
      <4>3. CASE ReadWoken \/ ReadStoreHead
        BY <1>2, <4>3, RStepFields DEF ReadWoken, ReadStoreHead, RPcs, InRead
      <4>4. CASE ReadLoadActual \/ ReadLoadHead \/ ReadCopy \/ ReadSubActual
        BY <1>2, <4>4 DEF ReadLoadActual, ReadLoadHead, ReadCopy, ReadSubActual, ReaderType, InRead
      <4> QED
        BY <2>3, <4>1, <4>2, <4>3, <4>4, <4>5 DEF Reader
    <3> QED
      BY <1>2, <3>1, <3>2 DEF One
  <2> QED
    BY <2>1, <2>2, <2>3
<1>6. rw_count' = One(w'.pc \in InWrite) + One(r'.pc \in InRead)
  <2>1. rw_count = One(w.pc \in InWrite) + One(r.pc \in InRead)
    BY DEF QueueInv, AloneInv
  <2> QED
    BY <1>1, <1>5, <2>1 DEF One
<1> QED
  BY <1>1, <1>4, <1>6 DEF QueueInv, AloneInv, Starting

(* The reader takes the oldest data and gives its slots back afterwards.   *)
LEMMA ReaderQueues ==
    ASSUME WakeInv, WakeInv', QueueInv, OneReceiver, ReadBegin \/ Reader \/ ReadInterrupted
    PROVE  QueueInv'
<1>1. /\ AloneInv' /\ c \notin {"head", "tail", "start"}
      /\ UNCHANGED <<c, w, tail, buf>>
  BY ReaderAlone
<1>2. ReaderType /\ actual \in 0..Size /\ First \in Slots /\ tail \in Slots /\ head \in Slots
  BY DataFacts DEF WakeInv, TypeInv, QueueInv, RingInv
<1>3. Last' = Last /\ actual >= 0
  BY <1>1, <1>2, SizeFacts DEF Last
<1>4. Last = Advance(First, actual)
  BY <1>1 DEF QueueInv, RingInv
<1>5. ASSUME UNCHANGED actual, First' = First, head' \in Slots, ReaderInv'
      PROVE  QueueInv'
  <2>1. RingInv'
    BY <1>1, <1>2, <1>3, <1>4, <1>5 DEF QueueInv, RingInv
  <2>2. WriterInv'
    BY <1>1, <1>5 DEF QueueInv, WriterInv
  <2> QED
    BY <1>1, <1>5, <2>1, <2>2 DEF QueueInv
<1>6. ASSUME UNCHANGED <<actual, head>>, got' = <<>>,
             r'.pc \in {"idle", "check", "wait", "enter", "actual"}, r.pc # "sub"
      PROVE  QueueInv'
  <2>1. First' = First
    BY <1>6 DEF First
  <2>2. ReaderInv'
    BY <1>6 DEF ReaderInv
  <2> QED
    BY <1>2, <1>5, <1>6, <2>1, <2>2
<1>7. CASE ReadBegin \/ ReadInterrupted
  <2>1. /\ r.pc \in {"idle", "wait"} /\ r'.pc \in {"idle", "check"}
        /\ UNCHANGED <<actual, head, got>>
    <3>1. CASE ReadBegin
      BY <3>1 DEF ReadBegin, RIdle, ring
    <3>2. CASE ReadInterrupted
      BY <3>2 DEF ReadInterrupted, RIdle, ring
    <3> QED
      BY <1>7, <3>1, <3>2
  <2> QED
    BY <1>6, <2>1 DEF QueueInv, ReaderInv
<1>8. CASE ReadCheck
  <2>1. r.pc = "check" /\ r'.pc \in {"enter", "wait"} /\ UNCHANGED <<actual, head, got>>
    BY <1>2, <1>8 DEF ReadCheck, ReaderType, ring
  <2> QED
    BY <1>6, <2>1 DEF QueueInv, ReaderInv
<1>9. CASE ReadWoken \/ ReadEnter
  <2>1. /\ r.pc \in {"wait", "enter"} /\ r'.pc \in {"check", "actual"}
        /\ UNCHANGED <<actual, head, got>>
    BY <1>2, <1>9, RStepFields DEF ReadWoken, ReadEnter, RPcs, ring
  <2> QED
    BY <1>6, <2>1 DEF QueueInv, ReaderInv
<1>10. CASE ReadExit
  <2>1. r.pc = "exit" /\ r'.pc \in {"idle", "check"} /\ UNCHANGED <<actual, head>> /\ got' = <<>>
    BY <1>10 DEF ReadExit, RIdle
  <2> QED
    BY <1>6, <2>1
<1>11. CASE ReadLoadActual
  <2>1. /\ r' = [pc |-> "head", remain |-> r.remain, actual |-> actual, head |-> r.head,
                 n |-> r.n, out |-> r.out]
        /\ r.pc = "actual" /\ UNCHANGED <<actual, head, got>>
    BY <1>2, <1>11 DEF ReadLoadActual, ReaderType, ring
  <2>2. First' = First
    BY <2>1 DEF First
  <2>3. actual \in 0..actual
    BY <1>2, SizeFacts
  <2>4. ReaderInv'
    BY <2>1, <2>3 DEF QueueInv, ReaderInv
  <2> QED
    BY <1>2, <1>5, <2>1, <2>2, <2>4
<1>12. CASE ReadLoadHead
  <2> DEFINE n == Least(r.remain, r.actual)
  <2>1. /\ r' = [pc |-> IF n > 0 THEN "copy" ELSE "exit", remain |-> r.remain, actual |-> 0,
                 head |-> head, n |-> n, out |-> r.out]
        /\ r.pc = "head" /\ UNCHANGED <<actual, head, got>>
    BY <1>2, <1>12 DEF ReadLoadHead, ReaderType, ring
  <2>2. n <= actual
    <3>1. r.actual \in 0..actual /\ r.remain \in Nat
      BY <1>2, <2>1 DEF QueueInv, ReaderInv, ReaderType
    <3> QED
      BY <1>2, <3>1, SizeFacts DEF Least
  <2> HIDE DEF n
  <2>3. First' = First
    BY <2>1 DEF First
  <2>4. ReaderInv'
    BY <2>1, <2>2 DEF QueueInv, ReaderInv
  <2> QED
    BY <1>2, <1>5, <2>1, <2>3, <2>4
<1>13. CASE ReadCopy
  <2>1. /\ r' = [pc |-> "store", remain |-> r.remain, actual |-> r.actual, head |-> r.head,
                 n |-> r.n, out |-> [i \in 1..r.n |-> buf[Advance(r.head, i - 1)]]]
        /\ r.pc = "copy" /\ UNCHANGED <<actual, head, got>>
    BY <1>2, <1>13 DEF ReadCopy, ReaderType, ring
  <2>2. First' = First
    BY <2>1 DEF First
  <2>3. ReaderInv'
    BY <1>1, <2>1 DEF QueueInv, ReaderInv
  <2> QED
    BY <1>2, <1>5, <2>1, <2>2, <2>3
<1>14. CASE ReadStoreHead
  <2>1. /\ r.pc = "store" /\ r'.pc = "sub" /\ UNCHANGED <<actual, got>>
        /\ r'.n = r.n /\ r'.head = r.head /\ r'.out = r.out
        /\ head' = Advance(r.head, r.n)
    BY <1>2, <1>14, RStepFields DEF ReadStoreHead, RPcs
  <2>2. r.head = head /\ r.n \in 0..Size
    BY <1>2, <2>1, SizeFacts DEF QueueInv, ReaderInv, ReaderType
  <2>3. head' \in Slots /\ First' = First
    BY <1>2, <2>1, <2>2, AdvanceType DEF First
  <2>4. ReaderInv'
    BY <1>1, <1>2, <2>1, <2>2 DEF QueueInv, ReaderInv
  <2> QED
    BY <1>5, <2>1, <2>3, <2>4
<1>15. CASE ReadSubActual
  <2>1. /\ r.pc = "sub" /\ r'.pc = "exit" /\ UNCHANGED head
        /\ actual' = actual - r.n
    BY <1>2, <1>15 DEF ReadSubActual, ReaderType
  <2>2. /\ r.n \in Nat /\ r.n <= actual /\ head = Advance(r.head, r.n)
        /\ r.head = First
    BY <1>2, <2>1 DEF QueueInv, ReaderInv, ReaderType, First
  <2>3. actual' \in 0..Size /\ r.n \in 0..Size /\ r.n + actual' = actual /\ actual' <= actual
    BY <1>2, <2>1, <2>2, SizeFacts
  <2>4. Advance(First', actual') = Last
    <3>1. First' = Advance(First, r.n)
      BY <2>1, <2>2 DEF First
    <3>2. Advance(Advance(First, r.n), actual') = Advance(First, r.n + actual')
      BY <1>2, <2>3, SizeFacts, AdvanceSum
    <3> QED
      BY <1>4, <2>3, <3>1, <3>2
  <2>5. RingInv'
    <3>1. actual' >= 0
      BY <2>3, SizeFacts
    <3> QED
      BY <1>1, <1>2, <1>3, <2>1, <2>4, <3>1 DEF QueueInv, RingInv
  <2>6. WriterInv'
    <3>1. w.pc = "tail" => actual' <= w.actual
      BY <1>2, <2>3, SizeFacts DEF QueueInv, WriterInv, WakeInv, TypeInv, WriterType
    <3> QED
      BY <1>1, <3>1 DEF QueueInv, WriterInv
  <2>7. ReaderInv'
    BY <2>1 DEF ReaderInv
  <2> QED
    BY <1>1, <2>5, <2>6, <2>7 DEF QueueInv
<1> QED
  BY <1>7, <1>8, <1>9, <1>10, <1>11, <1>12, <1>13, <1>14, <1>15 DEF Reader

(* The control thread works on a buffer nobody is in.                      *)
LEMMA ControlQueues ==
    ASSUME WakeInv, WakeInv', QueueInv, OneReceiver,
           StartIoctl \/ StopIoctl \/ Close \/ Control \/ GroupDestroy
    PROVE  QueueInv'
<1>1. UNCHANGED <<w, r, buf, got, rw_count>>
  BY DEF StartIoctl, StopIoctl, Close, Control, GroupDestroy, ResetLock, ResetActual,
         ResetHead, ResetTail, RingStart, RingStop, ring
<1>2. AloneInv'
  <2>1. ~streaming' => w.pc = "idle"
    BY DEF StartIoctl, StopIoctl, Close, Control, GroupDestroy, ResetLock, ResetActual,
         ResetHead, ResetTail, RingStart, RingStop, QueueInv, AloneInv
  <2>2. c' \in {"stop", "close"} => w.pc = "idle" /\ ~capture'
    BY DEF StartIoctl, StopIoctl, Close, Control, GroupDestroy, ResetLock, ResetActual,
         ResetHead, ResetTail, RingStart, RingStop, CStep, OneReceiver, QueueInv, AloneInv
  <2>3. c' \in Starting => r.pc = "idle"
    BY DEF StartIoctl, StopIoctl, Close, Control, GroupDestroy, ResetLock, ResetActual,
         ResetHead, ResetTail, RingStart, RingStop, CStep, OneReceiver, QueueInv, AloneInv, Starting
  <2> QED
    BY <1>1, <2>1, <2>2, <2>3 DEF QueueInv, AloneInv
<1>3. 0 \in Slots /\ Advance(0, 0) = 0 /\ \A i \in Slots : Advance(i, 0) = i
  BY SizeFacts DEF Slots, Advance
<1>4. CASE ResetActual \/ ResetHead \/ ResetTail
  <2>1. w.pc = "idle" /\ r.pc = "idle" /\ First' = head' /\ Last' = tail'
    BY <1>1, <1>4, Alone DEF ResetActual, ResetHead, ResetTail, CStep, Starting, First, Last
  <2>2. WriterInv' /\ ReaderInv'
    BY <1>1, <2>1 DEF QueueInv, WriterInv, ReaderInv
  <2>3. RingInv'
    <3>1. CASE ResetActual
      BY <1>1, <1>3, <3>1 DEF ResetActual, CStep, QueueInv, RingInv
    <3>2. CASE ResetHead
      BY <1>1, <1>3, <3>2 DEF ResetHead, CStep, QueueInv, RingInv
    <3>3. CASE ResetTail
      BY <1>1, <1>3, <2>1, <3>3 DEF ResetTail, CStep, QueueInv, RingInv
    <3> QED
      BY <1>4, <3>1, <3>2, <3>3
  <2> QED
    BY <1>2, <2>2, <2>3 DEF QueueInv
<1>5. CASE ~(ResetActual \/ ResetHead \/ ResetTail)
  <2>1. UNCHANGED <<actual, head, tail>>
    BY <1>5 DEF StartIoctl, StopIoctl, Close, Control, GroupDestroy, ResetLock,
         RingStart, RingStop, ring
  <2>2. /\ c' \notin {"head", "tail", "start"} \/ c' = c
        /\ c \notin {"head", "tail"} \/ c' = c
    BY <1>5 DEF StartIoctl, StopIoctl, Close, Control, GroupDestroy, ResetLock,
         RingStart, RingStop, CStep
  <2>3. First' = First /\ Last' = Last
    BY <1>1, <2>1 DEF First, Last
  <2>4. RingInv'
    BY <1>1, <2>1, <2>2, <2>3 DEF QueueInv, RingInv
  <2>5. WriterInv' /\ ReaderInv'
    BY <1>1, <2>1 DEF QueueInv, WriterInv, ReaderInv
  <2> QED
    BY <1>2, <2>4, <2>5 DEF QueueInv
<1> QED
  BY <1>4, <1>5

-----------------------------------------------------------------------------
(* Every step, stuttering included, keeps the invariant.                   *)
LEMMA NextKeeps ==
    ASSUME IInv, [Next]_vars
    PROVE  IInv'
<1>1. WakeInv /\ WakeInv'
  BY WakeKeeps DEF IInv
<1>2. ASSUME OneReceiver PROVE QueueInv'
  <2>1. QueueInv
    BY <1>2 DEF IInv
  <2>2. CASE UNCHANGED vars
    <3>1. First' = First /\ Last' = Last
      BY <2>2 DEF vars, ring, First, Last
    <3>2. AloneInv' /\ WriterInv' /\ ReaderInv'
      BY <2>1, <2>2 DEF vars, ring, QueueInv, AloneInv, WriterInv, ReaderInv
    <3>3. RingInv'
      BY <2>1, <2>2, <3>1 DEF vars, ring, QueueInv, RingInv
    <3> QED
      BY <3>2, <3>3 DEF QueueInv
  <2> QED
    BY <1>1, <1>2, <2>1, <2>2, WriterQueues, ReaderQueues, ControlQueues DEF Next
<1> QED
  BY <1>1, <1>2 DEF IInv

(* The invariant holds in every reachable state.                           *)
THEOREM Invariance == Spec => []IInv
<1>1. Init => IInv
  BY WakeInit, QueueInit DEF IInv
<1>2. IInv /\ [Next]_vars => IInv'
  BY NextKeeps
<1> QED
  BY <1>1, <1>2, PTL DEF Spec

(* With one receiver that is started between reads, ringbuffer_reset()     *)
(* finds nobody inside the buffer.                                         *)
THEOREM ResetIsExclusive == ASSUME OneReceiver PROVE Spec => []ResetExclusive
<1>1. IInv => ResetExclusive
  <2> SUFFICES ASSUME IInv, c \in {"actual", "head", "tail"} PROVE rw_count = 0
    BY DEF ResetExclusive
  <2>1. w.pc = "idle" /\ r.pc = "idle"
    BY Alone DEF IInv, Starting
  <2> QED
    BY <2>1 DEF IInv, QueueInv, AloneInv, InWrite, InRead, One
<1> QED
  BY <1>1, Invariance, PTL

-----------------------------------------------------------------------------
(* The data in the buffer, when no slot of it is written.                  *)
LEMMA ContentsSame ==
    ASSUME actual \in Nat, actual' = actual, First' = First,
           \A j \in 0..(actual - 1) : buf'[Advance(First, j)] = buf[Advance(First, j)]
    PROVE  Contents' = Contents
<1>1. \A i \in 1..actual : buf'[Advance(First, i - 1)] = buf[Advance(First, i - 1)]
  BY SMT
<1> QED
  BY <1>1 DEF Contents

(* The data in the buffer is a sequence.                                   *)
LEMMA ContentsFacts ==
    ASSUME actual \in Nat
    PROVE  /\ Len(Contents) = actual
           /\ DOMAIN Contents = 1..actual
           /\ \A i \in 1..actual : Contents[i] = buf[Advance(First, i - 1)]
BY DEF Contents

(* The initial states are initial states of the queue.                     *)
LEMMA QueueBegins == Init => Queue!QInit
<1> SUFFICES ASSUME Init PROVE Queue!QInit
  OBVIOUS
<1>1. actual = 0 /\ w.pc = "idle" /\ got = <<>> /\ state = 0
  BY DEF Init, WIdle
<1>2. Contents = <<>>
  BY <1>1 DEF Contents
<1> QED
  BY <1>1, <1>2 DEF Queue!QInit, Offered

(* The writer offers a chunk, and what it adds to the count is accepted.   *)
LEMMA WriterRefines ==
    ASSUME WakeInv, WakeInv', QueueInv, OneReceiver, Writer
    PROVE  Queue!QNext \/ UNCHANGED Queue!qvars
<1>1. UNCHANGED <<state, r, head, got>>
  BY WriterAlone
<1>2. WriterType /\ actual \in 0..Size /\ actual \in Nat /\ First \in Slots
  BY DataFacts, SizeFacts DEF WakeInv, TypeInv
<1>3. First' = First
  BY <1>1 DEF First
<1>4. ASSUME UNCHANGED <<actual, buf>> PROVE Contents' = Contents
  BY <1>2, <1>3, <1>4, ContentsSame
<1>5. ASSUME Contents' = Contents, Offered' = Offered PROVE UNCHANGED Queue!qvars
  BY <1>1, <1>5 DEF Queue!qvars
<1>6. CASE WriteCheck
  <2>1. PICK d \in Chunks : w' = [pc |-> "enter", data |-> d, actual |-> 0, tail |-> 0, n |-> 0]
    BY <1>6 DEF WriteCheck, WIdle
  <2>2. w.pc = "idle" /\ state = 2 /\ Contents' = Contents
    BY <1>4, <1>6 DEF WriteCheck, ring
  <2>3. Offered = <<>> /\ Offered' = d
    BY <2>1, <2>2 DEF Offered
  <2>4. Queue!Offer
    BY <1>1, <2>1, <2>2, <2>3, ChunkFacts DEF Queue!Offer
  <2> QED
    BY <2>4 DEF Queue!QNext
<1>7. CASE WriteEnter \/ WriteExit \/ WriteStoreTail
  <2>1. /\ UNCHANGED <<actual, buf>> /\ w'.data = w.data
        /\ \/ w.pc = "enter" /\ w'.pc = "actual"
           \/ w.pc = "exit" /\ w'.pc = "account"
           \/ w.pc = "store" /\ w'.pc = "add"
    BY <1>2, <1>7, WStepFields DEF WriteEnter, WriteExit, WriteStoreTail, WPcs
  <2> QED
    BY <1>4, <1>5, <2>1 DEF Offered
<1>8. CASE WriteAccount
  BY <1>4, <1>5, <1>8 DEF WriteAccount, WIdle, Offered, ring
<1>9. CASE WriteLoadActual
  <2>1. w.pc = "actual" /\ w'.pc = "tail" /\ w'.data = w.data /\ UNCHANGED <<actual, buf>>
    BY <1>2, <1>9 DEF WriteLoadActual, WriterType, ring
  <2> QED
    BY <1>4, <1>5, <2>1 DEF Offered
<1>10. CASE WriteLoadTail
  <2>1. /\ w.pc = "tail" /\ w'.pc \in {"copy", "exit"} /\ w'.data = w.data
        /\ UNCHANGED <<actual, buf>> /\ w.data \in Chunks
    BY <1>2, <1>10 DEF WriteLoadTail, WriterType, ring
  <2>2. CASE w'.pc = "copy"
    BY <1>4, <1>5, <2>1, <2>2 DEF Offered
  <2>3. CASE w'.pc = "exit"
    <3>1. Offered = w.data /\ Offered' = <<>> /\ Contents' = Contents
      BY <1>4, <2>1, <2>3 DEF Offered
    <3>2. Offered # <<>> /\ 0 \in 0..Len(Offered) /\ SubSeq(Offered, 1, 0) = <<>>
      BY <2>1, <3>1, ChunkFacts
    <3>3. Contents \o <<>> = Contents /\ Len(Contents) <= Size
      BY <1>2, SizeFacts, ContentsFacts DEF Contents
    <3>4. Queue!Put
      BY <1>1, <3>1, <3>2, <3>3 DEF Queue!Put
    <3> QED
      BY <3>4 DEF Queue!QNext
  <2> QED
    BY <2>1, <2>2, <2>3
<1>11. CASE WriteCopy
  <2>1. w.pc = "copy" /\ w'.pc = "store" /\ w'.data = w.data /\ UNCHANGED actual
    BY <1>2, <1>11, WStepFields DEF WriteCopy, WPcs
  <2>2. Contents' = Contents
    BY <1>2, <1>3, <1>11, <2>1, CopyPlaces, ContentsSame
  <2> QED
    BY <1>5, <2>1, <2>2 DEF Offered
<1>12. CASE WriteAddActual
  <2>1. /\ w.pc = "add" /\ w'.pc = "exit" /\ w'.data = w.data /\ UNCHANGED buf
        /\ actual' = actual + w.n /\ w.data \in Chunks
    BY <1>2, <1>12, WStepFields DEF WriteAddActual, WPcs
  <2>2. Offered = w.data /\ Offered' = <<>>
    BY <2>1 DEF Offered
  <2>3. /\ w.n \in Nat /\ w.n > 0 /\ w.n <= Len(w.data) /\ actual + w.n <= Size
        /\ \A j \in 0..(w.n - 1) : buf[Advance(w.tail, j)] = w.data[j + 1]
        /\ w.tail = Advance(First, actual)
    <3>1. w.n \in Nat /\ w.n > 0 /\ actual + w.n <= Size
      BY <1>2, <2>1, SizeFacts DEF WriterType, WakeInv, RoomInv
    <3>2. /\ w.n <= Len(w.data)
          /\ \A j \in 0..(w.n - 1) : buf[Advance(w.tail, j)] = w.data[j + 1]
      BY <2>1 DEF QueueInv, WriterInv
    <3>3. w.tail = Advance(First, actual)
      BY <2>1, DataFacts DEF Last
    <3> QED
      BY <3>1, <3>2, <3>3
  <2>4. Contents' = Contents \o SubSeq(w.data, 1, w.n)
    <3> DEFINE part == SubSeq(w.data, 1, w.n)
               sum == Contents \o part
    <3>1. w.data \in Seq(Data) /\ Len(w.data) \in Nat
      BY <2>1, ChunkFacts
    <3>2. Len(part) = w.n /\ (\A i \in 1..w.n : part[i] = w.data[i]) /\ part \in Seq(Data)
      BY <2>3, <3>1
    <3>3. Len(Contents) = actual /\ (\A i \in 1..actual : Contents[i] = buf[Advance(First, i - 1)])
      BY <1>2, ContentsFacts
    <3>4. /\ sum = [i \in 1..(actual + w.n) |-> sum[i]]
          /\ \A i \in 1..(actual + w.n) : sum[i] = IF i <= actual THEN Contents[i] ELSE part[i - actual]
      BY <1>2, <2>3, <3>2, <3>3
    <3>5. ASSUME NEW i \in 1..(actual + w.n) PROVE sum[i] = buf[Advance(First, i - 1)]
      <4>1. CASE i <= actual
        BY <1>2, <3>3, <3>4, <4>1
      <4>2. CASE ~(i <= actual)
        <5>1. PICK j \in 0..(w.n - 1) : j = (i - 1) - actual
          BY <1>2, <2>3, <4>2
        <5>2. /\ j \in 0..Size /\ actual + j <= Size /\ actual + j = i - 1
              /\ i - actual = j + 1 /\ j + 1 \in 1..w.n
          BY <1>2, <2>3, <4>2, <5>1, SizeFacts
        <5>3. Advance(w.tail, j) = Advance(First, i - 1)
          <6>1. Advance(Advance(First, actual), j) = Advance(First, actual + j)
            BY <1>2, <5>2, AdvanceSum
          <6> QED
            BY <2>3, <5>2, <6>1
        <5>4. sum[i] = w.data[j + 1]
          BY <3>2, <3>4, <4>2, <5>2
        <5> QED
          BY <2>3, <5>3, <5>4
      <4> QED
        BY <4>1, <4>2
    <3>6. Contents' = [i \in 1..(actual + w.n) |-> buf[Advance(First, i - 1)]]
      BY <1>3, <2>1 DEF Contents
    <3> HIDE DEF sum
    <3>7. Contents' = sum
      BY <3>4, <3>5, <3>6
    <3> QED
      BY <3>7 DEF sum
  <2>5. Len(Contents') <= Size
    <3>1. actual' \in Nat /\ actual' <= Size
      BY <1>2, <2>1, <2>3
    <3>2. Len(Contents') = actual'
      BY <3>1 DEF Contents
    <3> QED
      BY <3>1, <3>2
  <2>6. w.n \in 0..Len(w.data) /\ w.data # <<>>
    BY <2>1, <2>3, ChunkFacts
  <2>7. Queue!Put
    BY <1>1, <2>2, <2>4, <2>5, <2>6 DEF Queue!Put
  <2> QED
    BY <2>7 DEF Queue!QNext
<1> QED
  BY <1>6, <1>7, <1>8, <1>9, <1>10, <1>11, <1>12 DEF Writer

(* A read takes the oldest data when it lowers the count.                  *)
LEMMA ReaderRefines ==
    ASSUME WakeInv, WakeInv', QueueInv, OneReceiver, ReadBegin \/ Reader \/ ReadInterrupted
    PROVE  Queue!QNext \/ UNCHANGED Queue!qvars
<1>1. UNCHANGED <<w, buf>> /\ Offered' = Offered
  BY ReaderAlone DEF Offered
<1>2. ReaderType /\ actual \in 0..Size /\ actual \in Nat /\ First \in Slots
  BY DataFacts, SizeFacts DEF WakeInv, TypeInv
<1>3. state' # 0 <=> state # 0
  <2>1. state' = state \/ (state = 1 /\ state' = 2)
    BY DEF Reader, ReadBegin, ReadCheck, ReadWoken, ReadInterrupted, ReadEnter,
         ReadLoadActual, ReadLoadHead, ReadCopy, ReadStoreHead, ReadSubActual, ReadExit
  <2> QED
    BY <2>1
<1>4. ASSUME UNCHANGED actual, First' = First PROVE Contents' = Contents
  BY <1>1, <1>2, <1>4, ContentsSame
<1>5. ASSUME UNCHANGED <<actual, got>>, First' = First PROVE UNCHANGED Queue!qvars
  BY <1>1, <1>3, <1>4, <1>5 DEF Queue!qvars
<1>6. CASE ReadBegin
  <2>1. r.pc = "idle" /\ r'.pc = "check" /\ UNCHANGED <<actual, head, got>>
    BY <1>6 DEF ReadBegin, RIdle, ring
  <2> QED
    BY <1>5, <2>1 DEF First
<1>7. CASE ReadInterrupted
  <2>1. r.pc = "wait" /\ r'.pc = "idle" /\ UNCHANGED <<actual, head, got>>
    BY <1>7 DEF ReadInterrupted, RIdle, ring
  <2> QED
    BY <1>5, <2>1 DEF First
<1>8. CASE ReadCheck
  <2>1. r.pc = "check" /\ r'.pc \in {"enter", "wait"} /\ UNCHANGED <<actual, head, got>>
    BY <1>2, <1>8 DEF ReadCheck, ReaderType, ring
  <2> QED
    BY <1>5, <2>1 DEF First
<1>9. CASE ReadWoken \/ ReadEnter
  <2>1. /\ r.pc \in {"wait", "enter"} /\ r'.pc \in {"check", "actual"}
        /\ UNCHANGED <<actual, head, got>>
    BY <1>2, <1>9, RStepFields DEF ReadWoken, ReadEnter, RPcs, ring
  <2> QED
    BY <1>5, <2>1 DEF First
<1>10. CASE ReadLoadActual \/ ReadLoadHead \/ ReadCopy
  <2>1. /\ r.pc \in {"actual", "head", "copy"} /\ r'.pc \in {"head", "copy", "exit", "store"}
        /\ UNCHANGED <<actual, head, got>>
    BY <1>2, <1>10 DEF ReadLoadActual, ReadLoadHead, ReadCopy, ReaderType, ring
  <2> QED
    BY <1>5, <2>1 DEF First
<1>11. CASE ReadStoreHead
  <2>1. r.pc = "store" /\ r'.pc = "sub" /\ r'.head = r.head /\ UNCHANGED <<actual, got>>
    BY <1>2, <1>11, RStepFields DEF ReadStoreHead, RPcs
  <2>2. r.head = head
    BY <2>1 DEF QueueInv, ReaderInv
  <2> QED
    BY <1>5, <2>1, <2>2 DEF First
<1>12. CASE ReadSubActual
  <2>1. /\ r.pc = "sub" /\ r'.pc = "exit" /\ UNCHANGED <<head, state>>
        /\ actual' = actual - r.n /\ got' = r.out
    BY <1>2, <1>12 DEF ReadSubActual, ReaderType
  <2>2. /\ r.n \in Nat /\ r.n > 0 /\ r.n <= actual
        /\ r.head = First /\ head = Advance(First, r.n)
        /\ r.out = [i \in 1..r.n |-> buf[Advance(First, i - 1)]]
        /\ got = <<>>
    BY <1>2, <2>1 DEF QueueInv, ReaderInv, ReaderType, First
  <2>3. /\ Len(Contents) = actual /\ DOMAIN Contents = 1..actual
        /\ \A i \in 1..actual : Contents[i] = buf[Advance(First, i - 1)]
    BY <1>2, ContentsFacts
  <2>4. First' = Advance(First, r.n)
    BY <2>1, <2>2 DEF First
  <2>5. SubSeq(Contents, 1, r.n) = [i \in 1..r.n |-> Contents[i]]
    <3>1. SubSeq(Contents, 1, r.n) = [i \in 1..(r.n - 1 + 1) |-> Contents[i + 1 - 1]]
      BY <2>2
    <3> QED
      BY <2>2, <3>1
  <2>6. got' = SubSeq(Contents, 1, r.n)
    <3>1. \A i \in 1..r.n : Contents[i] = buf[Advance(First, i - 1)]
      BY <1>2, <2>2, <2>3
    <3> QED
      BY <2>1, <2>2, <2>5, <3>1
  <2>7. Contents' = SubSeq(Contents, r.n + 1, actual)
    <3>1. actual' \in Nat
      BY <1>2, <2>1, <2>2
    <3>2. SubSeq(Contents, r.n + 1, actual) = [i \in 1..(actual - r.n) |-> Contents[i + r.n]]
      <4>1. SubSeq(Contents, r.n + 1, actual)
              = [i \in 1..(actual - (r.n + 1) + 1) |-> Contents[i + (r.n + 1) - 1]]
        BY <1>2, <2>2
      <4>2. actual - (r.n + 1) + 1 = actual - r.n /\ \A i \in Int : i + (r.n + 1) - 1 = i + r.n
        BY <1>2, <2>2
      <4> QED
        BY <4>1, <4>2
    <3>3. Contents' = [i \in 1..(actual - r.n) |-> buf[Advance(Advance(First, r.n), i - 1)]]
      BY <1>1, <2>1, <2>4 DEF Contents
    <3>4. ASSUME NEW i \in 1..(actual - r.n)
          PROVE  buf[Advance(Advance(First, r.n), i - 1)] = Contents[i + r.n]
      <4>1. /\ r.n \in 0..Size /\ i - 1 \in 0..Size /\ r.n + (i - 1) <= Size
            /\ i + r.n \in 1..actual /\ r.n + (i - 1) = (i + r.n) - 1
        BY <1>2, <2>2, <3>4, SizeFacts
      <4>2. Advance(Advance(First, r.n), i - 1) = Advance(First, r.n + (i - 1))
        BY <1>2, <4>1, AdvanceSum
      <4> QED
        BY <2>3, <4>1, <4>2
    <3> QED
      BY <3>2, <3>3, <3>4
  <2>8. r.n \in 1..Len(Contents)
    BY <1>2, <2>2, <2>3
  <2>9. Queue!Get
    BY <1>1, <2>1, <2>2, <2>3, <2>6, <2>7, <2>8 DEF Queue!Get
  <2> QED
    BY <2>9 DEF Queue!QNext
<1>13. CASE ReadExit
  <2>1. /\ r.pc = "exit" /\ r'.pc \in {"idle", "check"} /\ UNCHANGED <<actual, head, state>>
        /\ got' = <<>>
    BY <1>13 DEF ReadExit, RIdle
  <2>2. Contents' = Contents
    BY <1>4, <2>1 DEF First
  <2>3. got # <<>> => Queue!Return
    BY <1>1, <2>1, <2>2 DEF Queue!Return
  <2>4. got = <<>> => UNCHANGED Queue!qvars
    BY <1>1, <2>1, <2>2 DEF Queue!qvars
  <2> QED
    BY <2>3, <2>4 DEF Queue!QNext
<1> QED
  BY <1>6, <1>7, <1>8, <1>9, <1>10, <1>11, <1>12, <1>13 DEF Reader

(* The reset empties the queue, START turns it on and STOP off.            *)
LEMMA ControlRefines ==
    ASSUME WakeInv, WakeInv', QueueInv, OneReceiver,
           StartIoctl \/ StopIoctl \/ Close \/ Control \/ GroupDestroy
    PROVE  Queue!QNext \/ UNCHANGED Queue!qvars
<1>1. UNCHANGED <<w, r, buf, got>> /\ Offered' = Offered
  <2>1. UNCHANGED <<w, r, buf, got>>
    BY DEF StartIoctl, StopIoctl, Close, Control, GroupDestroy, ResetLock, ResetActual,
         ResetHead, ResetTail, RingStart, RingStop, ring
  <2> QED
    BY <2>1 DEF Offered
<1>2. actual \in Nat
  BY DataFacts, SizeFacts
<1>3. ASSUME UNCHANGED <<actual, head>> PROVE Contents' = Contents
  <2>1. First' = First
    BY <1>1, <1>3 DEF First
  <2> QED
    BY <1>1, <1>2, <1>3, <2>1, ContentsSame
<1>4. actual = 0 => Contents = <<>>
  BY DEF Contents
<1>5. actual' = 0 => Contents' = <<>>
  BY DEF Contents
<1>6. CASE ResetActual
  <2>1. c = "actual" /\ actual' = 0 /\ state' = state
    BY <1>6 DEF ResetActual, CStep
  <2>2. state = 0
    BY <2>1 DEF WakeInv, StateInv, Starting
  <2>3. Queue!Clear
    BY <1>1, <1>5, <2>1, <2>2 DEF Queue!Clear
  <2> QED
    BY <2>3 DEF Queue!QNext
<1>7. CASE ResetHead \/ ResetTail
  <2>1. c \in {"head", "tail"} /\ actual' = actual /\ state' = state
    BY <1>7 DEF ResetHead, ResetTail, CStep
  <2>2. actual = 0
    BY <2>1 DEF QueueInv, RingInv
  <2> QED
    BY <1>1, <1>4, <1>5, <2>1, <2>2 DEF Queue!qvars
<1>8. CASE RingStart
  <2>1. c = "start" /\ state' = 1 /\ UNCHANGED <<actual, head>>
    BY <1>8 DEF RingStart, CStep, ring
  <2>2. state = 0 /\ actual = 0
    BY <2>1 DEF WakeInv, StateInv, Starting, QueueInv, RingInv
  <2>3. Queue!Begin
    BY <1>1, <1>3, <1>4, <2>1, <2>2 DEF Queue!Begin
  <2> QED
    BY <2>3 DEF Queue!QNext
<1>9. CASE RingStop
  <2>1. state' = 0 /\ UNCHANGED <<actual, head>>
    BY <1>9 DEF RingStop, ring
  <2>2. state # 0 => Queue!End
    BY <1>1, <1>3, <2>1 DEF Queue!End
  <2>3. state = 0 => UNCHANGED Queue!qvars
    BY <1>1, <1>3, <2>1 DEF Queue!qvars
  <2> QED
    BY <2>2, <2>3 DEF Queue!QNext
<1>10. CASE StartIoctl \/ StopIoctl \/ Close \/ ResetLock \/ GroupDestroy
  <2>1. UNCHANGED <<state, actual, head>>
    BY <1>10 DEF StartIoctl, StopIoctl, Close, ResetLock, GroupDestroy, ring
  <2> QED
    BY <1>1, <1>3, <2>1 DEF Queue!qvars
<1> QED
  BY <1>6, <1>7, <1>8, <1>9, <1>10 DEF Control

(* The lock-free ring buffer implements the bounded queue of TsQueue: no   *)
(* packet that was accepted is lost, repeated, reordered or altered.       *)
THEOREM RingBufferIsQueue == ASSUME OneReceiver PROVE Spec => ImplementsQueue
<1>1. Init => Queue!QInit
  BY QueueBegins
<1>2. IInv /\ IInv' /\ [Next]_vars => [Queue!QNext]_(Queue!qvars)
  <2> SUFFICES ASSUME IInv, IInv', [Next]_vars
               PROVE  Queue!QNext \/ UNCHANGED Queue!qvars
    OBVIOUS
  <2>1. WakeInv /\ WakeInv' /\ QueueInv
    BY DEF IInv
  <2>2. CASE UNCHANGED vars
    BY <2>2 DEF vars, ring, Queue!qvars, Contents, First, Offered
  <2> QED
    BY <2>1, <2>2, WriterRefines, ReaderRefines, ControlRefines DEF Next
<1> QED
  BY <1>1, <1>2, Invariance, PTL DEF Spec, ImplementsQueue, Queue!QSpec

(***************************************************************************)
(*                    Packet synchronisation: TsSync                       *)
(***************************************************************************)
(* How far the stream has been handed out or given up.                     *)
Done == IF pc = "idle" THEN recv - held ELSE at

SyncTypeInv ==
    /\ scen \in Scenarios
    /\ recv \in Nat /\ held \in Nat /\ urb \in Nat /\ at \in Nat /\ lim \in Nat
    /\ pc \in {"idle", "scan", "emit"}
    /\ joined \in BOOLEAN
    /\ out \in Seq(Nat)

(* The kept bytes, and the region that is worked on.                       *)
RegionInv ==
    /\ held < SyncSize /\ held <= recv
    /\ pc # "idle" => /\ held = 0
                      /\ at <= lim /\ lim <= recv
                      /\ ~joined => lim = recv
                      /\ joined => urb <= lim /\ lim <= at + SyncSize

(* Packets are handed out in order and none beyond Done.                   *)
OutInv ==
    /\ \A i \in 1..Len(out) : /\ out[i] + PacketLen <= Done
                              /\ stream[out[i]] \in Variant.ids
    /\ \A i \in 1..(Len(out) - 1) : out[i] + PacketLen <= out[i + 1]

(* The bytes in remain_buf are handed out all or none: once its packets    *)
(* were found in sync they reach to its end, and until then no packet goes *)
(* beyond the start of the transfer.                                       *)
JoinInv ==
    /\ joined /\ pc = "scan" /\ at < lim =>
          \A i \in 1..Len(out) : out[i] + PacketLen <= urb
    /\ joined /\ pc = "emit" =>
          \E m \in Nat : at + m * PacketLen = lim /\ Run(at, m)

SyncInv == SyncTypeInv /\ RegionInv /\ OutInv /\ JoinInv

-----------------------------------------------------------------------------
(* Arithmetic of packets.                                                  *)

(* The lengths are positive numbers.                                       *)
LEMMA Sizes == PacketLen \in Nat /\ PacketLen > 0 /\ SyncCount \in Nat /\ SyncCount > 0
BY LengthAssumption

(* Whole packets, counted one by one.                                      *)
LEMMA Times ==
    ASSUME NEW a \in Nat
    PROVE  /\ a * PacketLen \in Nat
           /\ 0 * PacketLen = 0
           /\ 1 * PacketLen = PacketLen
           /\ (a + 1) * PacketLen = a * PacketLen + PacketLen
           /\ a <= a * PacketLen
BY Sizes

(* More packets take no fewer bytes.                                       *)
LEMMA TimesMonotone ==
    ASSUME NEW a \in Nat, NEW b \in Nat, a <= b
    PROVE  a * PacketLen <= b * PacketLen
<1>1. PICK d \in Nat : b = a + d
  BY b - a \in Nat
<1>2. b * PacketLen = a * PacketLen + d * PacketLen
  BY <1>1, Sizes
<1>3. a * PacketLen \in Nat /\ d * PacketLen \in Nat
  BY Times
<1> QED
  BY <1>2, <1>3

(* remain_buf has room for SyncCount packets.                              *)
LEMMA SyncSizeFacts ==
    SyncSize \in Nat /\ SyncSize = SyncCount * PacketLen /\ PacketLen <= SyncSize
<1>1. SyncSize = SyncCount * PacketLen
  BY Sizes DEF SyncSize
<1>2. 1 * PacketLen <= SyncCount * PacketLen
  BY Sizes, TimesMonotone
<1> QED
  BY <1>1, <1>2, Sizes, Times

(* A set of numbers that is not empty has a least element.                 *)
LEMMA LeastElement ==
    ASSUME NEW T, T \subseteq Nat, T # {}
    PROVE  \E x \in T : \A y \in T : x <= y
<1> DEFINE R == OpToRel(<, Nat)
<1>1. IsWellFoundedOn(R, Nat)
  BY NatLessThanWellFounded, Zenon
<1>2. \A a, b \in Nat : <<a, b>> \in R <=> a < b
  BY DEF OpToRel
<1> HIDE DEF R
<1>3. PICK x \in T : \A y \in T : ~(<<y, x>> \in R)
  BY <1>1, WFMin
<1>4. \A y \in T : ~(y < x)
  BY <1>2, <1>3
<1> QED
  BY <1>4

-----------------------------------------------------------------------------
(* What Run says: of no packet, of one, and of one more.                   *)
LEMMA RunFacts ==
    ASSUME SyncTypeInv, NEW p \in Nat, NEW m \in Nat
    PROVE  /\ Run(p, 0) <=> p <= lim
           /\ Run(p, 1) <=> (p + PacketLen <= lim /\ HasSync(p))
           /\ Run(p, m + 1) => Run(p, 1) /\ Run(p + PacketLen, m)
           /\ Run(p, m) => p + m * PacketLen <= lim
<1>1. lim \in Nat
  BY DEF SyncTypeInv
<1>2. Run(p, 0) <=> p <= lim
  <2>1. p + 0 * PacketLen = p /\ 0..(0 - 1) = {}
    BY Times
  <2> QED
    BY <2>1 DEF Run
<1>3. Run(p, 1) <=> (p + PacketLen <= lim /\ HasSync(p))
  <2>1. 0..(1 - 1) = {0} /\ p + 0 * PacketLen = p
    BY Times
  <2> QED
    BY <2>1, Times DEF Run
<1>4. ASSUME Run(p, m + 1) PROVE Run(p, 1) /\ Run(p + PacketLen, m)
  <2>1. p + (m + 1) * PacketLen <= lim
    BY <1>4 DEF Run
  <2>2. \A i \in 0..((m + 1) - 1) : HasSync(p + i * PacketLen)
    BY <1>4 DEF Run
  <2>3. HasSync(p)
    <3>1. 0 \in 0..((m + 1) - 1) /\ p + 0 * PacketLen = p
      BY Times
    <3> QED
      BY <2>2, <3>1
  <2>4. p + PacketLen + m * PacketLen <= lim /\ p + PacketLen <= lim
    BY <2>1, Times, Sizes, <1>1
  <2>5. ASSUME NEW i \in 0..(m - 1) PROVE HasSync(p + PacketLen + i * PacketLen)
    <3>1. i + 1 \in 0..((m + 1) - 1) /\ i \in Nat
      OBVIOUS
    <3>2. p + (i + 1) * PacketLen = p + PacketLen + i * PacketLen
      BY <3>1, Times, Sizes
    <3>3. HasSync(p + (i + 1) * PacketLen)
      BY <2>2, <3>1
    <3> QED
      BY <3>2, <3>3
  <2>6. Run(p + PacketLen, m)
    BY <2>4, <2>5 DEF Run
  <2> QED
    BY <1>3, <2>3, <2>4, <2>6
<1> QED
  BY <1>2, <1>3, <1>4 DEF Run

(* RunLength exists: the packets that follow one another end somewhere.    *)
LEMMA RunLengthExists ==
    ASSUME SyncTypeInv, at <= lim
    PROVE  RunLength \in Nat /\ Run(at, RunLength) /\ ~Run(at, RunLength + 1)
<1> DEFINE T == {n \in Nat : ~Run(at, n)}
<1>1. at \in Nat /\ lim \in Nat
  BY DEF SyncTypeInv
<1>2. T # {}
  <2>1. PICK e \in Nat : e = lim - at + 1
    BY <1>1
  <2>2. e <= e * PacketLen /\ e * PacketLen \in Nat
    BY <2>1, Times
  <2>3. ~Run(at, e)
    BY <1>1, <2>1, <2>2 DEF Run
  <2> QED
    BY <2>3
<1>3. PICK x \in T : \A y \in T : x <= y
  BY <1>2, LeastElement
<1>4. x # 0
  BY <1>1, <1>3, RunFacts
<1>5. PICK n \in Nat : x = n + 1
  BY <1>3, <1>4
<1>6. Run(at, n) /\ ~Run(at, n + 1)
  BY <1>3, <1>5
<1>7. n \in 0..(lim - at)
  <2>1. at + n * PacketLen <= lim
    BY <1>6 DEF Run
  <2> QED
    BY <1>1, <2>1, Times
<1>8. \E k \in 0..(lim - at) : Run(at, k) /\ ~Run(at, k + 1)
  BY <1>6, <1>7
<1>9. RunLength \in 0..(lim - at) /\ Run(at, RunLength) /\ ~Run(at, RunLength + 1)
  BY <1>8, Zenon DEF RunLength
<1> QED
  BY <1>1, <1>9

(* The plain families have one sync byte, and it names their receiver.     *)
LEMMA PlainSync ==
    ASSUME SyncTypeInv, ~Variant.tagged
    PROVE  Variant.sync = Variant.ids
<1>1. Variant \in Families
  BY ScenarioAssumption DEF SyncTypeInv, Variant
<1> QED
  BY <1>1 DEF Families, Px4Family, PxmltFamily, Isdb2056Family, Isdbt2071Family

-----------------------------------------------------------------------------
(* What a step does to the packets handed out, whatever it is.             *)

(* Nothing is handed out.                                                  *)
LEMMA OutKept ==
    ASSUME OutInv, out' = out, scen' = scen,
           \A i \in 1..Len(out) : out[i] + PacketLen <= Done'
    PROVE  OutInv'
BY DEF OutInv, stream, Variant

(* Nothing is handed out and no byte is worked on again.                   *)
LEMMA OutForward ==
    ASSUME SyncTypeInv, OutInv, out' = out, scen' = scen,
           Done \in Nat, Done' \in Nat, Done <= Done'
    PROVE  OutInv'
<1>1. ASSUME NEW i \in 1..Len(out) PROVE out[i] + PacketLen <= Done'
  <2>1. out[i] \in Nat /\ out[i] + PacketLen <= Done
    BY DEF OutInv, SyncTypeInv
  <2> QED
    BY <2>1, Sizes
<1> QED
  BY <1>1, OutKept

(* n packets are handed out from Done on, one after the other.             *)
LEMMA OutAppend ==
    ASSUME SyncTypeInv, OutInv, scen' = scen,
           NEW d \in Nat, Done = d, NEW e \in Nat, Done' = e,
           NEW n \in Nat, NEW new,
           new = [k \in 1..n |-> d + (k - 1) * PacketLen],
           out' = out \o new,
           \A i \in 0..(n - 1) : stream[d + i * PacketLen] \in Variant.ids,
           d + n * PacketLen <= e
    PROVE  OutInv' /\ out' \in Seq(Nat)
<1>1. out \in Seq(Nat) /\ Len(out) \in Nat
  BY DEF SyncTypeInv
<1>2. \A k \in 1..n : k - 1 \in Nat /\ (k - 1) * PacketLen \in Nat
  <2> SUFFICES ASSUME NEW k \in 1..n PROVE k - 1 \in Nat /\ (k - 1) * PacketLen \in Nat
    OBVIOUS
  <2>1. k - 1 \in Nat
    OBVIOUS
  <2> QED
    BY <2>1, Times
<1>3. new \in Seq(Nat) /\ Len(new) = n
  BY <1>2
<1>4. out' \in Seq(Nat) /\ Len(out') = Len(out) + n
  BY <1>1, <1>3
<1>5. \A i \in 1..Len(out) : out'[i] = out[i]
  BY <1>1, <1>3
<1>6. \A k \in 1..n : out'[Len(out) + k] = d + (k - 1) * PacketLen
  BY <1>1, <1>3
<1>7. \A i \in 1..Len(out') : i \in 1..Len(out) \/ \E k \in 1..n : i = Len(out) + k
  <2> SUFFICES ASSUME NEW i \in 1..Len(out'), i \notin 1..Len(out)
               PROVE  \E k \in 1..n : i = Len(out) + k
    OBVIOUS
  <2>1. i - Len(out) \in 1..n /\ i = Len(out) + (i - Len(out))
    BY <1>1, <1>4
  <2> QED
    BY <2>1
<1>8. d <= e
  <2>1. n * PacketLen \in Nat
    BY Times
  <2> QED
    BY <2>1
<1>9. ASSUME NEW i \in 1..Len(out')
      PROVE  out'[i] + PacketLen <= e /\ stream[out'[i]] \in Variant.ids
  <2>1. CASE i \in 1..Len(out)
    <3>1. out[i] \in Nat /\ out[i] + PacketLen <= d /\ stream[out[i]] \in Variant.ids
      BY <1>1, <2>1 DEF OutInv
    <3> QED
      BY <1>5, <1>8, <2>1, <3>1, Sizes
  <2>2. ASSUME NEW k \in 1..n, i = Len(out) + k
        PROVE  out'[i] + PacketLen <= e /\ stream[out'[i]] \in Variant.ids
    <3>1. out'[i] = d + (k - 1) * PacketLen
      BY <1>6, <2>2
    <3>2. PICK j \in 0..(n - 1) : j = k - 1
      OBVIOUS
    <3>3. (j + 1) * PacketLen <= n * PacketLen
      BY <3>2, TimesMonotone
    <3>4. out'[i] = d + j * PacketLen
      BY <3>1, <3>2
    <3>5. stream[out'[i]] \in Variant.ids
      BY <3>4
    <3>6. out'[i] + PacketLen <= e
      <4>1. j \in Nat /\ (j + 1) * PacketLen = j * PacketLen + PacketLen
        BY Times
      <4>2. j * PacketLen \in Nat /\ n * PacketLen \in Nat
        BY <4>1, Times
      <4>3. PICK a \in Nat, b \in Nat : a = j * PacketLen /\ b = n * PacketLen
        BY <4>2
      <4>4. a + PacketLen <= b /\ out'[i] = d + a /\ d + b <= e
        BY <3>3, <3>4, <4>1, <4>3
      <4> QED
        BY <4>4, Sizes
    <3> QED
      BY <3>5, <3>6
  <2> QED
    BY <1>7, <2>1, <2>2
<1>10. ASSUME NEW i \in 1..(Len(out') - 1)
       PROVE  out'[i] + PacketLen <= out'[i + 1]
  <2>1. CASE i \in 1..(Len(out) - 1)
    <3>1. i \in 1..Len(out) /\ i + 1 \in 1..Len(out)
      BY <1>1, <2>1
    <3> QED
      BY <1>5, <2>1, <3>1 DEF OutInv
  <2>2. CASE i = Len(out)
    <3>1. i \in 1..Len(out) /\ 1 \in 1..n
      BY <1>1, <1>4, <2>2
    <3>2. out'[i + 1] = d
      <4>1. out'[Len(out) + 1] = d + (1 - 1) * PacketLen
        BY <1>6, <3>1
      <4>2. d + (1 - 1) * PacketLen = d
        BY Sizes
      <4>3. out'[Len(out) + 1] = d
        BY <4>1, <4>2, Zenon
      <4> QED
        BY <2>2, <4>3
    <3> QED
      BY <1>5, <3>1, <3>2 DEF OutInv
  <2>3. CASE i > Len(out)
    <3>1. PICK k \in 1..n : i = Len(out) + k /\ k + 1 \in 1..n /\ k - 1 \in Nat
      <4>1. PICK l \in Nat : l = Len(out)
        BY <1>1
      <4>2. i \in Nat /\ l < i /\ i <= l + n - 1
        BY <1>4, <2>3, <4>1
      <4>3. PICK k \in Nat : i = l + k /\ k >= 1
        BY <4>2, i - l \in Nat
      <4>4. k \in 1..n /\ k + 1 \in 1..n /\ k - 1 \in Nat
        BY <4>2, <4>3
      <4> QED
        BY <4>1, <4>3, <4>4
    <3>2. i + 1 = Len(out) + (k + 1)
      BY <1>1, <3>1
    <3>3. out'[i] = d + (k - 1) * PacketLen
      BY <1>6, <3>1
    <3>4. out'[i + 1] = d + ((k + 1) - 1) * PacketLen
      BY <1>6, <3>1, <3>2
    <3>5. PICK j \in Nat : j = k - 1
      BY <3>1
    <3>6. (k + 1) - 1 = j + 1
      BY <3>5
    <3>7. out'[i] = d + j * PacketLen /\ out'[i + 1] = d + (j + 1) * PacketLen
      BY <3>3, <3>4, <3>5, <3>6
    <3> QED
      BY <3>7, Times, Sizes
  <2>4. i \in Nat /\ i >= 1
    BY <1>4
  <2>5. \A l \in Nat : i \in 1..(l - 1) \/ i = l \/ i > l
    BY <2>4
  <2>6. i \in 1..(Len(out) - 1) \/ i = Len(out) \/ i > Len(out)
    BY <1>1, <2>5, Zenon
  <2> QED
    BY <2>1, <2>2, <2>3, <2>6, Zenon
<1>11. stream' = stream /\ Variant' = Variant
  BY DEF stream, Variant
<1> QED
  BY <1>4, <1>9, <1>10, <1>11 DEF OutInv

-----------------------------------------------------------------------------
(* Induction                                                               *)

(* stream_process() returns at p in [at, lim], with less than SyncSize     *)
(* bytes left, and from remain_buf only where JoinInv speaks.              *)
LEMMA ReturnStep ==
    ASSUME SyncTypeInv, RegionInv, pc = "scan",
           NEW p \in Nat, at <= p, p <= lim, lim - p < SyncSize,
           Return(p), UNCHANGED <<scen, recv, urb>>, out' \in Seq(Nat)
    PROVE  /\ SyncTypeInv' /\ RegionInv' /\ JoinInv'
           /\ Done' \in Nat
           /\ Done' = IF joined /\ p # lim THEN urb ELSE p
<1> USE SyncSizeFacts DEF SyncTypeInv, RegionInv
<1>1. CASE joined
  <2>1. /\ pc' = "scan" /\ joined' = FALSE /\ lim' = recv /\ held' = held
        /\ at' = IF p = lim THEN lim ELSE urb
    BY <1>1 DEF Return, Work
  <2>2. SyncTypeInv'
    BY <2>1
  <2>3. RegionInv'
    BY <1>1, <2>1
  <2>4. Done' = at'
    BY <2>1 DEF Done
  <2>5. JoinInv'
    BY <2>1 DEF JoinInv
  <2> QED
    BY <1>1, <2>1, <2>2, <2>3, <2>4, <2>5
<1>2. CASE ~joined
  <2>1. pc' = "idle" /\ held' = lim - p /\ at' = p /\ joined' = joined /\ lim' = lim
    BY <1>2 DEF Return
  <2>2. SyncTypeInv'
    BY <2>1
  <2>3. lim = recv
    BY <1>2
  <2>4. RegionInv'
    BY <2>1, <2>3
  <2>5. Done' = p
    BY <2>1, <2>3 DEF Done
  <2>6. JoinInv'
    BY <2>1 DEF JoinInv
  <2> QED
    BY <1>2, <2>2, <2>4, <2>5, <2>6
<1> QED
  BY <1>1, <1>2

(* SyncInv holds at first.                                                    *)
LEMMA SyncInitInv == SyncInit => SyncInv
<1> SUFFICES ASSUME SyncInit PROVE SyncInv
  OBVIOUS
<1> USE SyncSizeFacts, Sizes DEF SyncInit
<1>1. SyncTypeInv
  <2>1. joined \in BOOLEAN /\ out \in Seq(Nat)
    BY Zenon, EmptySeq
  <2> QED
    BY <2>1 DEF SyncTypeInv
<1>2. RegionInv
  BY DEF RegionInv
<1>3. OutInv
  BY DEF OutInv
<1>4. JoinInv
  BY DEF JoinInv
<1> QED
  BY <1>1, <1>2, <1>3, <1>4 DEF SyncInv

(* A transfer arrives: stream_handler() up to the call of stream_process(). *)
LEMMA ReceiveStep ==
    ASSUME SyncInv, Receive
    PROVE  SyncInv'
<1> USE SyncSizeFacts
<1>1. SyncTypeInv /\ RegionInv /\ OutInv /\ JoinInv
  BY DEF SyncInv
<1>2. PICK n \in scen.transfers :
        /\ pc = "idle"
        /\ recv' = recv + n
        /\ urb' = recv
        /\ \/ /\ held = 0
              /\ Work(FALSE, recv, recv + n)
              /\ UNCHANGED held
           \/ /\ held > 0
              /\ Joins(n)
              /\ Work(TRUE, recv - held, recv - held + SyncSize)
              /\ held' = 0
           \/ /\ held > 0
              /\ ~Joins(n)
              /\ held' = held + n
              /\ UNCHANGED <<pc, joined, at, lim>>
        /\ UNCHANGED <<scen, out>>
  BY DEF Receive
<1>3. n \in Nat /\ n > 0
  BY <1>1, ScenarioAssumption DEF SyncTypeInv
<1>4. recv \in Nat /\ held \in Nat /\ held < SyncSize /\ held <= recv /\ Done = recv - held
  BY <1>1, <1>2 DEF SyncTypeInv, RegionInv, Done
<1>5. /\ \A i \in 1..Len(out) : out[i] \in Nat /\ out[i] + PacketLen <= recv - held
      /\ Done \in Nat
  BY <1>1, <1>4 DEF OutInv, SyncTypeInv
<1>6. CASE held = 0 /\ Work(FALSE, recv, recv + n) /\ UNCHANGED held
  <2>1. pc' = "scan" /\ joined' = FALSE /\ at' = recv /\ lim' = recv + n /\ held' = 0
    BY <1>6 DEF Work
  <2>2. SyncTypeInv'
    <3>1. recv' \in Nat /\ at' \in Nat /\ lim' \in Nat
      BY <1>2, <1>3, <1>4, <2>1
    <3> QED
      BY <1>1, <1>2, <2>1, <3>1 DEF SyncTypeInv
  <2>3. RegionInv'
    BY <1>2, <1>3, <1>4, <2>1 DEF RegionInv
  <2>4. Done' = recv
    BY <2>1 DEF Done
  <2>5. OutInv'
    BY <1>1, <1>2, <1>4, <1>5, <1>6, <2>4, OutForward
  <2>6. JoinInv'
    BY <2>1 DEF JoinInv
  <2> QED
    BY <2>2, <2>3, <2>5, <2>6 DEF SyncInv
<1>7. CASE /\ held > 0 /\ Joins(n) /\ held' = 0
           /\ Work(TRUE, recv - held, recv - held + SyncSize)
  <2>1. /\ pc' = "scan" /\ joined' = TRUE /\ at' = recv - held
        /\ lim' = recv - held + SyncSize /\ held' = 0 /\ held + n >= SyncSize
    BY <1>7 DEF Work, Joins
  <2>2. SyncTypeInv'
    <3>1. recv' \in Nat /\ at' \in Nat /\ lim' \in Nat
      BY <1>2, <1>3, <1>4, <2>1
    <3> QED
      BY <1>1, <1>2, <2>1, <3>1 DEF SyncTypeInv
  <2>3. RegionInv'
    BY <1>2, <1>3, <1>4, <2>1 DEF RegionInv
  <2>4. Done' = recv - held
    BY <2>1 DEF Done
  <2>5. OutInv'
    BY <1>1, <1>2, <1>4, <1>5, <2>4, OutForward
  <2>6. \A i \in 1..Len(out) : out[i] + PacketLen <= recv
    BY <1>4, <1>5, Sizes
  <2>7. JoinInv'
    BY <1>2, <2>1, <2>6 DEF JoinInv
  <2> QED
    BY <2>2, <2>3, <2>5, <2>7 DEF SyncInv
<1>8. CASE held > 0 /\ ~Joins(n) /\ held' = held + n /\ UNCHANGED <<pc, joined, at, lim>>
  <2>1. held + n < SyncSize
    BY <1>3, <1>4, <1>8 DEF Joins
  <2>2. SyncTypeInv'
    BY <1>1, <1>2, <1>3, <1>4, <1>8 DEF SyncTypeInv
  <2>3. RegionInv'
    BY <1>2, <1>3, <1>4, <1>8, <2>1 DEF RegionInv
  <2>4. Done' = recv - held
    BY <1>2, <1>3, <1>4, <1>8 DEF Done
  <2>5. OutInv'
    BY <1>1, <1>2, <1>4, <1>5, <2>4, OutForward
  <2>6. JoinInv'
    BY <1>2, <1>8 DEF JoinInv
  <2> QED
    BY <2>2, <2>3, <2>5, <2>6 DEF SyncInv
<1> QED
  BY <1>2, <1>6, <1>7, <1>8

(* start_capture() forgets everything.                                     *)
LEMMA StartStep ==
    ASSUME SyncInv, Start
    PROVE  SyncInv'
<1> USE SyncSizeFacts, Sizes DEF Start
<1>1. SyncTypeInv'
  <2>1. joined' \in BOOLEAN /\ out' \in Seq(Nat)
    BY Zenon, EmptySeq
  <2> QED
    BY <2>1 DEF SyncInv, SyncTypeInv
<1>2. RegionInv'
  BY DEF RegionInv
<1>3. OutInv'
  BY DEF OutInv
<1>4. JoinInv'
  BY DEF JoinInv
<1> QED
  BY <1>1, <1>2, <1>3, <1>4 DEF SyncInv

(* stream_process() returns without handing out a packet in its last       *)
(* round.                                                                  *)
LEMMA ReturnKeeps ==
    ASSUME SyncInv, pc = "scan", at <= lim, lim - at < SyncSize,
           Return(at), UNCHANGED <<scen, recv, urb, out>>
    PROVE  SyncInv'
<1>1. SyncTypeInv /\ RegionInv /\ OutInv /\ JoinInv
  BY DEF SyncInv
<1>2. at \in Nat /\ lim \in Nat /\ Done = at /\ urb \in Nat /\ out \in Seq(Nat)
  BY <1>1 DEF SyncTypeInv, Done
<1>3. /\ SyncTypeInv' /\ RegionInv' /\ JoinInv' /\ Done' \in Nat
      /\ Done' = IF joined /\ at # lim THEN urb ELSE at
  BY <1>1, <1>2, ReturnStep
<1>4. OutInv'
  <2>1. CASE joined /\ at # lim
    <3>1. \A i \in 1..Len(out) : out[i] + PacketLen <= urb
      BY <1>1, <1>2, <2>1 DEF JoinInv
    <3> QED
      BY <1>1, <1>3, <2>1, <3>1, OutKept
  <2>2. CASE ~(joined /\ at # lim)
    BY <1>1, <1>2, <1>3, <2>2, OutForward
  <2> QED
    BY <2>1, <2>2
<1> QED
  BY <1>3, <1>4 DEF SyncInv

(* The search ends where the region ends.                                  *)
LEMMA ExhaustedStep ==
    ASSUME SyncInv, Exhausted
    PROVE  SyncInv'
<1>1. at \in Nat /\ lim \in Nat
  BY DEF SyncInv, SyncTypeInv
<1>2. pc = "scan" /\ at = lim /\ Return(at) /\ UNCHANGED <<scen, recv, urb, out>>
  BY DEF Exhausted
<1>3. at <= lim /\ lim - at < SyncSize
  BY <1>1, <1>2, SyncSizeFacts, Sizes
<1> QED
  BY <1>2, <1>3, ReturnKeeps

(* Too few bytes for SyncCount packets are fewer than SyncSize.            *)
LEMMA TooShortStep ==
    ASSUME SyncInv, TooShort
    PROVE  SyncInv'
<1>1. at \in Nat /\ lim \in Nat
  BY DEF SyncInv, SyncTypeInv
<1>2. pc = "scan" /\ at < lim /\ Return(at) /\ UNCHANGED <<scen, recv, urb, out>>
  BY DEF TooShort
<1>3. PICK i \in 0..(SyncCount - 1) : at + (i + 1) * PacketLen > lim
  BY DEF TooShort
<1>4. (i + 1) * PacketLen <= SyncSize /\ (i + 1) * PacketLen \in Nat
  BY Sizes, SyncSizeFacts, TimesMonotone, Times
<1>5. at <= lim /\ lim - at < SyncSize
  <2>1. PICK b \in Nat : b = (i + 1) * PacketLen
    BY <1>4
  <2> QED
    BY <1>1, <1>2, <1>3, <1>4, <2>1, SyncSizeFacts
<1> QED
  BY <1>2, <1>5, ReturnKeeps

(* The search moves on by one byte.                                        *)
LEMMA MoveOn ==
    ASSUME SyncInv, pc = "scan", at < lim, MoveTo(at + 1),
           UNCHANGED <<scen, recv, urb, out>>
    PROVE  SyncInv'
<1>1. SyncTypeInv /\ RegionInv /\ OutInv /\ JoinInv
  BY DEF SyncInv
<1>2. /\ at' = at + 1 /\ held' = held /\ pc' = pc /\ joined' = joined /\ lim' = lim
      /\ at \in Nat /\ lim \in Nat
  BY <1>1 DEF MoveTo, SyncTypeInv
<1>3. SyncTypeInv'
  BY <1>1, <1>2 DEF SyncTypeInv
<1>4. RegionInv'
  BY <1>1, <1>2, SyncSizeFacts DEF RegionInv, SyncTypeInv
<1>5. OutInv'
  <2>1. Done = at /\ Done' = at + 1
    BY <1>2 DEF Done
  <2> QED
    BY <1>1, <1>2, <2>1, OutForward
<1>6. JoinInv'
  BY <1>1, <1>2 DEF JoinInv
<1> QED
  BY <1>3, <1>4, <1>5, <1>6 DEF SyncInv

(* The other rounds of the search that find no packet.                     *)
LEMMA SlipStep ==
    ASSUME SyncInv, Slip \/ PlainSlip
    PROVE  SyncInv'
<1>1. pc = "scan" /\ at < lim /\ MoveTo(at + 1) /\ UNCHANGED <<scen, recv, urb, out>>
  BY DEF Slip, PlainSlip
<1> QED
  BY <1>1, MoveOn

(* SyncCount packets in sync: in remain_buf they are all it holds.         *)
LEMMA InSyncStep ==
    ASSUME SyncInv, InSync
    PROVE  SyncInv'
<1>1. SyncTypeInv /\ RegionInv /\ OutInv /\ JoinInv
  BY DEF SyncInv
<1>2. /\ pc = "scan" /\ pc' = "emit" /\ Run(at, SyncCount)
      /\ UNCHANGED <<scen, recv, held, joined, urb, at, lim, out>>
  BY DEF InSync
<1>3. SyncTypeInv'
  BY <1>1, <1>2 DEF SyncTypeInv
<1>4. RegionInv'
  BY <1>1, <1>2 DEF RegionInv
<1>5. OutInv'
  <2>1. Done = at /\ Done' = at /\ at \in Nat
    BY <1>1, <1>2 DEF Done, SyncTypeInv
  <2> QED
    BY <1>1, <1>2, <2>1, OutForward
<1>6. JoinInv'
  <2> SUFFICES ASSUME joined
               PROVE  at + SyncCount * PacketLen = lim
    BY <1>2, Sizes DEF JoinInv, Run, HasSync, stream, Variant
  <2>1. at \in Nat /\ lim \in Nat /\ lim <= at + SyncSize
    BY <1>1, <1>2 DEF RegionInv, SyncTypeInv
  <2>2. at + SyncCount * PacketLen <= lim
    BY <1>2 DEF Run
  <2> QED
    BY <2>1, <2>2, SyncSizeFacts
<1> QED
  BY <1>3, <1>4, <1>5, <1>6 DEF SyncInv

(* A packet goes out.                                                      *)
LEMMA EmitStep ==
    ASSUME SyncInv, Emit
    PROVE  SyncInv'
<1>1. SyncTypeInv /\ RegionInv /\ OutInv /\ JoinInv
  BY DEF SyncInv
<1>2. /\ pc = "emit" /\ Run(at, 1) /\ at' = at + PacketLen
      /\ UNCHANGED <<scen, recv, urb, held, pc, joined, lim>>
  BY DEF Emit, MoveTo
<1>3. at \in Nat /\ lim \in Nat /\ at' \in Nat /\ at + PacketLen <= lim /\ HasSync(at)
  BY <1>1, <1>2, RunFacts, Sizes DEF SyncTypeInv
<1>4. Done = at /\ Done' = at'
  BY <1>2 DEF Done
<1>5. OutInv' /\ out' \in Seq(Nat)
  <2>1. CASE stream[at] \in Variant.ids
    <3> DEFINE new == [k \in 1..1 |-> at + (k - 1) * PacketLen]
    <3>1. out' = Append(out, at)
      BY <2>1 DEF Emit
    <3>2. new = <<at>>
      BY <1>3, Sizes
    <3>3. out' = out \o new
      <4>1. out \in Seq(Nat)
        BY <1>1 DEF SyncTypeInv
      <4> QED
        BY <1>3, <3>1, <3>2, <4>1, AppendIsConcat
    <3>4. \A i \in 0..(1 - 1) : stream[at + i * PacketLen] \in Variant.ids
      <4>1. \A i \in 0..(1 - 1) : at + i * PacketLen = at
        BY <1>3, Sizes
      <4> QED
        BY <2>1, <4>1
    <3>5. at + 1 * PacketLen <= at'
      BY <1>2, <1>3, Sizes
    <3> HIDE DEF new
    <3>6. new = [k \in 1..1 |-> at + (k - 1) * PacketLen]
      BY Zenon DEF new
    <3> QED
      BY <1>1, <1>2, <1>3, <1>4, <3>3, <3>4, <3>5, <3>6, OutAppend
  <2>2. CASE stream[at] \notin Variant.ids
    <3>1. out' = out
      BY <2>2 DEF Emit
    <3>2. at <= at'
      BY <1>2, <1>3, Sizes
    <3> QED
      BY <1>1, <1>2, <1>3, <1>4, <3>1, <3>2, OutForward DEF SyncTypeInv
  <2> QED
    BY <2>1, <2>2
<1>6. SyncTypeInv'
  BY <1>1, <1>2, <1>3, <1>5 DEF SyncTypeInv
<1>7. RegionInv'
  BY <1>1, <1>2, <1>3, Sizes, SyncSizeFacts DEF RegionInv, SyncTypeInv
<1>8. JoinInv'
  <2> SUFFICES ASSUME joined
               PROVE  \E m \in Nat : at' + m * PacketLen = lim /\ Run(at', m)
    BY <1>2 DEF JoinInv, Run, HasSync, stream, Variant
  <2>1. PICK m \in Nat : at + m * PacketLen = lim /\ Run(at, m)
    BY <1>1, <1>2 DEF JoinInv
  <2>2. m # 0
    BY <1>3, <2>1, Sizes
  <2>3. PICK j \in Nat : m = j + 1
    BY <2>2
  <2>4. Run(at + PacketLen, j)
    BY <1>1, <1>3, <2>1, <2>3, RunFacts
  <2>5. at + PacketLen + j * PacketLen = lim
    <3>1. (j + 1) * PacketLen = j * PacketLen + PacketLen /\ j * PacketLen \in Nat
      BY Times
    <3> QED
      BY <1>3, <2>1, <2>3, <3>1, Sizes
  <2> QED
    BY <1>2, <2>4, <2>5
<1> QED
  BY <1>5, <1>6, <1>7, <1>8 DEF SyncInv

(* From remain_buf all packets go out.                                     *)
LEMMA EmitEndsAtLim ==
    ASSUME SyncInv, EmitEnd, joined
    PROVE  at = lim
<1>1. SyncTypeInv /\ ~Run(at, 1) /\ pc = "emit" /\ at \in Nat /\ lim \in Nat
  BY DEF SyncInv, SyncTypeInv, EmitEnd
<1>2. PICK m \in Nat : at + m * PacketLen = lim /\ Run(at, m)
  BY <1>1 DEF SyncInv, JoinInv
<1>3. m = 0
  <2> SUFFICES ASSUME m # 0 PROVE FALSE
    OBVIOUS
  <2>1. PICK j \in Nat : m = j + 1
    OBVIOUS
  <2> QED
    BY <1>1, <1>2, <2>1, RunFacts
<1> QED
  BY <1>1, <1>2, <1>3, Times

(* No further packet in sync: all of remain_buf went out.                  *)
LEMMA EmitEndStep ==
    ASSUME SyncInv, EmitEnd
    PROVE  SyncInv'
<1>1. SyncTypeInv /\ RegionInv /\ OutInv /\ JoinInv
  BY DEF SyncInv
<1>2. /\ pc = "emit" /\ pc' = "scan" /\ ~Run(at, 1)
      /\ UNCHANGED <<scen, recv, held, joined, urb, at, lim, out>>
  BY DEF EmitEnd
<1>3. SyncTypeInv'
  BY <1>1, <1>2 DEF SyncTypeInv
<1>4. RegionInv'
  BY <1>1, <1>2 DEF RegionInv
<1>5. at \in Nat /\ lim \in Nat
  BY <1>1 DEF SyncTypeInv
<1>6. OutInv'
  <2>1. Done = at /\ Done' = at
    BY <1>2 DEF Done
  <2> QED
    BY <1>1, <1>2, <1>5, <2>1, OutForward
<1>7. JoinInv'
  <2>1. joined => at = lim
    BY EmitEndsAtLim
  <2> QED
    BY <1>2, <1>5, <2>1 DEF JoinInv
<1> QED
  BY <1>3, <1>4, <1>6, <1>7 DEF SyncInv

(* All packets of a run go out: no more of them than the search counted,   *)
(* and from remain_buf exactly those it holds.                             *)
LEMMA PlainEmitStep ==
    ASSUME SyncInv, PlainEmit
    PROVE  SyncInv'
<1>1. SyncTypeInv /\ RegionInv /\ OutInv /\ JoinInv
  BY DEF SyncInv
<1>2. at \in Nat /\ lim \in Nat /\ at < lim /\ pc = "scan" /\ ~Variant.tagged /\ Done = at
  BY <1>1 DEF PlainEmit, SyncTypeInv, Done
<1>3. RunLength \in Nat /\ Run(at, RunLength)
  BY <1>1, <1>2, RunLengthExists
<1>4. PICK n \in Nat : n = RunLength
  BY <1>3
<1>5. PICK end \in Nat : end = at + n * PacketLen
  BY <1>2, Times
<1>6. /\ n >= SyncCount
      /\ out' = out \o [k \in 1..n |-> at + (k - 1) * PacketLen]
      /\ IF end + PacketLen > lim THEN Return(end) ELSE MoveTo(end)
      /\ UNCHANGED <<scen, recv, urb>>
  BY <1>4, <1>5 DEF PlainEmit
<1>7. Run(at, n)
  BY <1>3, <1>4
<1>8. SyncSize <= n * PacketLen /\ n * PacketLen \in Nat
  BY <1>6, Sizes, SyncSizeFacts, TimesMonotone, Times
<1>9. at <= end /\ end <= lim
  <2>1. at + n * PacketLen <= lim
    BY <1>7 DEF Run
  <2> QED
    BY <1>2, <1>5, <1>8, <2>1
<1>10. joined => end = lim
  <2>1. joined => lim <= at + SyncSize
    BY <1>1, <1>2 DEF RegionInv
  <2>2. at + SyncSize <= end
    BY <1>2, <1>5, <1>8, SyncSizeFacts
  <2> QED
    BY <1>2, <1>9, <2>1, <2>2, SyncSizeFacts
<1>11. \A i \in 0..(n - 1) : stream[at + i * PacketLen] \in Variant.ids
  BY <1>1, <1>2, <1>7, PlainSync DEF Run, HasSync
<1>12. ASSUME Done' = end PROVE OutInv' /\ out' \in Seq(Nat)
  <2>1. PICK new : new = [k \in 1..n |-> at + (k - 1) * PacketLen]
    OBVIOUS
  <2>2. out' = out \o new
    BY <1>6, <2>1, Zenon
  <2>3. at + n * PacketLen <= end
    BY <1>5
  <2> QED
    BY <1>1, <1>2, <1>6, <1>11, <1>12, <2>1, <2>2, <2>3, OutAppend
<1>13. out' \in Seq(Nat)
  <2>1. PICK new : new = [k \in 1..n |-> at + (k - 1) * PacketLen]
    OBVIOUS
  <2>2. ASSUME NEW k \in 1..n PROVE at + (k - 1) * PacketLen \in Nat
    <3>1. k - 1 \in Nat
      OBVIOUS
    <3> QED
      BY <1>2, <3>1, Times
  <2>3. new \in Seq(Nat)
    BY <2>1, <2>2
  <2>4. out' = out \o new
    BY <1>6, <2>1, Zenon
  <2> QED
    BY <1>1, <2>3, <2>4 DEF SyncTypeInv
<1>14. CASE end + PacketLen > lim
  <2>1. Return(end)
    BY <1>6, <1>14
  <2>2. lim - end < SyncSize
    BY <1>2, <1>9, <1>14, Sizes, SyncSizeFacts
  <2>3. /\ SyncTypeInv' /\ RegionInv' /\ JoinInv'
        /\ Done' = IF joined /\ end # lim THEN urb ELSE end
    BY <1>1, <1>2, <1>6, <1>9, <1>13, <2>1, <2>2, ReturnStep
  <2>4. Done' = end
    BY <1>10, <2>3
  <2> QED
    BY <1>12, <2>3, <2>4 DEF SyncInv
<1>15. CASE ~(end + PacketLen > lim)
  <2>1. at' = end /\ UNCHANGED <<held, pc, joined, lim>>
    BY <1>6, <1>15 DEF MoveTo
  <2>2. ~joined
    BY <1>2, <1>10, <1>15, Sizes
  <2>3. Done' = end
    BY <1>2, <2>1 DEF Done
  <2>4. SyncTypeInv'
    BY <1>1, <1>6, <1>13, <2>1 DEF SyncTypeInv
  <2>5. RegionInv'
    BY <1>1, <1>2, <1>6, <1>9, <2>1, <2>2 DEF RegionInv
  <2>6. JoinInv'
    BY <2>1, <2>2 DEF JoinInv
  <2> QED
    BY <1>12, <2>3, <2>4, <2>5, <2>6 DEF SyncInv
<1> QED
  BY <1>14, <1>15

(* A step that changes nothing.                                            *)
LEMMA StutterStep ==
    ASSUME SyncInv, UNCHANGED syncVars
    PROVE  SyncInv'
BY DEF syncVars, SyncInv, SyncTypeInv, RegionInv, OutInv, JoinInv, Done, Run, HasSync, stream, Variant

-----------------------------------------------------------------------------
(* SyncInv is an invariant, for every packet length, number of packets in     *)
(* sync, stream and cut of the stream into transfers.                      *)
THEOREM SyncInvariance == SyncSpec => []SyncInv
<1>1. SyncInv /\ [SyncNext]_syncVars => SyncInv'
  BY ReceiveStep, StartStep, ExhaustedStep, TooShortStep, SlipStep, InSyncStep,
     EmitStep, EmitEndStep, PlainEmitStep, StutterStep DEF SyncNext
<1> QED
  BY <1>1, SyncInitInv, PTL DEF SyncSpec

(* remain_buf never overflows: the bytes stream_handler() keeps are fewer  *)
(* than the SyncSize it has room for, whatever the transfers carry.        *)
THEOREM RemainBufFits == SyncSpec => []RemainFits
<1>1. SyncInv => RemainFits
  BY DEF SyncInv, RegionInv, RemainFits
<1> QED
  BY <1>1, SyncInvariance, PTL

(* stream_process() hands no byte to a receiver twice, keeps the packets   *)
(* in order, and every packet lies in what was received and begins with    *)
(* the sync byte of a receiver, also across remain_buf.                    *)
THEOREM PacketsNeverOverlap == SyncSpec => []NoOverlap
<1>1. ASSUME SyncInv PROVE NoOverlap
  <2>1. SyncTypeInv /\ RegionInv /\ OutInv
    BY <1>1 DEF SyncInv
  <2>2. Done \in Nat /\ Done <= recv /\ recv \in Nat
    BY <2>1 DEF SyncTypeInv, RegionInv, Done
  <2>3. ASSUME NEW i \in 1..Len(out) PROVE out[i] + PacketLen <= recv
    <3>1. out[i] \in Nat /\ out[i] + PacketLen <= Done
      BY <2>1 DEF SyncTypeInv, OutInv
    <3> QED
      BY <2>2, <3>1, Sizes
  <2> QED
    BY <2>1, <2>3 DEF OutInv, NoOverlap
<1> QED
  BY <1>1, SyncInvariance, PTL

-----------------------------------------------------------------------------
(* A stream in sync from its first byte on                                 *)

(* p is where a packet of such a stream begins.                            *)
Whole(p) == \E k \in Nat : p = k * PacketLen

Clean == \A k \in Nat : k * PacketLen < recv => HasSync(k * PacketLen)

(* The parser stands at a packet, every packet before was handed out that  *)
(* names a receiver, and nothing else was.                                 *)
GivenInv ==
    /\ Whole(Done)
    /\ \A k \in Nat : k * PacketLen < Done /\ stream[k * PacketLen] \in Variant.ids
          => \E i \in 1..Len(out) : out[i] = k * PacketLen
    /\ \A i \in 1..Len(out) : Whole(out[i])

(* remain_buf is worked on as a whole; the plain parser always has room    *)
(* for SyncCount packets.                                                  *)
SpaceInv ==
    /\ pc = "scan" /\ joined /\ at # lim => at + SyncSize = lim
    /\ pc = "emit" => Variant.tagged
    /\ pc = "scan" /\ ~Variant.tagged =>
          /\ at = lim \/ at + SyncSize <= lim
          /\ joined => lim + SyncSize <= recv

CleanInv == LongEnough /\ Clean => GivenInv /\ SpaceInv

-----------------------------------------------------------------------------
(* Sums and order of whole packets.                                        *)
LEMMA TimesAdd ==
    ASSUME NEW a \in Nat, NEW b \in Nat
    PROVE  /\ (a + b) * PacketLen = a * PacketLen + b * PacketLen
           /\ a * PacketLen \in Nat /\ b * PacketLen \in Nat
<1>1. (a + b) * PacketLen = a * PacketLen + b * PacketLen
  BY Sizes
<1> QED
  BY <1>1, Times

(* Fewer bytes in whole packets are fewer packets.                         *)
LEMMA TimesLess ==
    ASSUME NEW a \in Nat, NEW b \in Nat
    PROVE  a * PacketLen < b * PacketLen <=> a < b
<1>1. a * PacketLen \in Nat /\ b * PacketLen \in Nat
  BY Times
<1>2. ASSUME a < b PROVE a * PacketLen < b * PacketLen
  <2>1. (a + 1) * PacketLen <= b * PacketLen
    BY <1>2, TimesMonotone
  <2>2. (a + 1) * PacketLen = a * PacketLen + PacketLen
    BY Times
  <2>3. PICK x \in Nat, y \in Nat : x = a * PacketLen /\ y = b * PacketLen
    BY <1>1
  <2>4. x + PacketLen <= y
    BY <2>1, <2>2, <2>3
  <2> QED
    BY <2>3, <2>4, Sizes
<1>3. ASSUME ~(a < b) PROVE ~(a * PacketLen < b * PacketLen)
  <2>1. b * PacketLen <= a * PacketLen
    BY <1>3, TimesMonotone
  <2> QED
    BY <1>1, <2>1
<1> QED
  BY <1>2, <1>3

(* In such a stream whole packets up to the end of a region are in sync.   *)
LEMMA CleanRun ==
    ASSUME SyncTypeInv, Clean, lim <= recv, NEW p, Whole(p),
           NEW n \in Nat, p + n * PacketLen <= lim
    PROVE  Run(p, n)
<1>1. lim \in Nat /\ recv \in Nat
  BY DEF SyncTypeInv
<1>2. PICK k \in Nat : p = k * PacketLen
  BY DEF Whole
<1>3. ASSUME NEW i \in 0..(n - 1) PROVE HasSync(p + i * PacketLen)
  <2>1. i \in Nat /\ k + i \in Nat /\ (k + i) + 1 \in Nat /\ (k + i) + 1 <= k + n /\ k + n \in Nat
    OBVIOUS
  <2>2. (k + i) * PacketLen = p + i * PacketLen
    BY <1>2, <2>1, TimesAdd
  <2>3. (k + n) * PacketLen = p + n * PacketLen
    BY <1>2, TimesAdd
  <2>4. (k + i) * PacketLen < (k + n) * PacketLen
    BY <2>1, TimesLess
  <2>5. (k + i) * PacketLen \in Nat /\ (k + n) * PacketLen \in Nat
    BY <2>1, Times
  <2>6. PICK x \in Nat, y \in Nat : x = (k + i) * PacketLen /\ y = (k + n) * PacketLen
    BY <2>5
  <2>7. x < recv
    BY <1>1, <2>3, <2>4, <2>6
  <2>8. HasSync((k + i) * PacketLen)
    BY <2>1, <2>6, <2>7 DEF Clean
  <2> QED
    BY <2>2, <2>8
<1> QED
  BY <1>3 DEF Run

(* It is the stream CleanDelivered speaks of.                              *)
LEMMA CleanIsInSync ==
    ASSUME SyncTypeInv
    PROVE  InSyncFrom(0) <=> Clean
<1>1. recv \in Nat
  BY DEF SyncTypeInv
<1>2. ASSUME InSyncFrom(0), NEW k \in Nat, k * PacketLen < recv
      PROVE  HasSync(k * PacketLen)
  <2>1. PICK x \in Nat : x = k * PacketLen /\ k <= x
    BY Times
  <2>2. k \in 0..recv
    BY <1>1, <1>2, <2>1
  <2>3. x \in Grid(0)
    BY <2>1, <2>2 DEF Grid
  <2> QED
    BY <1>2, <2>1, <2>3 DEF InSyncFrom
<1>3. ASSUME Clean, NEW p \in Grid(0), p < recv PROVE HasSync(p)
  <2>1. PICK k \in 0..recv : p = 0 + k * PacketLen
    BY <1>3 DEF Grid
  <2>2. k \in Nat /\ p = k * PacketLen
    BY <2>1, Times
  <2> QED
    BY <1>3, <2>2 DEF Clean
<1> QED
  BY <1>2, <1>3 DEF InSyncFrom, Clean

(* The bytes that arrive do not change what has arrived.                   *)
LEMMA CleanBefore ==
    ASSUME SyncTypeInv, SyncTypeInv', scen' = scen, recv <= recv', Clean'
    PROVE  Clean
<1>1. recv \in Nat /\ recv' \in Nat
  BY DEF SyncTypeInv
<1>2. ASSUME NEW k \in Nat, k * PacketLen < recv PROVE HasSync(k * PacketLen)
  <2>1. PICK x \in Nat : x = k * PacketLen
    BY Times
  <2>2. k * PacketLen < recv'
    BY <1>1, <1>2, <2>1
  <2>3. HasSync(k * PacketLen)'
    BY <2>2 DEF Clean
  <2> QED
    BY <2>3 DEF HasSync, stream, Variant
<1> QED
  BY <1>2 DEF Clean

(* Nothing is handed out and the parser stays where it is.                 *)
LEMMA GivenKept ==
    ASSUME GivenInv, out' = out, scen' = scen, Done' = Done
    PROVE  GivenInv'
BY DEF GivenInv, stream, Variant, Whole
(* The next n packets are passed, each handed out that names a receiver.   *)
LEMMA GivenGrows ==
    ASSUME GivenInv, scen' = scen,
           NEW d \in Nat, Done = d, NEW n \in Nat, Done' = d + n * PacketLen,
           \A i \in 1..Len(out) : i \in 1..Len(out') /\ out'[i] = out[i],
           \A j \in 0..(n - 1) : stream[d + j * PacketLen] \in Variant.ids
               => \E i \in 1..Len(out') : out'[i] = d + j * PacketLen,
           \A i \in 1..Len(out') :
               i \in 1..Len(out) \/ \E j \in 0..(n - 1) : out'[i] = d + j * PacketLen
    PROVE  GivenInv'
<1>1. PICK a \in Nat : d = a * PacketLen
  BY DEF GivenInv, Whole
<1>2. \A j \in Nat : d + j * PacketLen = (a + j) * PacketLen /\ a + j \in Nat
  <2> SUFFICES ASSUME NEW j \in Nat
               PROVE  d + j * PacketLen = (a + j) * PacketLen
    OBVIOUS
  <2> QED
    BY <1>1, TimesAdd
<1>3. Whole(Done)'
  BY <1>2 DEF Whole
<1>4. stream' = stream /\ Variant' = Variant
  BY DEF stream, Variant
<1>5. ASSUME NEW k \in Nat, k * PacketLen < Done', stream[k * PacketLen] \in Variant.ids
      PROVE  \E i \in 1..Len(out') : out'[i] = k * PacketLen
  <2>1. k < a + n
    BY <1>2, <1>5, TimesLess
  <2>2. CASE k < a
    <3>1. k * PacketLen < d
      BY <1>1, <2>2, TimesLess
    <3>2. PICK i \in 1..Len(out) : out[i] = k * PacketLen
      BY <1>5, <3>1 DEF GivenInv
    <3> QED
      BY <3>2
  <2>3. CASE ~(k < a)
    <3>1. PICK j \in Nat : k = a + j
      BY <2>3, k - a \in Nat
    <3>2. j \in 0..(n - 1)
      BY <2>1, <3>1
    <3>3. k * PacketLen = d + j * PacketLen
      BY <1>2, <3>1
    <3> QED
      BY <1>5, <3>2, <3>3
  <2> QED
    BY <2>2, <2>3
<1>6. ASSUME NEW i \in 1..Len(out') PROVE Whole(out'[i])
  <2>1. CASE i \in 1..Len(out)
    BY <2>1 DEF GivenInv
  <2>2. ASSUME NEW j \in 0..(n - 1), out'[i] = d + j * PacketLen PROVE Whole(out'[i])
    <3>1. j \in Nat
      OBVIOUS
    <3>2. out'[i] = (a + j) * PacketLen /\ a + j \in Nat
      BY <1>2, <2>2, <3>1
    <3> QED
      BY <3>2 DEF Whole
  <2> QED
    BY <2>1, <2>2
<1> QED
  BY <1>3, <1>4, <1>5, <1>6 DEF GivenInv, Whole

(* What CleanInv says in a state from which a step leads to one it speaks  *)
(* of.                                                                     *)
LEMMA CleanNow ==
    ASSUME SyncInv, SyncInv', CleanInv, scen' = scen, recv <= recv', LongEnough', Clean'
    PROVE  LongEnough /\ Clean /\ GivenInv /\ SpaceInv
<1>1. Clean
  BY CleanBefore DEF SyncInv
<1>2. LongEnough
  BY DEF LongEnough, Variant
<1> QED
  BY <1>1, <1>2 DEF CleanInv

(* At first.                                                               *)
LEMMA CleanInit == SyncInit => CleanInv
<1> SUFFICES ASSUME SyncInit PROVE GivenInv /\ SpaceInv
  BY DEF CleanInv
<1>1. Done = 0
  BY DEF SyncInit, Done
<1>2. 0 = 0 * PacketLen /\ \A k \in Nat : ~(k * PacketLen < 0)
  BY Times
<1>3. Len(out) = 0
  BY DEF SyncInit
<1>4. GivenInv
  BY <1>1, <1>2, <1>3 DEF GivenInv, Whole
<1>5. SpaceInv
  BY DEF SyncInit, SpaceInv
<1> QED
  BY <1>4, <1>5

(* Start of a stream.                                                      *)
LEMMA CleanStart ==
    ASSUME Start
    PROVE  CleanInv'
<1> SUFFICES GivenInv' /\ SpaceInv'
  BY DEF CleanInv
<1>1. recv' = 0 /\ held' = 0 /\ out' = <<>> /\ pc' = "idle"
  BY DEF Start
<1>2. Done' = 0
  BY <1>1 DEF Done
<1>3. 0 = 0 * PacketLen /\ \A k \in Nat : ~(k * PacketLen < 0)
  BY Times
<1>4. Len(out') = 0
  BY <1>1
<1>5. GivenInv'
  BY <1>2, <1>3, <1>4 DEF GivenInv, Whole
<1>6. SpaceInv'
  BY <1>1 DEF SpaceInv
<1> QED
  BY <1>5, <1>6

(* A transfer arrives.                                                     *)
LEMMA CleanReceive ==
    ASSUME SyncInv, SyncInv', CleanInv, Receive
    PROVE  CleanInv'
<1>1. SyncTypeInv /\ RegionInv
  BY DEF SyncInv
<1>2. PICK n \in scen.transfers :
        /\ pc = "idle"
        /\ recv' = recv + n
        /\ \/ /\ held = 0
              /\ Work(FALSE, recv, recv + n)
              /\ UNCHANGED held
           \/ /\ held > 0
              /\ Joins(n)
              /\ Work(TRUE, recv - held, recv - held + SyncSize)
              /\ held' = 0
           \/ /\ held > 0
              /\ ~Joins(n)
              /\ held' = held + n
              /\ UNCHANGED <<pc, joined, at, lim>>
        /\ UNCHANGED <<scen, out>>
  BY DEF Receive
<1>3. n \in Nat
  BY <1>1, ScenarioAssumption DEF SyncTypeInv
<1>4. recv \in Nat /\ held \in Nat /\ held <= recv /\ Done = recv - held
  BY <1>1, <1>2 DEF SyncTypeInv, RegionInv, Done
<1> SUFFICES ASSUME LongEnough', Clean' PROVE GivenInv' /\ SpaceInv'
  BY DEF CleanInv
<1>5. LongEnough /\ Clean /\ GivenInv /\ SpaceInv
  BY <1>2, <1>3, <1>4, CleanNow
<1>6. ~Variant.tagged => n >= 2 * SyncSize
  BY <1>5 DEF LongEnough
<1>7. Variant' = Variant
  BY <1>2 DEF Variant
<1>8. CASE held = 0 /\ Work(FALSE, recv, recv + n)
  <2>1. pc' = "scan" /\ joined' = FALSE /\ at' = recv /\ lim' = recv + n
    BY <1>8 DEF Work
  <2>2. Done' = Done
    BY <1>4, <1>8, <2>1 DEF Done
  <2>3. SpaceInv'
    BY <1>3, <1>4, <1>6, <1>7, <2>1, SyncSizeFacts DEF SpaceInv
  <2> QED
    BY <1>2, <1>5, <2>2, <2>3, GivenKept
<1>9. CASE Work(TRUE, recv - held, recv - held + SyncSize)
  <2>1. pc' = "scan" /\ joined' = TRUE /\ at' = recv - held /\ lim' = recv - held + SyncSize
    BY <1>9 DEF Work
  <2>2. Done' = Done
    BY <1>4, <2>1 DEF Done
  <2>3. SpaceInv'
    BY <1>2, <1>3, <1>4, <1>6, <1>7, <2>1, SyncSizeFacts DEF SpaceInv
  <2> QED
    BY <1>2, <1>5, <2>2, <2>3, GivenKept
<1>10. CASE held' = held + n /\ UNCHANGED <<pc, joined, at, lim>>
  <2>1. Done' = Done
    BY <1>2, <1>3, <1>4, <1>10 DEF Done
  <2>2. SpaceInv'
    BY <1>2, <1>10 DEF SpaceInv
  <2> QED
    BY <1>2, <1>5, <2>1, <2>2, GivenKept
<1> QED
  BY <1>2, <1>8, <1>9, <1>10

(* stream_process() returns: from remain_buf only when all of it is done.  *)
LEMMA CleanReturn ==
    ASSUME SyncInv, SpaceInv, pc = "scan", NEW p \in Nat, p <= lim, at <= p, lim - p < SyncSize,
           joined => p = lim, Return(p), UNCHANGED <<scen, recv, urb>>, out' \in Seq(Nat)
    PROVE  SpaceInv' /\ Done' = p
<1>1. SyncTypeInv /\ RegionInv
  BY DEF SyncInv
<1>2. Done' = p
  BY <1>1, ReturnStep
<1>3. Variant' = Variant
  BY DEF Variant
<1>4. CASE joined
  <2>1. pc' = "scan" /\ joined' = FALSE /\ at' = lim /\ lim' = recv
    BY <1>4 DEF Return, Work
  <2> QED
    BY <1>2, <1>3, <1>4, <2>1 DEF SpaceInv
<1>5. CASE ~joined
  <2>1. pc' = "idle"
    BY <1>5 DEF Return
  <2> QED
    BY <1>2, <2>1 DEF SpaceInv
<1> QED
  BY <1>4, <1>5

(* The search ends where the region ends.                                  *)
LEMMA CleanExhausted ==
    ASSUME SyncInv, SyncInv', CleanInv, Exhausted
    PROVE  CleanInv'
<1>1. pc = "scan" /\ at = lim /\ Return(at) /\ UNCHANGED <<scen, recv, urb, out>>
  BY DEF Exhausted
<1>2. at \in Nat /\ lim \in Nat /\ recv \in Nat /\ out \in Seq(Nat) /\ Done = at
  BY <1>1 DEF SyncInv, SyncTypeInv, Done
<1> SUFFICES ASSUME LongEnough', Clean' PROVE GivenInv' /\ SpaceInv'
  BY DEF CleanInv
<1>3. GivenInv /\ SpaceInv
  BY <1>1, <1>2, CleanNow
<1>4. SpaceInv' /\ Done' = at
  BY <1>1, <1>2, <1>3, CleanReturn, SyncSizeFacts, Sizes
<1> QED
  BY <1>1, <1>2, <1>3, <1>4, GivenKept

(* Too few bytes are left only outside remain_buf.                         *)
LEMMA CleanTooShort ==
    ASSUME SyncInv, SyncInv', CleanInv, TooShort
    PROVE  CleanInv'
<1>1. pc = "scan" /\ at < lim /\ Return(at) /\ UNCHANGED <<scen, recv, urb, out>>
  BY DEF TooShort
<1>2. at \in Nat /\ lim \in Nat /\ recv \in Nat /\ out \in Seq(Nat) /\ Done = at
  BY <1>1 DEF SyncInv, SyncTypeInv, Done
<1>3. PICK i \in 0..(SyncCount - 1) : at + (i + 1) * PacketLen > lim
  BY DEF TooShort
<1>4. PICK b \in Nat : b = (i + 1) * PacketLen /\ b <= SyncSize
  BY Sizes, SyncSizeFacts, TimesMonotone, Times
<1>5. lim - at < SyncSize /\ lim < at + SyncSize
  BY <1>2, <1>3, <1>4, SyncSizeFacts
<1> SUFFICES ASSUME LongEnough', Clean' PROVE GivenInv' /\ SpaceInv'
  BY DEF CleanInv
<1>6. GivenInv /\ SpaceInv
  BY <1>1, <1>2, CleanNow
<1>7. ~joined
  BY <1>1, <1>2, <1>5, <1>6, SyncSizeFacts DEF SpaceInv
<1>8. SpaceInv' /\ Done' = at
  BY <1>1, <1>2, <1>5, <1>6, <1>7, CleanReturn
<1> QED
  BY <1>1, <1>2, <1>6, <1>8, GivenKept

(* A wrong byte is never met.                                              *)
LEMMA CleanSlip ==
    ASSUME SyncInv, SyncInv', CleanInv, Slip
    PROVE  CleanInv'
<1>1. pc = "scan" /\ UNCHANGED <<scen, recv, lim>>
  BY DEF Slip, MoveTo
<1>2. PICK i \in 0..(SyncCount - 1) :
        at + (i + 1) * PacketLen <= lim /\ ~HasSync(at + i * PacketLen)
  BY DEF Slip
<1>3. SyncTypeInv /\ at \in Nat /\ lim <= recv /\ recv \in Nat /\ Done = at
  BY <1>1 DEF SyncInv, SyncTypeInv, RegionInv, Done
<1> SUFFICES ASSUME LongEnough', Clean' PROVE FALSE
  BY DEF CleanInv
<1>4. Clean /\ GivenInv
  BY <1>1, <1>3, CleanNow
<1>5. i \in Nat /\ i + 1 \in Nat /\ i \in 0..((i + 1) - 1) /\ Whole(at)
  BY <1>3, <1>4, Sizes DEF GivenInv
<1>6. Run(at, i + 1)
  BY <1>2, <1>3, <1>4, <1>5, CleanRun
<1> QED
  BY <1>2, <1>5, <1>6 DEF Run

(* SyncCount packets in sync.                                              *)
LEMMA CleanInSync ==
    ASSUME SyncInv, SyncInv', CleanInv, InSync
    PROVE  CleanInv'
<1>1. /\ pc = "scan" /\ pc' = "emit" /\ Variant.tagged
      /\ UNCHANGED <<scen, recv, held, joined, urb, at, lim, out>>
  BY DEF InSync
<1>2. Done' = Done /\ recv \in Nat /\ Variant' = Variant
  BY <1>1 DEF SyncInv, SyncTypeInv, Done, Variant
<1> SUFFICES ASSUME LongEnough', Clean' PROVE GivenInv' /\ SpaceInv'
  BY DEF CleanInv
<1>3. GivenInv
  BY <1>1, <1>2, CleanNow
<1>4. SpaceInv'
  BY <1>1, <1>2 DEF SpaceInv
<1> QED
  BY <1>1, <1>2, <1>3, <1>4, GivenKept

(* A packet goes out.                                                      *)
LEMMA CleanEmit ==
    ASSUME SyncInv, SyncInv', CleanInv, Emit
    PROVE  CleanInv'
<1>1. /\ pc = "emit" /\ at' = at + PacketLen
      /\ UNCHANGED <<scen, recv, urb, held, pc, joined, lim>>
      /\ out' = IF stream[at] \in Variant.ids THEN Append(out, at) ELSE out
  BY DEF Emit, MoveTo
<1>2. at \in Nat /\ recv \in Nat /\ out \in Seq(Nat) /\ Done = at /\ Variant' = Variant
  BY <1>1 DEF SyncInv, SyncTypeInv, Done, Variant
<1> SUFFICES ASSUME LongEnough', Clean' PROVE GivenInv' /\ SpaceInv'
  BY DEF CleanInv
<1>3. GivenInv /\ SpaceInv
  BY <1>1, <1>2, CleanNow
<1>4. SpaceInv'
  BY <1>1, <1>2, <1>3 DEF SpaceInv
<1>5. Done' = at + 1 * PacketLen
  BY <1>1, <1>2, Times DEF Done
<1>6. 0..(1 - 1) = {0} /\ at + 0 * PacketLen = at
  BY <1>2, Times
<1>7. \A i \in 1..Len(out) : i \in 1..Len(out') /\ out'[i] = out[i]
  BY <1>1, <1>2
<1>8. \A j \in 0..(1 - 1) : stream[at + j * PacketLen] \in Variant.ids
               => \E i \in 1..Len(out') : out'[i] = at + j * PacketLen
  <2> SUFFICES ASSUME stream[at] \in Variant.ids
               PROVE  \E i \in 1..Len(out') : out'[i] = at
    BY <1>6
  <2>1. Len(out') = Len(out) + 1 /\ out'[Len(out) + 1] = at
    BY <1>1, <1>2
  <2> QED
    BY <1>2, <2>1
<1>9. \A i \in 1..Len(out') :
        i \in 1..Len(out) \/ \E j \in 0..(1 - 1) : out'[i] = at + j * PacketLen
  <2>1. \A i \in 1..Len(out') : i \in 1..Len(out) \/ out'[i] = at
    BY <1>1, <1>2
  <2> QED
    BY <1>6, <2>1
<1>10. GivenInv'
  BY <1>1, <1>2, <1>3, <1>5, <1>7, <1>8, <1>9, GivenGrows
<1> QED
  BY <1>4, <1>10

(* No further packet in sync.                                              *)
LEMMA CleanEmitEnd ==
    ASSUME SyncInv, SyncInv', CleanInv, EmitEnd
    PROVE  CleanInv'
<1>1. /\ pc = "emit" /\ pc' = "scan"
      /\ UNCHANGED <<scen, recv, held, joined, urb, at, lim, out>>
  BY DEF EmitEnd
<1>2. Done' = Done /\ recv \in Nat /\ Variant' = Variant /\ at \in Nat /\ lim \in Nat
  BY <1>1 DEF SyncInv, SyncTypeInv, Done, Variant
<1> SUFFICES ASSUME LongEnough', Clean' PROVE GivenInv' /\ SpaceInv'
  BY DEF CleanInv
<1>3. GivenInv /\ SpaceInv
  BY <1>1, <1>2, CleanNow
<1>4. Variant.tagged
  BY <1>1, <1>3 DEF SpaceInv
<1>5. joined => at = lim
  BY EmitEndsAtLim
<1>6. SpaceInv'
  BY <1>1, <1>2, <1>4, <1>5 DEF SpaceInv
<1> QED
  BY <1>1, <1>2, <1>3, <1>6, GivenKept

(* The plain parser always finds SyncCount packets.                        *)
LEMMA PlainRoom ==
    ASSUME SyncInv, Clean, GivenInv, SpaceInv, pc = "scan", ~Variant.tagged, at < lim
    PROVE  RunLength >= SyncCount
<1>1. SyncTypeInv /\ at \in Nat /\ lim \in Nat /\ lim <= recv /\ Done = at
  BY DEF SyncInv, SyncTypeInv, RegionInv, Done
<1>2. RunLength \in Nat /\ ~Run(at, RunLength + 1)
  BY <1>1, RunLengthExists
<1>3. at + SyncSize <= lim
  BY <1>1 DEF SpaceInv
<1>4. PICK n \in Nat : n = RunLength
  BY <1>2
<1>5. ASSUME n < SyncCount PROVE FALSE
  <2>1. n + 1 \in Nat /\ n + 1 <= SyncCount
    BY <1>5, Sizes
  <2>2. (n + 1) * PacketLen <= SyncSize /\ (n + 1) * PacketLen \in Nat
    BY <2>1, Sizes, SyncSizeFacts, TimesMonotone, Times
  <2>3. PICK b \in Nat : b = (n + 1) * PacketLen
    BY <2>2
  <2>4. at + (n + 1) * PacketLen <= lim
    BY <1>1, <1>3, <2>2, <2>3, SyncSizeFacts
  <2>5. Run(at, n + 1)
    BY <1>1, <2>1, <2>4, CleanRun DEF GivenInv
  <2> QED
    BY <1>2, <1>4, <2>5
<1> QED
  BY <1>4, <1>5, Sizes

(* So it never moves on by a byte.                                         *)
LEMMA CleanPlainSlip ==
    ASSUME SyncInv, SyncInv', CleanInv, PlainSlip
    PROVE  CleanInv'
<1>1. pc = "scan" /\ ~Variant.tagged /\ at < lim /\ UNCHANGED <<scen, recv>>
  BY DEF PlainSlip
<1>2. recv \in Nat
  BY DEF SyncInv, SyncTypeInv
<1>3. SyncTypeInv /\ at \in Nat /\ lim \in Nat
  BY DEF SyncInv, SyncTypeInv
<1> SUFFICES ASSUME LongEnough', Clean' PROVE FALSE
  BY DEF CleanInv
<1>4. Clean /\ GivenInv /\ SpaceInv
  BY <1>1, <1>2, CleanNow
<1>5. RunLength >= SyncCount /\ RunLength \in Nat
  BY <1>1, <1>3, <1>4, PlainRoom, RunLengthExists
<1>6. RunLength < SyncCount
  BY DEF PlainSlip
<1> QED
  BY <1>5, <1>6, Sizes

(* The packets of a run are added to what was handed out.                  *)
LEMMA PlainEmitOut ==
    ASSUME SyncInv, SyncInv', PlainEmit, NEW n \in Nat, n = RunLength
    PROVE  /\ \A i \in 1..Len(out) : i \in 1..Len(out') /\ out'[i] = out[i]
           /\ \A j \in 0..(n - 1) : \E i \in 1..Len(out') : out'[i] = at + j * PacketLen
           /\ \A i \in 1..Len(out') :
                  i \in 1..Len(out) \/ \E j \in 0..(n - 1) : out'[i] = at + j * PacketLen
<1>1. at \in Nat /\ out \in Seq(Nat)
  BY DEF SyncInv, SyncTypeInv
<1>2. PICK new : new = [k \in 1..n |-> at + (k - 1) * PacketLen]
  OBVIOUS
<1>3. \A k \in 1..n : at + (k - 1) * PacketLen \in Nat
  <2> SUFFICES ASSUME NEW k \in 1..n PROVE at + (k - 1) * PacketLen \in Nat
    OBVIOUS
  <2>1. PICK j \in Nat : j = k - 1
    OBVIOUS
  <2>2. j * PacketLen \in Nat
    BY Times
  <2> QED
    BY <1>1, <2>1, <2>2
<1>4. new \in Seq(Nat) /\ Len(new) = n
  BY <1>2, <1>3
<1>5. out' = out \o new
  BY <1>2, Zenon DEF PlainEmit
<1>6. Len(out) \in Nat /\ Len(out \o new) = Len(out) + Len(new)
  <2>1. Len(out) \in Nat
    BY <1>1
  <2>2. Len(out \o new) = Len(out) + Len(new)
    BY <1>1, <1>4, ConcatProperties
  <2> QED
    BY <2>1, <2>2
<1>7. Len(out') = Len(out) + n
  BY <1>4, <1>5, <1>6
<1>8. \A i \in 1..Len(out) : i \in 1..Len(out') /\ out'[i] = out[i]
  BY <1>1, <1>4, <1>5, <1>6, <1>7
<1>9. \A k \in 1..n : out'[Len(out) + k] = new[k] /\ Len(out) + k \in 1..Len(out')
  BY <1>1, <1>4, <1>5, <1>6, <1>7
<1>10. ASSUME NEW j \in 0..(n - 1)
      PROVE  \E i \in 1..Len(out') : out'[i] = at + j * PacketLen
  <2>1. j + 1 \in 1..n /\ (j + 1) - 1 = j
    OBVIOUS
  <2>2. new[j + 1] = at + j * PacketLen
    BY <1>2, <2>1
  <2> QED
    BY <1>9, <2>1, <2>2
<1>11. ASSUME NEW i \in 1..Len(out'), i \notin 1..Len(out)
      PROVE  \E j \in 0..(n - 1) : out'[i] = at + j * PacketLen
  <2>1. PICK l \in Nat : l = Len(out)
    BY <1>6, <1>7
  <2>2. i \in Nat /\ l < i /\ i <= l + n
    BY <1>6, <1>7, <1>11, <2>1
  <2>3. PICK k \in Nat : i = l + k
    BY <2>2, i - l \in Nat
  <2>4. k \in 1..n /\ k - 1 \in 0..(n - 1)
    BY <2>2, <2>3
  <2>5. out'[i] = at + (k - 1) * PacketLen
    BY <1>2, <1>9, <2>1, <2>3, <2>4
  <2> QED
    BY <2>4, <2>5
<1> QED
  BY <1>8, <1>10, <1>11

(* All packets of the region go out, and stream_process() returns.         *)
LEMMA CleanPlainEmit ==
    ASSUME SyncInv, SyncInv', CleanInv, PlainEmit
    PROVE  CleanInv'
<1>1. SyncTypeInv /\ RegionInv
  BY DEF SyncInv
<1>2. at \in Nat /\ lim \in Nat /\ recv \in Nat /\ at < lim /\ pc = "scan" /\ ~Variant.tagged /\ Done = at
  BY <1>1 DEF PlainEmit, SyncTypeInv, Done
<1>3. RunLength \in Nat /\ Run(at, RunLength) /\ ~Run(at, RunLength + 1)
  BY <1>1, <1>2, RunLengthExists
<1>4. PICK n \in Nat : n = RunLength
  BY <1>3
<1>5. PICK end \in Nat : end = at + n * PacketLen
  BY <1>2, Times
<1>6. /\ n >= SyncCount
      /\ out' = out \o [k \in 1..n |-> at + (k - 1) * PacketLen]
      /\ IF end + PacketLen > lim THEN Return(end) ELSE MoveTo(end)
      /\ UNCHANGED <<scen, recv, urb>>
  BY <1>4, <1>5 DEF PlainEmit
<1>7. out \in Seq(Nat) /\ out' \in Seq(Nat)
  BY DEF SyncInv, SyncTypeInv
<1> SUFFICES ASSUME LongEnough', Clean' PROVE GivenInv' /\ SpaceInv'
  BY DEF CleanInv
<1>8. Clean /\ GivenInv /\ SpaceInv
  BY <1>2, <1>6, CleanNow
<1>9. at <= end /\ end <= lim /\ at + SyncSize <= end
  <2>1. at + n * PacketLen <= lim
    BY <1>3, <1>4 DEF Run
  <2>2. SyncSize <= n * PacketLen /\ n * PacketLen \in Nat
    BY <1>6, Sizes, SyncSizeFacts, TimesMonotone, Times
  <2>3. PICK b \in Nat : b = n * PacketLen
    BY <2>2
  <2> QED
    BY <1>2, <1>5, <2>1, <2>2, <2>3, SyncSizeFacts
<1>10. end + PacketLen > lim
  <2> SUFFICES ASSUME ~(end + PacketLen > lim) PROVE FALSE
    OBVIOUS
  <2>1. (n + 1) * PacketLen = n * PacketLen + PacketLen /\ n * PacketLen \in Nat
    BY Times
  <2>2. at + (n + 1) * PacketLen <= lim
    BY <1>2, <1>5, <2>1, Sizes
  <2>3. n + 1 \in Nat /\ Whole(at) /\ lim <= recv
    BY <1>1, <1>2, <1>8 DEF GivenInv, RegionInv
  <2>4. Run(at, n + 1)
    BY <1>1, <1>8, <2>2, <2>3, CleanRun
  <2> QED
    BY <1>3, <1>4, <2>4
<1>11. Return(end) /\ lim - end < SyncSize
  BY <1>2, <1>6, <1>9, <1>10, Sizes, SyncSizeFacts
<1>12. joined => end = lim
  BY <1>2, <1>8, <1>9, SyncSizeFacts DEF SpaceInv
<1>13. SpaceInv' /\ Done' = end
  BY <1>2, <1>6, <1>7, <1>8, <1>9, <1>11, <1>12, CleanReturn
<1>14. Done' = at + n * PacketLen
  BY <1>5, <1>13
<1>15. GivenInv'
  BY <1>2, <1>4, <1>6, <1>8, <1>14, PlainEmitOut, GivenGrows
<1> QED
  BY <1>13, <1>15

(* A step that changes nothing.                                            *)
LEMMA CleanStutter ==
    ASSUME CleanInv, UNCHANGED syncVars
    PROVE  CleanInv'
BY DEF syncVars, CleanInv, LongEnough, Clean, GivenInv, SpaceInv, Whole, Done, HasSync, stream, Variant

(* Of a stream in sync from its first byte on stream_process() loses no    *)
(* packet and hands out nothing but packets, however the transfers cut it: *)
(* for the tagged families whatever their lengths, for the plain ones when *)
(* a transfer carries twice what remain_buf holds.                         *)
THEOREM CleanIsDelivered == SyncSpec => []CleanDelivered
<1>1. SyncInv /\ SyncInv' /\ CleanInv /\ [SyncNext]_syncVars => CleanInv'
  BY CleanReceive, CleanStart, CleanExhausted, CleanTooShort, CleanSlip, CleanInSync,
     CleanEmit, CleanEmitEnd, CleanPlainSlip, CleanPlainEmit, CleanStutter DEF SyncNext
<1>2. ASSUME SyncInv, CleanInv PROVE CleanDelivered
  <2> SUFFICES ASSUME LongEnough, pc = "idle", InSyncFrom(0)
               PROVE  {out[i] : i \in 1..Len(out)} =
                        {p \in Grid(0) : /\ p + PacketLen <= recv - held
                                         /\ stream[p] \in Variant.ids}
    BY DEF CleanDelivered
  <2>1. SyncTypeInv /\ RegionInv /\ OutInv
    BY <1>2 DEF SyncInv
  <2>2. GivenInv
    BY <1>2, <2>1, CleanIsInSync DEF CleanInv
  <2>3. Done = recv - held /\ Done \in Nat /\ recv \in Nat /\ Done <= recv
    BY <2>1 DEF Done, SyncTypeInv, RegionInv
  <2>4. ASSUME NEW i \in 1..Len(out)
        PROVE  /\ out[i] \in Grid(0)
               /\ out[i] + PacketLen <= recv - held /\ stream[out[i]] \in Variant.ids
    <3>1. out[i] \in Nat /\ out[i] + PacketLen <= Done /\ stream[out[i]] \in Variant.ids
      BY <2>1 DEF SyncTypeInv, OutInv
    <3>2. PICK k \in Nat : out[i] = k * PacketLen
      BY <2>2 DEF GivenInv, Whole
    <3>3. k <= out[i]
      BY <3>2, Times
    <3>4. k \in 0..recv
      BY <2>3, <3>1, <3>3, Sizes
    <3>5. out[i] = 0 + k * PacketLen
      BY <3>1, <3>2
    <3> QED
      BY <2>3, <3>1, <3>4, <3>5 DEF Grid
  <2>5. ASSUME NEW p \in Grid(0), p + PacketLen <= recv - held, stream[p] \in Variant.ids
        PROVE  \E i \in 1..Len(out) : out[i] = p
    <3>1. PICK k \in 0..recv : p = 0 + k * PacketLen
      BY <2>5 DEF Grid
    <3>2. k \in Nat /\ p \in Nat /\ p = k * PacketLen
      BY <3>1, Times
    <3>3. p < Done
      BY <2>3, <2>5, <3>2, Sizes
    <3> QED
      BY <2>2, <2>5, <3>2, <3>3 DEF GivenInv
  <2> QED
    BY <2>4, <2>5
<1> QED
  BY <1>1, <1>2, CleanInit, SyncInvariance, PTL DEF SyncSpec

-----------------------------------------------------------------------------
(* A stream that begins with noise                                         *)

(* p is where a packet begins when the first one begins at q.              *)
On(q, p) == \E k \in Nat : p = q + k * PacketLen

Noisy(q) == \A p \in Nat : p < recv => (HasSync(p) <=> On(q, p))

(* From SyncCount packets after q on, all packets were handed out that     *)
(* name a receiver.                                                        *)
FoundInv(q) ==
    \A p \in Nat :
        On(q, p) /\ q + SyncSize <= p /\ p < Done /\ stream[p] \in Variant.ids
            => \E i \in 1..Len(out) : out[i] = p

(* Where the tagged parser stands: before q or at a packet, except while   *)
(* it searches a transfer that holds the next packet.                      *)
TaggedInv(q) ==
    /\ pc = "idle" => Done <= q \/ On(q, Done)
    /\ pc = "emit" => On(q, at)
    /\ pc = "scan" /\ ~joined =>
          at <= q \/ On(q, at) \/ \E a \in Nat : On(q, a) /\ at <= a /\ a + PacketLen <= lim
    /\ pc = "scan" /\ joined =>
          \/ On(q, at) /\ (at = lim \/ at + SyncSize = lim)
          \/ at <= q /\ urb < q + SyncSize
    /\ pc # "idle" /\ joined => urb + SyncSize <= recv

(* Where the plain parser stands: it keeps bytes only from a packet on,    *)
(* and searches the transfers that may hold SyncCount packets.             *)
PlainInv(q) ==
    /\ pc # "emit"
    /\ pc = "idle" => On(q, Done) \/ (held = 0 /\ Done < q + SyncSize)
    /\ pc = "scan" /\ ~joined =>
          \/ lim < q + SyncSize
          \/ \E a \in Nat : On(q, a) /\ at <= a /\ a + SyncSize <= lim
    /\ pc = "scan" /\ joined => On(q, at) /\ at + SyncSize = lim /\ lim + SyncSize <= recv

PlaceInv(q) == /\ Variant.tagged => TaggedInv(q)
               /\ ~Variant.tagged => PlainInv(q)

NoiseInv == \A q \in Nat : RoomToSync /\ Noisy(q) => FoundInv(q) /\ PlaceInv(q)

-----------------------------------------------------------------------------
(* Packets that begin at q, and the ones after a packet.                   *)
LEMMA OnFacts ==
    ASSUME NEW q \in Nat, NEW p, On(q, p)
    PROVE  /\ p \in Nat /\ q <= p
           /\ \A j \in Nat : On(q, p + j * PacketLen)
           /\ On(q, p + PacketLen)
<1>1. PICK k \in Nat : p = q + k * PacketLen
  BY DEF On
<1>2. p \in Nat /\ q <= p
  <2>1. k * PacketLen \in Nat
    BY Times
  <2> QED
    BY <1>1, <2>1
<1>3. ASSUME NEW j \in Nat PROVE On(q, p + j * PacketLen)
  <2>1. (k + j) * PacketLen = k * PacketLen + j * PacketLen
    BY TimesAdd
  <2>2. k * PacketLen \in Nat /\ j * PacketLen \in Nat
    BY Times
  <2>3. p + j * PacketLen = q + (k + j) * PacketLen
    BY <1>1, <2>1, <2>2
  <2> QED
    BY <2>3 DEF On
<1>4. On(q, p + PacketLen)
  BY <1>3, Times
<1> QED
  BY <1>2, <1>3, <1>4

(* The grid of packets from q begins at q.                                 *)
LEMMA OnStart ==
    ASSUME NEW q \in Nat
    PROVE  On(q, q)
BY Times DEF On

(* From q on a packet begins among any PacketLen bytes.                    *)
LEMMA NextOn ==
    ASSUME NEW q \in Nat, NEW p \in Nat, q <= p
    PROVE  \E a \in Nat : On(q, a) /\ p <= a /\ a < p + PacketLen
<1> DEFINE T == {k \in Nat : p <= q + k * PacketLen}
<1>1. p \in T
  <2>1. PICK x \in Nat : x = p * PacketLen /\ p <= x
    BY Times
  <2>2. p <= q + p * PacketLen
    BY <2>1
  <2> QED
    BY <2>2
<1>2. PICK k \in T : \A y \in T : k <= y
  BY <1>1, LeastElement
<1>3. PICK a \in Nat : a = q + k * PacketLen
  BY <1>2, Times
<1>4. On(q, a) /\ p <= a
  BY <1>2, <1>3 DEF On
<1>5. a < p + PacketLen
  <2>1. CASE k = 0
    BY <1>3, <2>1, Times, Sizes
  <2>2. CASE k # 0
    <3>1. PICK j \in Nat : k = j + 1
      BY <1>2, <2>2
    <3>2. j \notin T
      BY <1>2, <3>1
    <3>3. PICK x \in Nat : x = j * PacketLen
      BY Times
    <3>4. ~(p <= q + x)
      BY <3>2, <3>3
    <3>5. k * PacketLen = x + PacketLen
      BY <3>1, <3>3, Times
    <3> QED
      BY <1>3, <3>3, <3>4, <3>5, Sizes
  <2> QED
    BY <2>1, <2>2
<1> QED
  BY <1>4, <1>5

(* Packets are whole numbers of packets apart.                             *)
LEMMA OnApart ==
    ASSUME NEW q \in Nat, NEW d, On(q, d), NEW p, On(q, p), d <= p,
           NEW n \in Nat, p < d + n * PacketLen
    PROVE  \E j \in 0..(n - 1) : p = d + j * PacketLen
<1>1. PICK a \in Nat : d = q + a * PacketLen
  BY DEF On
<1>2. PICK k \in Nat : p = q + k * PacketLen
  BY DEF On
<1>3. PICK x \in Nat : x = a * PacketLen
  BY Times
<1>4. PICK y \in Nat : y = k * PacketLen
  BY Times
<1>5. PICK z \in Nat : z = n * PacketLen
  BY Times
<1>6. ~(y < x)
  BY <1>1, <1>2, <1>3, <1>4
<1>7. ~(k < a)
  BY <1>3, <1>4, <1>6, TimesLess
<1>8. PICK j \in Nat : k = a + j
  BY <1>7, k - a \in Nat
<1>9. (a + n) * PacketLen = x + z
  BY <1>3, <1>5, TimesAdd
<1>10. y < x + z
  BY <1>1, <1>2, <1>3, <1>4, <1>5
<1>11. k < a + n
  BY <1>4, <1>9, <1>10, a + n \in Nat, TimesLess
<1>12. j \in 0..(n - 1)
  BY <1>8, <1>11
<1>13. y = x + j * PacketLen /\ j * PacketLen \in Nat
  BY <1>3, <1>4, <1>8, TimesAdd
<1>14. p = d + j * PacketLen
  BY <1>1, <1>2, <1>3, <1>4, <1>13
<1> QED
  BY <1>12, <1>14

(* Packets up to the end of a region are in sync, and nothing else is.     *)
LEMMA NoisyRun ==
    ASSUME SyncTypeInv, NEW q \in Nat, Noisy(q), lim <= recv, NEW p, On(q, p),
           NEW n \in Nat, p + n * PacketLen <= lim
    PROVE  Run(p, n)
<1>1. lim \in Nat /\ recv \in Nat /\ p \in Nat
  BY OnFacts DEF SyncTypeInv
<1>2. ASSUME NEW i \in 0..(n - 1) PROVE HasSync(p + i * PacketLen)
  <2>1. i \in Nat /\ i < n
    OBVIOUS
  <2>2. On(q, p + i * PacketLen)
    BY <2>1, OnFacts
  <2>3. i * PacketLen < n * PacketLen
    BY <2>1, TimesLess
  <2>4. PICK x \in Nat : x = i * PacketLen
    BY <2>1, Times
  <2>5. PICK y \in Nat : y = n * PacketLen
    BY Times
  <2>6. p + x \in Nat /\ p + x < recv
    BY <1>1, <2>3, <2>4, <2>5
  <2> QED
    BY <2>2, <2>4, <2>6 DEF Noisy
<1> QED
  BY <1>2 DEF Run

(* In a noisy stream whatever looks like a packet in sync lies on the      *)
(* grid.                                                                   *)
LEMMA NoisyOn ==
    ASSUME SyncTypeInv, NEW q \in Nat, Noisy(q), lim <= recv, NEW p \in Nat,
           NEW n \in Nat, n >= 1, Run(p, n)
    PROVE  On(q, p)
<1>1. lim \in Nat /\ recv \in Nat
  BY DEF SyncTypeInv
<1>2. PICK m \in Nat : n = m + 1
  BY n - 1 \in Nat
<1>3. Run(p, 1)
  BY <1>2, RunFacts
<1>4. p + PacketLen <= lim /\ HasSync(p)
  BY <1>3, RunFacts
<1>5. p < recv
  BY <1>1, <1>4, Sizes
<1> QED
  BY <1>4, <1>5 DEF Noisy

(* It is the stream Resyncs speaks of.                                     *)
LEMMA NoisyIsNoise ==
    ASSUME SyncTypeInv, NEW q \in Nat
    PROVE  NoiseUpTo(q) <=> Noisy(q)
<1>1. recv \in Nat
  BY DEF SyncTypeInv
<1>2. ASSUME NEW p \in Nat, p < recv PROVE p \in Grid(q) <=> On(q, p)
  <2>1. ASSUME On(q, p) PROVE p \in Grid(q)
    <3>1. PICK k \in Nat : p = q + k * PacketLen
      BY <2>1 DEF On
    <3>2. PICK x \in Nat : x = k * PacketLen /\ k <= x
      BY Times
    <3>3. k \in 0..recv
      BY <1>1, <1>2, <3>1, <3>2
    <3> QED
      BY <3>1, <3>3 DEF Grid
  <2>2. ASSUME p \in Grid(q) PROVE On(q, p)
    BY <1>1, <2>2 DEF Grid, On
  <2> QED
    BY <2>1, <2>2
<1>3. \A p : p \in 0..(recv - 1) <=> p \in Nat /\ p < recv
  BY <1>1
<1> QED
  BY <1>2, <1>3 DEF NoiseUpTo, Noisy

(* The bytes that arrive do not change what has arrived.                   *)
LEMMA NoisyBefore ==
    ASSUME SyncTypeInv, SyncTypeInv', scen' = scen, recv <= recv', NEW q \in Nat, Noisy(q)'
    PROVE  Noisy(q)
<1>1. recv \in Nat /\ recv' \in Nat
  BY DEF SyncTypeInv
<1>2. ASSUME NEW p \in Nat, p < recv PROVE HasSync(p) <=> On(q, p)
  <2>1. p < recv'
    BY <1>1, <1>2
  <2>2. HasSync(p)' <=> On(q, p)
    BY <2>1 DEF Noisy, On
  <2> QED
    BY <2>2 DEF HasSync, stream, Variant
<1> QED
  BY <1>2 DEF Noisy

(* The parser passes no packet, or none that must be found.                *)
LEMMA FoundKept ==
    ASSUME NEW q \in Nat, FoundInv(q), out' = out, scen' = scen, Done \in Nat, Done' \in Nat,
           \/ Done' <= Done
           \/ Done' <= q + SyncSize
           \/ Done' = Done + 1 /\ ~On(q, Done)
    PROVE  FoundInv(q)'
<1>1. stream' = stream /\ Variant' = Variant
  BY DEF stream, Variant
<1>2. ASSUME NEW p \in Nat, On(q, p), q + SyncSize <= p, p < Done', stream[p] \in Variant.ids
      PROVE  \E i \in 1..Len(out) : out[i] = p
  <2>1. p < Done
    BY <1>2, SyncSizeFacts
  <2> QED
    BY <1>2, <2>1 DEF FoundInv
<1> QED
  BY <1>1, <1>2 DEF FoundInv, On

(* The next n packets are passed, each handed out that names a receiver.   *)
LEMMA FoundGrows ==
    ASSUME NEW q \in Nat, FoundInv(q), scen' = scen,
           NEW d \in Nat, Done = d, On(q, d), NEW n \in Nat, Done' = d + n * PacketLen,
           \A i \in 1..Len(out) : i \in 1..Len(out') /\ out'[i] = out[i],
           \A j \in 0..(n - 1) : stream[d + j * PacketLen] \in Variant.ids
               => \E i \in 1..Len(out') : out'[i] = d + j * PacketLen
    PROVE  FoundInv(q)'
<1>1. stream' = stream /\ Variant' = Variant
  BY DEF stream, Variant
<1>2. ASSUME NEW p \in Nat, On(q, p), q + SyncSize <= p, p < Done', stream[p] \in Variant.ids
      PROVE  \E i \in 1..Len(out') : out'[i] = p
  <2>1. CASE p < d
    <3>1. PICK i \in 1..Len(out) : out[i] = p
      BY <1>2, <2>1 DEF FoundInv
    <3> QED
      BY <3>1
  <2>2. CASE d <= p
    <3>1. PICK j \in 0..(n - 1) : p = d + j * PacketLen
      BY <1>2, <2>2, OnApart
    <3> QED
      BY <1>2, <3>1
  <2> QED
    BY <2>1, <2>2
<1> QED
  BY <1>1, <1>2 DEF FoundInv, On

(* What NoiseInv says in a state from which a step leads to one it speaks  *)
(* of.                                                                     *)
LEMMA NoiseNow ==
    ASSUME SyncInv, SyncInv', NoiseInv, scen' = scen, recv <= recv',
           NEW q \in Nat, RoomToSync', Noisy(q)'
    PROVE  RoomToSync /\ Noisy(q) /\ FoundInv(q) /\ PlaceInv(q)
<1>1. Noisy(q)
  BY NoisyBefore DEF SyncInv
<1>2. RoomToSync
  BY DEF RoomToSync, Variant
<1> QED
  BY <1>1, <1>2 DEF NoiseInv
(* At first.                                                               *)
LEMMA NoiseInit == SyncInit => NoiseInv
<1> SUFFICES ASSUME SyncInit, NEW q \in Nat PROVE FoundInv(q) /\ PlaceInv(q)
  BY DEF NoiseInv
<1>1. pc = "idle" /\ held = 0 /\ Done = 0
  BY DEF SyncInit, Done
<1>2. FoundInv(q)
  BY <1>1 DEF FoundInv
<1>3. PlaceInv(q)
  BY <1>1, SyncSizeFacts, Sizes DEF PlaceInv, TaggedInv, PlainInv
<1> QED
  BY <1>2, <1>3

(* Start of a stream.                                                      *)
LEMMA NoiseStart ==
    ASSUME Start
    PROVE  NoiseInv'
<1> SUFFICES ASSUME NEW q \in Nat PROVE FoundInv(q)' /\ PlaceInv(q)'
  BY DEF NoiseInv
<1>1. pc' = "idle" /\ held' = 0 /\ Done' = 0
  BY DEF Start, Done
<1>2. FoundInv(q)'
  BY <1>1 DEF FoundInv
<1>3. PlaceInv(q)'
  BY <1>1, SyncSizeFacts, Sizes DEF PlaceInv, TaggedInv, PlainInv
<1> QED
  BY <1>2, <1>3

(* A transfer arrives, long enough for the parser of its family.           *)
LEMMA NoiseReceive ==
    ASSUME SyncInv, SyncInv', NoiseInv, Receive
    PROVE  NoiseInv'
<1>1. SyncTypeInv /\ RegionInv
  BY DEF SyncInv
<1>2. PICK n \in scen.transfers :
        /\ pc = "idle"
        /\ recv' = recv + n
        /\ urb' = recv
        /\ \/ /\ held = 0
              /\ Work(FALSE, recv, recv + n)
              /\ UNCHANGED held
           \/ /\ held > 0
              /\ Joins(n)
              /\ Work(TRUE, recv - held, recv - held + SyncSize)
              /\ held' = 0
           \/ /\ held > 0
              /\ ~Joins(n)
              /\ held' = held + n
              /\ UNCHANGED <<pc, joined, at, lim>>
        /\ UNCHANGED <<scen, out>>
  BY DEF Receive
<1>3. n \in Nat
  BY <1>1, ScenarioAssumption DEF SyncTypeInv
<1>4. /\ recv \in Nat /\ held \in Nat /\ held <= recv /\ held < SyncSize
      /\ Done = recv - held /\ Done \in Nat
  BY <1>1, <1>2 DEF SyncTypeInv, RegionInv, Done
<1> SUFFICES ASSUME NEW q \in Nat, RoomToSync', Noisy(q)' PROVE FoundInv(q)' /\ PlaceInv(q)'
  BY DEF NoiseInv
<1>5. RoomToSync /\ FoundInv(q) /\ PlaceInv(q)
  BY <1>2, <1>3, <1>4, NoiseNow
<1>6. Variant' = Variant
  BY <1>2 DEF Variant
<1>7. Done' = Done
  <2>1. CASE Work(FALSE, recv, recv + n) /\ held = 0
    BY <1>4, <2>1 DEF Done, Work
  <2>2. CASE Work(TRUE, recv - held, recv - held + SyncSize)
    BY <1>4, <2>2 DEF Done, Work
  <2>3. CASE held' = held + n /\ UNCHANGED <<pc, joined, at, lim>>
    BY <1>2, <1>3, <1>4, <2>3 DEF Done
  <2> QED
    BY <1>2, <2>1, <2>2, <2>3
<1>8. FoundInv(q)'
  BY <1>2, <1>4, <1>5, <1>7, FoundKept
<1>9. ASSUME Variant.tagged PROVE TaggedInv(q)'
  <2>1. n >= SyncSize
    BY <1>5, <1>9 DEF RoomToSync
  <2>2. Done <= q \/ On(q, Done)
    BY <1>2, <1>5, <1>9 DEF PlaceInv, TaggedInv
  <2>3. CASE held = 0 /\ Work(FALSE, recv, recv + n)
    <3>1. pc' = "scan" /\ joined' = FALSE /\ at' = Done
      BY <1>4, <2>3 DEF Work
    <3> QED
      BY <2>2, <3>1 DEF TaggedInv, On
  <2>4. CASE Work(TRUE, recv - held, recv - held + SyncSize)
    <3>1. /\ pc' = "scan" /\ joined' = TRUE /\ at' = Done /\ lim' = Done + SyncSize
      BY <1>4, <2>4 DEF Work
    <3>2. urb' + SyncSize <= recv'
      BY <1>2, <1>3, <1>4, <2>1, SyncSizeFacts
    <3>3. Done <= q => urb' < q + SyncSize
      BY <1>2, <1>4, SyncSizeFacts
    <3> QED
      BY <2>2, <3>1, <3>2, <3>3 DEF TaggedInv, On
  <2>5. CASE held' = held + n /\ UNCHANGED <<pc, joined, at, lim>>
    BY <1>2, <1>7, <2>2, <2>5 DEF TaggedInv, On
  <2> QED
    BY <1>2, <2>3, <2>4, <2>5
<1>10. ASSUME ~Variant.tagged PROVE PlainInv(q)'
  <2>1. n >= 2 * SyncSize
    BY <1>5, <1>10 DEF RoomToSync
  <2>2. On(q, Done) \/ (held = 0 /\ Done < q + SyncSize)
    BY <1>2, <1>5, <1>10 DEF PlaceInv, PlainInv
  <2>3. CASE held = 0 /\ Work(FALSE, recv, recv + n)
    <3>1. pc' = "scan" /\ joined' = FALSE /\ at' = Done /\ lim' = Done + n
      BY <1>4, <2>3 DEF Work
    <3>2. lim' < q + SyncSize \/ \E a \in Nat : On(q, a) /\ Done <= a /\ a + SyncSize <= lim'
      <4>1. CASE Done <= q
        BY <1>3, <1>4, <3>1, <4>1, OnStart, SyncSizeFacts
      <4>2. CASE q <= Done
        <5>1. PICK a \in Nat : On(q, a) /\ Done <= a /\ a < Done + PacketLen
          BY <1>4, <4>2, NextOn
        <5>2. a + SyncSize <= Done + n
          BY <1>3, <1>4, <2>1, <5>1, SyncSizeFacts, Sizes
        <5> QED
          BY <3>1, <5>1, <5>2
      <4> QED
        BY <1>4, <4>1, <4>2
    <3> QED
      BY <3>1, <3>2 DEF PlainInv, On
  <2>4. CASE held > 0 /\ Work(TRUE, recv - held, recv - held + SyncSize)
    <3>1. /\ pc' = "scan" /\ joined' = TRUE /\ at' = Done /\ lim' = Done + SyncSize
      BY <1>4, <2>4 DEF Work
    <3>2. lim' + SyncSize <= recv'
      BY <1>2, <1>3, <1>4, <2>1, <3>1, SyncSizeFacts
    <3>3. On(q, Done)
      BY <1>4, <2>2, <2>4
    <3> QED
      BY <3>1, <3>2, <3>3 DEF PlainInv, On
  <2>5. CASE held > 0 /\ ~Joins(n)
    BY <1>3, <1>4, <2>1, <2>5, SyncSizeFacts DEF Joins
  <2> QED
    BY <1>2, <2>3, <2>4, <2>5
<1> QED
  BY <1>6, <1>8, <1>9, <1>10 DEF PlaceInv

(* stream_process() returns where it found nothing more: at the end of the *)
(* region, or with too few bytes.                                          *)
LEMMA NoiseExhausted ==
    ASSUME SyncInv, SyncInv', NoiseInv, Exhausted
    PROVE  NoiseInv'
<1>1. pc = "scan" /\ at = lim /\ Return(at) /\ UNCHANGED <<scen, recv, urb, out>>
  BY DEF Exhausted
<1>2. /\ SyncTypeInv /\ RegionInv
      /\ at \in Nat /\ lim \in Nat /\ recv \in Nat /\ out \in Seq(Nat) /\ Done = at
  BY <1>1 DEF SyncInv, SyncTypeInv, Done
<1>3. Done' = at
  BY <1>1, <1>2, ReturnStep, SyncSizeFacts, Sizes
<1>4. Variant' = Variant
  BY <1>1 DEF Variant
<1> SUFFICES ASSUME NEW q \in Nat, RoomToSync', Noisy(q)' PROVE FoundInv(q)' /\ PlaceInv(q)'
  BY DEF NoiseInv
<1>5. FoundInv(q) /\ PlaceInv(q)
  BY <1>1, <1>2, NoiseNow
<1>6. FoundInv(q)'
  BY <1>1, <1>2, <1>3, <1>5, FoundKept
<1>7. CASE joined
  <2>1. pc' = "scan" /\ joined' = FALSE /\ at' = lim /\ lim' = recv
    BY <1>1, <1>7 DEF Return, Work
  <2>2. ASSUME Variant.tagged PROVE TaggedInv(q)'
    <3>1. at <= q \/ On(q, at)
      BY <1>1, <1>5, <1>7, <2>2 DEF PlaceInv, TaggedInv
    <3> QED
      BY <1>1, <2>1, <3>1 DEF TaggedInv, On
  <2>3. Variant.tagged
    BY <1>1, <1>2, <1>5, <1>7, SyncSizeFacts, Sizes DEF PlaceInv, PlainInv
  <2> QED
    BY <1>4, <1>6, <2>2, <2>3 DEF PlaceInv
<1>8. CASE ~joined
  <2>1. pc' = "idle" /\ held' = 0
    BY <1>1, <1>2, <1>8 DEF Return
  <2>2. ASSUME Variant.tagged PROVE TaggedInv(q)'
    <3>1. at <= q \/ On(q, at)
      BY <1>1, <1>2, <1>5, <1>8, <2>2, Sizes DEF PlaceInv, TaggedInv
    <3> QED
      BY <1>3, <2>1, <3>1 DEF TaggedInv, On
  <2>3. ASSUME ~Variant.tagged PROVE PlainInv(q)'
    <3>1. lim < q + SyncSize
      BY <1>1, <1>2, <1>5, <1>8, <2>3, Sizes, SyncSizeFacts DEF PlaceInv, PlainInv
    <3> QED
      BY <1>1, <1>3, <2>1, <3>1 DEF PlainInv
  <2> QED
    BY <1>4, <1>6, <2>2, <2>3 DEF PlaceInv
<1> QED
  BY <1>7, <1>8

(* A search that runs out of bytes keeps them, and finds the first packet  *)
(* of the stream no later.                                                 *)
LEMMA NoiseTooShort ==
    ASSUME SyncInv, SyncInv', NoiseInv, TooShort
    PROVE  NoiseInv'
<1>1. pc = "scan" /\ at < lim /\ Variant.tagged /\ Return(at) /\ UNCHANGED <<scen, recv, urb, out>>
  BY DEF TooShort
<1>2. /\ SyncTypeInv /\ RegionInv /\ lim <= recv /\ urb \in Nat
      /\ at \in Nat /\ lim \in Nat /\ recv \in Nat /\ out \in Seq(Nat) /\ Done = at
  BY <1>1 DEF SyncInv, SyncTypeInv, RegionInv, Done
<1>3. PICK i \in 0..(SyncCount - 1) : Run(at, i) /\ at + (i + 1) * PacketLen > lim
  BY DEF TooShort
<1>4. PICK b \in Nat : b = (i + 1) * PacketLen /\ b <= SyncSize
  BY Sizes, SyncSizeFacts, TimesMonotone, Times
<1>5. lim - at < SyncSize /\ lim < at + SyncSize
  BY <1>2, <1>3, <1>4, SyncSizeFacts
<1>6. Done' = IF joined THEN urb ELSE at
  <2>1. Done' = IF joined /\ at # lim THEN urb ELSE at
    BY <1>1, <1>2, <1>5, ReturnStep
  <2> QED
    BY <1>1, <1>2, <2>1
<1>7. Variant' = Variant
  BY <1>1 DEF Variant
<1> SUFFICES ASSUME NEW q \in Nat, RoomToSync', Noisy(q)' PROVE FoundInv(q)' /\ PlaceInv(q)'
  BY DEF NoiseInv
<1>8. RoomToSync /\ Noisy(q) /\ FoundInv(q) /\ TaggedInv(q)
  BY <1>1, <1>2, NoiseNow DEF PlaceInv
<1> SUFFICES FoundInv(q)' /\ TaggedInv(q)'
  BY <1>1, <1>7 DEF PlaceInv
<1>9. CASE joined
  <2>1. pc' = "scan" /\ joined' = FALSE /\ at' = urb /\ lim' = recv
    BY <1>1, <1>2, <1>9 DEF Return, Work
  <2>2. urb < q + SyncSize
    BY <1>1, <1>2, <1>5, <1>8, <1>9, SyncSizeFacts DEF TaggedInv
  <2>3. urb + SyncSize <= recv
    BY <1>1, <1>8, <1>9 DEF TaggedInv
  <2>4. 2 * PacketLen <= SyncSize
    BY <1>8, Sizes, SyncSizeFacts, TimesMonotone DEF RoomToSync
  <2>5. urb <= q \/ \E a \in Nat : On(q, a) /\ urb <= a /\ a + PacketLen <= recv
    <3> SUFFICES ASSUME ~(urb <= q)
                 PROVE  \E a \in Nat : On(q, a) /\ urb <= a /\ a + PacketLen <= recv
      OBVIOUS
    <3>1. q <= urb
      BY <1>2
    <3>2. PICK a \in Nat : On(q, a) /\ urb <= a /\ a < urb + PacketLen
      BY <1>2, <3>1, NextOn
    <3> QED
      BY <1>2, <2>3, <2>4, <3>2, Sizes, SyncSizeFacts
  <2>6. TaggedInv(q)'
    BY <2>1, <2>5 DEF TaggedInv, On
  <2>7. FoundInv(q)'
    BY <1>1, <1>2, <1>6, <1>8, <1>9, <2>2, FoundKept, SyncSizeFacts
  <2> QED
    BY <2>6, <2>7
<1>10. CASE ~joined
  <2>1. pc' = "idle"
    BY <1>1, <1>10 DEF Return
  <2>2. at <= q \/ On(q, at)
    <3>1. CASE i = 0
      <4>1. at + PacketLen > lim
        BY <1>2, <1>3, <3>1, Times
      <4> QED
        BY <1>1, <1>2, <1>8, <1>10, <4>1, Sizes DEF TaggedInv
    <3>2. CASE i # 0
      <4>1. i \in Nat /\ i >= 1
        BY <3>2, Sizes
      <4> QED
        BY <1>2, <1>3, <1>8, <4>1, NoisyOn
    <3> QED
      BY <3>1, <3>2
  <2>3. TaggedInv(q)'
    BY <1>6, <1>10, <2>1, <2>2 DEF TaggedInv, On
  <2>4. FoundInv(q)'
    BY <1>1, <1>2, <1>6, <1>8, <1>10, FoundKept
  <2> QED
    BY <2>3, <2>4
<1> QED
  BY <1>9, <1>10

(* A wrong byte is no packet.                                              *)
LEMMA NoiseSlip ==
    ASSUME SyncInv, SyncInv', NoiseInv, Slip
    PROVE  NoiseInv'
<1>1. /\ pc = "scan" /\ at < lim /\ Variant.tagged /\ at' = at + 1
      /\ UNCHANGED <<scen, recv, urb, out, held, pc, joined, lim>>
  BY DEF Slip, MoveTo
<1>2. /\ SyncTypeInv /\ lim <= recv
      /\ at \in Nat /\ lim \in Nat /\ recv \in Nat /\ Done = at /\ Done' = at + 1
  BY <1>1 DEF SyncInv, SyncTypeInv, RegionInv, Done
<1>3. PICK i \in 0..(SyncCount - 1) :
        at + (i + 1) * PacketLen <= lim /\ ~HasSync(at + i * PacketLen)
  BY DEF Slip
<1>4. Variant' = Variant
  BY <1>1 DEF Variant
<1> SUFFICES ASSUME NEW q \in Nat, RoomToSync', Noisy(q)' PROVE FoundInv(q)' /\ PlaceInv(q)'
  BY DEF NoiseInv
<1>5. Noisy(q) /\ FoundInv(q) /\ TaggedInv(q)
  BY <1>1, <1>2, NoiseNow DEF PlaceInv
<1> SUFFICES FoundInv(q)' /\ TaggedInv(q)'
  BY <1>1, <1>4 DEF PlaceInv
<1>6. ~On(q, at)
  <2> SUFFICES ASSUME On(q, at) PROVE FALSE
    OBVIOUS
  <2>1. i \in Nat /\ i + 1 \in Nat /\ i \in 0..((i + 1) - 1)
    BY Sizes
  <2>2. Run(at, i + 1)
    BY <1>2, <1>3, <1>5, <2>1, NoisyRun
  <2> QED
    BY <1>3, <2>1, <2>2 DEF Run
<1>7. at # q
  BY <1>6, OnStart
<1>8. FoundInv(q)'
  BY <1>1, <1>2, <1>5, <1>6, FoundKept
<1>9. CASE joined
  <2>1. at <= q /\ urb < q + SyncSize /\ urb + SyncSize <= recv
    BY <1>1, <1>5, <1>6, <1>9 DEF TaggedInv
  <2>2. at + 1 <= q
    BY <1>2, <1>7, <2>1
  <2> QED
    BY <1>1, <1>8, <1>9, <2>1, <2>2 DEF TaggedInv
<1>10. CASE ~joined
  <2>1. at <= q \/ \E a \in Nat : On(q, a) /\ at <= a /\ a + PacketLen <= lim
    BY <1>1, <1>5, <1>6, <1>10 DEF TaggedInv
  <2>2. at + 1 <= q \/ \E a \in Nat : On(q, a) /\ at + 1 <= a /\ a + PacketLen <= lim
    <3>1. ASSUME NEW a \in Nat, On(q, a), at <= a PROVE at + 1 <= a
      BY <1>2, <1>6, <3>1
    <3> QED
      BY <1>2, <1>7, <2>1, <3>1
  <2> QED
    BY <1>1, <1>8, <1>10, <2>2 DEF TaggedInv, On
<1> QED
  BY <1>9, <1>10

(* SyncCount packets in sync begin at a packet.                            *)
LEMMA NoiseInSync ==
    ASSUME SyncInv, SyncInv', NoiseInv, InSync
    PROVE  NoiseInv'
<1>1. /\ pc = "scan" /\ pc' = "emit" /\ Variant.tagged /\ Run(at, SyncCount)
      /\ UNCHANGED <<scen, recv, held, joined, urb, at, lim, out>>
  BY DEF InSync
<1>2. /\ SyncTypeInv /\ lim <= recv /\ recv \in Nat
      /\ at \in Nat /\ Done = at /\ Done' = at /\ Variant' = Variant
  BY <1>1 DEF SyncInv, SyncTypeInv, RegionInv, Done, Variant
<1> SUFFICES ASSUME NEW q \in Nat, RoomToSync', Noisy(q)' PROVE FoundInv(q)' /\ PlaceInv(q)'
  BY DEF NoiseInv
<1>3. Noisy(q) /\ FoundInv(q) /\ TaggedInv(q)
  BY <1>1, <1>2, NoiseNow DEF PlaceInv
<1>4. On(q, at)
  BY <1>1, <1>2, <1>3, NoisyOn, Sizes
<1>5. joined => urb + SyncSize <= recv
  BY <1>1, <1>3 DEF TaggedInv
<1>6. TaggedInv(q)'
  BY <1>1, <1>4, <1>5 DEF TaggedInv, On
<1>7. FoundInv(q)'
  BY <1>1, <1>2, <1>3, FoundKept
<1> QED
  BY <1>1, <1>2, <1>6, <1>7 DEF PlaceInv

(* A packet goes out.                                                      *)
LEMMA NoiseEmit ==
    ASSUME SyncInv, SyncInv', NoiseInv, Emit
    PROVE  NoiseInv'
<1>1. /\ pc = "emit" /\ at' = at + PacketLen
      /\ UNCHANGED <<scen, recv, urb, held, pc, joined, lim>>
      /\ out' = IF stream[at] \in Variant.ids THEN Append(out, at) ELSE out
  BY DEF Emit, MoveTo
<1>2. at \in Nat /\ recv \in Nat /\ out \in Seq(Nat) /\ Done = at /\ Variant' = Variant
  BY <1>1 DEF SyncInv, SyncTypeInv, Done, Variant
<1> SUFFICES ASSUME NEW q \in Nat, RoomToSync', Noisy(q)' PROVE FoundInv(q)' /\ PlaceInv(q)'
  BY DEF NoiseInv
<1>3. FoundInv(q) /\ PlaceInv(q)
  BY <1>1, <1>2, NoiseNow
<1>4. Variant.tagged
  BY <1>1, <1>3 DEF PlaceInv, PlainInv
<1>5. On(q, at) /\ (joined => urb + SyncSize <= recv)
  BY <1>1, <1>3, <1>4 DEF PlaceInv, TaggedInv
<1>6. On(q, at + PacketLen)
  BY <1>5, OnFacts
<1>7. TaggedInv(q)'
  BY <1>1, <1>5, <1>6 DEF TaggedInv, On
<1>8. Done' = at + 1 * PacketLen
  BY <1>1, <1>2, Times DEF Done
<1>9. 0..(1 - 1) = {0} /\ at + 0 * PacketLen = at
  BY <1>2, Times
<1>10. \A i \in 1..Len(out) : i \in 1..Len(out') /\ out'[i] = out[i]
  BY <1>1, <1>2
<1>11. \A j \in 0..(1 - 1) : stream[at + j * PacketLen] \in Variant.ids
               => \E i \in 1..Len(out') : out'[i] = at + j * PacketLen
  <2> SUFFICES ASSUME stream[at] \in Variant.ids
               PROVE  \E i \in 1..Len(out') : out'[i] = at
    BY <1>9
  <2>1. Len(out') = Len(out) + 1 /\ out'[Len(out) + 1] = at
    BY <1>1, <1>2
  <2> QED
    BY <1>2, <2>1
<1>12. FoundInv(q)'
  BY <1>1, <1>2, <1>3, <1>5, <1>8, <1>10, <1>11, FoundGrows
<1> QED
  BY <1>2, <1>4, <1>7, <1>12 DEF PlaceInv

(* No further packet in sync.                                              *)
LEMMA NoiseEmitEnd ==
    ASSUME SyncInv, SyncInv', NoiseInv, EmitEnd
    PROVE  NoiseInv'
<1>1. /\ pc = "emit" /\ pc' = "scan"
      /\ UNCHANGED <<scen, recv, held, joined, urb, at, lim, out>>
  BY DEF EmitEnd
<1>2. Done' = Done /\ recv \in Nat /\ Variant' = Variant /\ at \in Nat /\ Done = at
  BY <1>1 DEF SyncInv, SyncTypeInv, Done, Variant
<1> SUFFICES ASSUME NEW q \in Nat, RoomToSync', Noisy(q)' PROVE FoundInv(q)' /\ PlaceInv(q)'
  BY DEF NoiseInv
<1>3. FoundInv(q) /\ PlaceInv(q)
  BY <1>1, <1>2, NoiseNow
<1>4. Variant.tagged
  BY <1>1, <1>3 DEF PlaceInv, PlainInv
<1>5. On(q, at) /\ (joined => urb + SyncSize <= recv)
  BY <1>1, <1>3, <1>4 DEF PlaceInv, TaggedInv
<1>6. joined => at = lim
  BY EmitEndsAtLim
<1>7. TaggedInv(q)'
  BY <1>1, <1>5, <1>6 DEF TaggedInv, On
<1>8. FoundInv(q)'
  BY <1>1, <1>2, <1>3, FoundKept
<1> QED
  BY <1>2, <1>4, <1>7, <1>8 DEF PlaceInv
(* The plain parser moves on from a packet only where none must be found.  *)
LEMMA NoisePlainSlip ==
    ASSUME SyncInv, SyncInv', NoiseInv, PlainSlip
    PROVE  NoiseInv'
<1>1. /\ pc = "scan" /\ at < lim /\ ~Variant.tagged /\ at' = at + 1 /\ RunLength < SyncCount
      /\ UNCHANGED <<scen, recv, urb, out, held, pc, joined, lim>>
  BY DEF PlainSlip, MoveTo
<1>2. /\ SyncTypeInv /\ lim <= recv
      /\ at \in Nat /\ lim \in Nat /\ recv \in Nat /\ Done = at /\ Done' = at + 1
  BY <1>1 DEF SyncInv, SyncTypeInv, RegionInv, Done
<1>3. Variant' = Variant
  BY <1>1 DEF Variant
<1> SUFFICES ASSUME NEW q \in Nat, RoomToSync', Noisy(q)' PROVE FoundInv(q)' /\ PlaceInv(q)'
  BY DEF NoiseInv
<1>4. Noisy(q) /\ FoundInv(q) /\ PlainInv(q)
  BY <1>1, <1>2, NoiseNow DEF PlaceInv
<1>5. On(q, at) => lim < at + SyncSize
  <2> SUFFICES ASSUME On(q, at), at + SyncSize <= lim PROVE FALSE
    BY <1>2, SyncSizeFacts
  <2>1. RunLength \in Nat /\ ~Run(at, RunLength + 1)
    BY <1>1, <1>2, RunLengthExists
  <2>2. PICK n \in Nat : n = RunLength /\ n + 1 <= SyncCount
    BY <1>1, <2>1, Sizes
  <2>3. PICK b \in Nat : b = (n + 1) * PacketLen /\ b <= SyncSize
    BY <2>2, Sizes, SyncSizeFacts, TimesMonotone, Times
  <2>4. at + (n + 1) * PacketLen <= lim
    BY <1>2, <2>3, SyncSizeFacts
  <2>5. Run(at, n + 1)
    BY <1>2, <1>4, <2>4, NoisyRun
  <2> QED
    BY <2>1, <2>2, <2>5
<1>6. ~joined
  BY <1>1, <1>2, <1>4, <1>5, SyncSizeFacts DEF PlainInv
<1>7. CASE lim < q + SyncSize
  <2>1. FoundInv(q)'
    BY <1>1, <1>2, <1>4, <1>7, FoundKept, SyncSizeFacts
  <2>2. PlainInv(q)'
    BY <1>1, <1>6, <1>7 DEF PlainInv
  <2> QED
    BY <1>1, <1>3, <2>1, <2>2 DEF PlaceInv
<1>8. ASSUME NEW a \in Nat, On(q, a), at <= a, a + SyncSize <= lim
      PROVE  FoundInv(q)' /\ PlaceInv(q)'
  <2>1. ~On(q, at)
    BY <1>2, <1>5, <1>8, SyncSizeFacts
  <2>2. at + 1 <= a
    BY <1>2, <1>8, <2>1
  <2>3. FoundInv(q)'
    BY <1>1, <1>2, <1>4, <2>1, FoundKept
  <2>4. PlainInv(q)'
    BY <1>1, <1>6, <1>8, <2>2 DEF PlainInv, On
  <2> QED
    BY <1>1, <1>3, <2>3, <2>4 DEF PlaceInv
<1> QED
  BY <1>1, <1>4, <1>6, <1>7, <1>8 DEF PlainInv

(* All packets of a run go out: they reach to the end of the region.       *)
LEMMA NoisePlainEmit ==
    ASSUME SyncInv, SyncInv', NoiseInv, PlainEmit
    PROVE  NoiseInv'
<1>1. /\ SyncTypeInv /\ RegionInv /\ lim <= recv
      /\ at \in Nat /\ lim \in Nat /\ recv \in Nat /\ at < lim /\ pc = "scan"
      /\ ~Variant.tagged /\ Done = at /\ out' \in Seq(Nat)
  BY DEF PlainEmit, SyncInv, SyncTypeInv, RegionInv, Done
<1>2. RunLength \in Nat /\ Run(at, RunLength) /\ ~Run(at, RunLength + 1)
  BY <1>1, RunLengthExists
<1>3. PICK n \in Nat : n = RunLength
  BY <1>2
<1>4. PICK end \in Nat : end = at + n * PacketLen
  <2>1. n * PacketLen \in Nat
    BY Times
  <2> QED
    BY <1>1, <2>1
<1>5. /\ n >= SyncCount
      /\ IF end + PacketLen > lim THEN Return(end) ELSE MoveTo(end)
      /\ UNCHANGED <<scen, recv, urb>>
  BY <1>3, <1>4 DEF PlainEmit
<1>6. Variant' = Variant
  BY <1>5 DEF Variant
<1> SUFFICES ASSUME NEW q \in Nat, RoomToSync', Noisy(q)' PROVE FoundInv(q)' /\ PlaceInv(q)'
  BY DEF NoiseInv
<1>7. Noisy(q) /\ FoundInv(q) /\ PlainInv(q)
  BY <1>1, <1>5, NoiseNow DEF PlaceInv
<1>8. On(q, at)
  BY <1>1, <1>2, <1>3, <1>5, <1>7, NoisyOn, Sizes
<1>9. On(q, end)
  BY <1>4, <1>8, OnFacts
<1>10. at <= end /\ end <= lim /\ at + SyncSize <= end
  <2>1. at + n * PacketLen <= lim
    BY <1>2, <1>3 DEF Run
  <2>2. SyncSize <= n * PacketLen
    BY <1>5, Sizes, SyncSizeFacts, TimesMonotone
  <2>3. PICK b \in Nat : b = n * PacketLen
    BY Times
  <2> QED
    BY <1>1, <1>4, <2>1, <2>2, <2>3, SyncSizeFacts
<1>11. end + PacketLen > lim
  <2> SUFFICES ASSUME ~(end + PacketLen > lim) PROVE FALSE
    OBVIOUS
  <2>1. (n + 1) * PacketLen = n * PacketLen + PacketLen /\ n * PacketLen \in Nat
    BY Times
  <2>2. at + (n + 1) * PacketLen <= lim
    BY <1>1, <1>4, <2>1, Sizes
  <2>3. Run(at, n + 1)
    BY <1>1, <1>7, <1>8, <2>2, NoisyRun
  <2> QED
    BY <1>2, <1>3, <2>3
<1>12. Return(end) /\ lim - end < SyncSize
  BY <1>1, <1>5, <1>10, <1>11, Sizes, SyncSizeFacts
<1>13. joined => end = lim /\ lim + SyncSize <= recv
  BY <1>1, <1>7, <1>10, SyncSizeFacts DEF PlainInv
<1>14. Done' = end
  <2>1. Done' = IF joined /\ end # lim THEN urb ELSE end
    BY <1>1, <1>5, <1>10, <1>12, ReturnStep
  <2> QED
    BY <1>13, <2>1
<1>15. FoundInv(q)'
  <2>1. Done' = at + n * PacketLen
    BY <1>4, <1>14
  <2> QED
    BY <1>1, <1>3, <1>5, <1>7, <1>8, <2>1, PlainEmitOut, FoundGrows
<1>16. PlainInv(q)'
  <2>1. CASE joined
    <3>1. pc' = "scan" /\ joined' = FALSE /\ at' = end /\ lim' = recv
      BY <1>12, <1>13, <2>1 DEF Return, Work
    <3>2. end + SyncSize <= recv
      BY <1>13, <2>1
    <3> QED
      BY <1>9, <3>1, <3>2 DEF PlainInv, On
  <2>2. CASE ~joined
    <3>1. pc' = "idle"
      BY <1>12, <2>2 DEF Return
    <3> QED
      BY <1>9, <1>14, <3>1 DEF PlainInv, On
  <2> QED
    BY <2>1, <2>2
<1> QED
  BY <1>1, <1>6, <1>15, <1>16 DEF PlaceInv

(* A step that changes nothing.                                            *)
LEMMA NoiseStutter ==
    ASSUME NoiseInv, UNCHANGED syncVars
    PROVE  NoiseInv'
BY DEF syncVars, NoiseInv, RoomToSync, Noisy, FoundInv, PlaceInv, TaggedInv, PlainInv,
       On, Done, HasSync, stream, Variant

(* After any number of bytes without a sync byte stream_process() loses at *)
(* most SyncCount packets before it hands out all of them, however the     *)
(* transfers cut the stream, as long as they have room for the packets it  *)
(* must see at once.                                                       *)
THEOREM FindsPacketsAgain == SyncSpec => []Resyncs
<1>1. SyncInv /\ SyncInv' /\ NoiseInv /\ [SyncNext]_syncVars => NoiseInv'
  BY NoiseReceive, NoiseStart, NoiseExhausted, NoiseTooShort, NoiseSlip, NoiseInSync,
     NoiseEmit, NoiseEmitEnd, NoisePlainSlip, NoisePlainEmit, NoiseStutter DEF SyncNext
<1>2. ASSUME SyncInv, NoiseInv PROVE Resyncs
  <2> SUFFICES ASSUME NEW q \in 0..recv, RoomToSync, pc = "idle", NoiseUpTo(q),
                      NEW p \in (q + SyncSize)..(recv - held - PacketLen),
                      HasSync(p), stream[p] \in Variant.ids
               PROVE  \E i \in 1..Len(out) : out[i] = p
    BY DEF Resyncs
  <2>1. SyncTypeInv /\ recv \in Nat /\ held \in Nat /\ held <= recv
    BY <1>2 DEF SyncInv, SyncTypeInv, RegionInv
  <2>2. q \in Nat
    BY <2>1
  <2>3. Noisy(q) /\ FoundInv(q)
    BY <1>2, <2>1, <2>2, NoisyIsNoise DEF NoiseInv
  <2>4. p \in Nat /\ q + SyncSize <= p /\ p < recv /\ p < Done
    BY <2>1, <2>2, Sizes, SyncSizeFacts DEF Done
  <2>5. On(q, p)
    BY <2>3, <2>4 DEF Noisy
  <2> QED
    BY <2>3, <2>4, <2>5 DEF FoundInv
<1> QED
  BY <1>1, <1>2, NoiseInit, SyncInvariance, PTL DEF SyncSpec
=============================================================================
