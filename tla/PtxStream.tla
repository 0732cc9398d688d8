------------------------------- MODULE PtxStream -------------------------------
(***************************************************************************)
(* The path of a receiver's stream data through the Linux driver: the      *)
(* lock-free ring buffer (ringbuffer.c), its writer (ptx_chrdev_put_stream *)
(* in the USB completion handler), its reader (ptx_chrdev_read) and the    *)
(* ioctls and the close that start and stop reception.                     *)
(*                                                                         *)
(* Every atomic operation on the buffer is a step of its own.  A unit of   *)
(* data stands for a packet; a chunk is what one put_stream call carries.  *)
(* copy_to_user() is modelled as succeeding.                               *)
(***************************************************************************)
EXTENDS Integers, Sequences

CONSTANTS
    Data,         \* packet contents told apart
    Size,         \* ringbuf->size, in packets
    Threshold,    \* ringbuf_threshold_size
    MaxChunk,     \* longest chunk of one put_stream call
    MaxRead,      \* longest read request
    JoinReaders,  \* the application starts reception only between its reads
    SharedBus     \* other receivers of the unit keep the USB stream running

ASSUME SizeAssumption == Size \in Nat \ {0}
ASSUME ThresholdAssumption == Threshold \in 1..Size
ASSUME ChunkAssumption == MaxChunk \in 1..Threshold
ASSUME ReadAssumption == MaxRead \in Nat \ {0}
ASSUME FlagAssumption == JoinReaders \in BOOLEAN /\ SharedBus \in BOOLEAN

VARIABLES
    state,      \* ringbuf->state: 0 stopped, 1 started, 2 a reader is ready
    rw_count,   \* readers and writers inside the buffer
    actual,     \* ringbuf->actual_size
    head, tail,
    buf,
    streaming,  \* chrdev->streaming
    capture,    \* the unit's USB stream runs for this receiver
    available,  \* group->available
    wsize,      \* chrdev->ringbuf_write_size
    woken,      \* the sleeping reader has been woken
    got,        \* what ringbuffer_read_user() copied out, until it returns
    w,          \* the writer: pc, chunk and its local variables
    r,          \* the reader: pc and its local variables
    c           \* pc of the thread in the START or STOP ioctl

ring == <<rw_count, actual, head, tail, buf>>
vars == <<state, ring, streaming, capture, available, wsize, woken, got, w, r, c>>

Chunks == UNION {[1..n -> Data] : n \in 1..MaxChunk}
Least(a, b) == IF a <= b THEN a ELSE b
Advance(i, n) == IF i + n < Size THEN i + n ELSE i + n - Size

WIdle == [pc |-> "idle", data |-> <<>>, actual |-> 0, tail |-> 0, n |-> 0]
RIdle == [pc |-> "idle", remain |-> 0, actual |-> 0, head |-> 0, n |-> 0, out |-> <<>>]

Init ==
    /\ state = 0
    /\ rw_count = 0 /\ actual = 0 /\ head = 0 /\ tail = 0
    /\ buf \in [0..(Size - 1) -> {CHOOSE x \in Data : TRUE}]
    /\ streaming = FALSE /\ capture = FALSE /\ available = TRUE
    /\ wsize = 0 /\ woken = FALSE /\ got = <<>>
    /\ w = WIdle /\ r = RIdle /\ c = "idle"

(* wake_up(&chrdev->ringbuf_wait)                                          *)
WakeReader == woken' = (woken \/ r.pc = "wait")

-----------------------------------------------------------------------------
(* ptx_chrdev_put_stream() and ringbuffer_write_atomic()                   *)

WStep(from, to) == w.pc = from /\ w' = [w EXCEPT !.pc = to]

(* The state is checked before rw_count is raised.                         *)
WriteCheck ==
    /\ w.pc = "idle"
    /\ capture \/ SharedBus
    /\ state = 2
    /\ \E d \in Chunks : w' = [WIdle EXCEPT !.pc = "enter", !.data = d]
    /\ UNCHANGED <<state, ring, streaming, capture, available, wsize, woken, got, r, c>>

WriteEnter ==
    /\ WStep("enter", "actual")
    /\ rw_count' = rw_count + 1
    /\ UNCHANGED <<state, actual, head, tail, buf, streaming, capture, available,
                   wsize, woken, got, r, c>>

WriteLoadActual ==
    /\ w.pc = "actual"
    /\ w' = [w EXCEPT !.pc = "tail", !.actual = actual]
    /\ UNCHANGED <<state, ring, streaming, capture, available, wsize, woken, got, r, c>>

WriteLoadTail ==
    LET n == Least(Len(w.data), Size - w.actual)
    IN  /\ w.pc = "tail"
        /\ w' = [w EXCEPT !.pc = IF n > 0 THEN "copy" ELSE "exit",
                          !.actual = 0, !.tail = tail, !.n = n]
        /\ UNCHANGED <<state, ring, streaming, capture, available, wsize, woken,
                       got, r, c>>

WriteSlots == {Advance(w.tail, i) : i \in 0..(w.n - 1)}

(* Mutant: the wrapped part is copied from the start of the data.          *)
WriteCopyWrapsWrong ==
    /\ WStep("copy", "store")
    /\ buf' = [i \in DOMAIN buf |->
                 IF i \in WriteSlots
                 THEN w.data[1 + (IF i >= w.tail THEN i - w.tail ELSE i)]
                 ELSE buf[i]]
    /\ UNCHANGED <<state, rw_count, actual, head, tail, streaming, capture, available,
                   wsize, woken, got, r, c>>

(* memcpy(), in two parts when it wraps                                    *)
WriteCopy ==
    /\ WStep("copy", "store")
    /\ buf' = [i \in DOMAIN buf |->
                 IF i \in WriteSlots
                 THEN w.data[1 + (IF i >= w.tail THEN i - w.tail ELSE i - w.tail + Size)]
                 ELSE buf[i]]
    /\ UNCHANGED <<state, rw_count, actual, head, tail, streaming, capture, available,
                   wsize, woken, got, r, c>>

WriteStoreTail ==
    /\ WStep("store", "add")
    /\ tail' = Advance(w.tail, w.n)
    /\ UNCHANGED <<state, rw_count, actual, head, buf, streaming, capture, available,
                   wsize, woken, got, r, c>>

WriteAddActual ==
    /\ WStep("add", "exit")
    /\ actual' = actual + w.n
    /\ UNCHANGED <<state, rw_count, head, tail, buf, streaming, capture, available,
                   wsize, woken, got, r, c>>

WriteExit ==
    /\ WStep("exit", "account")
    /\ rw_count' = rw_count - 1
    /\ UNCHANGED <<state, actual, head, tail, buf, streaming, capture, available,
                   wsize, woken, got, r, c>>

(* Mutant: reaching the threshold exactly wakes nobody.                    *)
WriteAccountWakesLate ==
    LET total == wsize + w.n
    IN  /\ w.pc = "account"
        /\ w' = WIdle
        /\ wsize' = IF total >= Threshold THEN total - Threshold ELSE total
        /\ IF total > Threshold THEN WakeReader ELSE UNCHANGED woken
        /\ UNCHANGED <<state, ring, streaming, capture, available, got, r, c>>

(* The reader is woken each time another threshold's worth was accepted.   *)
WriteAccount ==
    LET total == wsize + w.n
    IN  /\ w.pc = "account"
        /\ w' = WIdle
        /\ IF total >= Threshold
           THEN wsize' = total - Threshold /\ WakeReader
           ELSE wsize' = total /\ UNCHANGED woken
        /\ UNCHANGED <<state, ring, streaming, capture, available, got, r, c>>

-----------------------------------------------------------------------------
(* ptx_chrdev_read() and ringbuffer_read_user()                            *)

Starting == {"lock", "actual", "head", "tail", "start"}

RStep(from, to) == r.pc = from /\ r' = [r EXCEPT !.pc = to]

(* ringbuffer_ready_read() lets the writer in.                             *)
ReadBegin ==
    /\ r.pc = "idle"
    /\ available
    /\ c # "close"
    /\ JoinReaders => c \notin Starting
    /\ \E n \in 1..MaxRead : r' = [RIdle EXCEPT !.pc = "check", !.remain = n]
    /\ state' = IF state = 1 THEN 2 ELSE state
    /\ UNCHANGED <<ring, streaming, capture, available, wsize, woken, got, w, c>>

(* wait_event_interruptible(): queued first, then the condition is tested. *)
ReadCheck ==
    /\ r.pc = "check"
    /\ r' = [r EXCEPT !.pc = IF actual # 0 \/ state = 0 \/ ~available
                             THEN "enter" ELSE "wait"]
    /\ woken' = FALSE
    /\ UNCHANGED <<state, ring, streaming, capture, available, wsize, got, w, c>>

ReadWoken ==
    /\ RStep("wait", "check")
    /\ woken
    /\ UNCHANGED <<state, ring, streaming, capture, available, wsize, woken, got, w, c>>

(* A signal ends the wait.                                                 *)
ReadInterrupted ==
    /\ r.pc = "wait"
    /\ r' = RIdle
    /\ woken' = FALSE
    /\ UNCHANGED <<state, ring, streaming, capture, available, wsize, got, w, c>>

ReadEnter ==
    /\ RStep("enter", "actual")
    /\ rw_count' = rw_count + 1
    /\ UNCHANGED <<state, actual, head, tail, buf, streaming, capture, available,
                   wsize, woken, got, w, c>>

ReadLoadActual ==
    /\ r.pc = "actual"
    /\ r' = [r EXCEPT !.pc = "head", !.actual = actual]
    /\ UNCHANGED <<state, ring, streaming, capture, available, wsize, woken, got, w, c>>

ReadLoadHead ==
    LET n == Least(r.remain, r.actual)
    IN  /\ r.pc = "head"
        /\ r' = [r EXCEPT !.pc = IF n > 0 THEN "copy" ELSE "exit",
                          !.actual = 0, !.head = head, !.n = n]
        /\ UNCHANGED <<state, ring, streaming, capture, available, wsize, woken,
                       got, w, c>>

ReadCopy ==
    /\ r.pc = "copy"
    /\ r' = [r EXCEPT !.pc = "store",
                      !.out = [i \in 1..r.n |-> buf[Advance(r.head, i - 1)]]]
    /\ UNCHANGED <<state, ring, streaming, capture, available, wsize, woken, got, w, c>>

(* atomic_xchg(&ringbuf->head, head)                                       *)
ReadStoreHead ==
    /\ RStep("store", "sub")
    /\ head' = Advance(r.head, r.n)
    /\ UNCHANGED <<state, rw_count, actual, tail, buf, streaming, capture, available,
                   wsize, woken, got, w, c>>

ReadSubActual ==
    /\ r.pc = "sub"
    /\ r' = [r EXCEPT !.pc = "exit", !.out = <<>>]
    /\ actual' = actual - r.n
    /\ got' = r.out
    /\ UNCHANGED <<state, rw_count, head, tail, buf, streaming, capture, available,
                   wsize, woken, w, c>>

(* read() goes on until the request is met or nothing was left to copy.    *)
ReadExit ==
    /\ r.pc = "exit"
    /\ rw_count' = rw_count - 1
    /\ r' = IF r.n = 0 \/ r.remain = r.n
            THEN RIdle
            ELSE [RIdle EXCEPT !.pc = "check", !.remain = r.remain - r.n]
    /\ got' = <<>>
    /\ UNCHANGED <<state, actual, head, tail, buf, streaming, capture, available,
                   wsize, woken, w, c>>

-----------------------------------------------------------------------------
(* PTX_START_STREAMING and PTX_STOP_STREAMING, under chrdev->lock          *)

CStep(from, to) == c = from /\ c' = to

StartIoctl ==
    /\ c = "idle"
    /\ available
    /\ ~streaming
    /\ JoinReaders => r.pc = "idle"
    /\ wsize' = 0
    /\ \/ capture' = TRUE /\ c' = "lock"
       \/ UNCHANGED <<capture, c>>             \* set_capture(true) fails
    /\ UNCHANGED <<state, ring, streaming, available, woken, got, w, r>>

(* ringbuffer_lock() waits for the buffer to be left, and keeps nobody out *)
ResetLock ==
    /\ CStep("lock", "actual")
    /\ rw_count = 0
    /\ UNCHANGED <<state, ring, streaming, capture, available, wsize, woken, got, w, r>>

ResetActual ==
    /\ CStep("actual", "head")
    /\ actual' = 0
    /\ UNCHANGED <<state, rw_count, head, tail, buf, streaming, capture, available,
                   wsize, woken, got, w, r>>

ResetHead ==
    /\ CStep("head", "tail")
    /\ head' = 0
    /\ UNCHANGED <<state, rw_count, actual, tail, buf, streaming, capture, available,
                   wsize, woken, got, w, r>>

ResetTail ==
    /\ CStep("tail", "start")
    /\ tail' = 0
    /\ UNCHANGED <<state, rw_count, actual, head, buf, streaming, capture, available,
                   wsize, woken, got, w, r>>

(* ringbuffer_start()                                                      *)
RingStart ==
    /\ CStep("start", "idle")
    /\ state' = 1
    /\ streaming' = TRUE
    /\ UNCHANGED <<ring, capture, available, wsize, woken, got, w, r>>

(* set_capture(false): with no other receiver streaming, the URBs are      *)
(* killed, which waits for a running completion handler.                   *)
StopIoctl ==
    /\ CStep("idle", "stop")
    /\ available
    /\ streaming
    /\ SharedBus \/ w.pc = "idle"
    /\ capture' = FALSE
    /\ UNCHANGED <<state, ring, streaming, available, wsize, woken, got, w, r>>

(* ptx_chrdev_release() while streaming; the last close comes after the    *)
(* last read.  Another program may open the receiver afterwards.           *)
Close ==
    /\ CStep("idle", "close")
    /\ streaming
    /\ r.pc = "idle"
    /\ SharedBus \/ w.pc = "idle"
    /\ capture' = FALSE
    /\ UNCHANGED <<state, ring, streaming, available, wsize, woken, got, w, r>>

(* Mutant: without wake_up().                                              *)
RingStopSilent ==
    /\ c \in {"stop", "close"}
    /\ c' = "idle"
    /\ state' = 0
    /\ streaming' = FALSE
    /\ UNCHANGED <<ring, capture, available, wsize, woken, got, w, r>>

(* ringbuffer_stop() and wake_up()                                         *)
RingStop ==
    /\ c \in {"stop", "close"}
    /\ c' = "idle"
    /\ state' = 0
    /\ streaming' = FALSE
    /\ WakeReader
    /\ UNCHANGED <<ring, capture, available, wsize, got, w, r>>

(* ptx_chrdev_group_destroy() on disconnection                             *)
GroupDestroy ==
    /\ available
    /\ available' = FALSE
    /\ WakeReader
    /\ UNCHANGED <<state, ring, streaming, capture, wsize, got, w, r, c>>

-----------------------------------------------------------------------------
Writer == \/ WriteCheck \/ WriteEnter \/ WriteLoadActual \/ WriteLoadTail
          \/ WriteCopy \/ WriteStoreTail \/ WriteAddActual \/ WriteExit
          \/ WriteAccount

Reader == \/ ReadCheck \/ ReadWoken \/ ReadEnter \/ ReadLoadActual
          \/ ReadLoadHead \/ ReadCopy \/ ReadStoreHead \/ ReadSubActual
          \/ ReadExit

Control == \/ ResetLock \/ ResetActual \/ ResetHead \/ ResetTail \/ RingStart
           \/ RingStop

Next == \/ Writer
        \/ ReadBegin \/ Reader \/ ReadInterrupted
        \/ StartIoctl \/ StopIoctl \/ Close \/ Control
        \/ GroupDestroy

(* A completion handler, a woken reader and an ioctl run to their end;     *)
(* nobody has to call, to send data or to disconnect.                      *)
Fairness ==
    /\ WF_vars(w.pc # "idle" /\ Writer)
    /\ WF_vars(Reader)
    /\ WF_vars(Control)

Spec == Init /\ [][Next]_vars /\ Fairness

-----------------------------------------------------------------------------
(* ringbuffer_reset() never runs while a reader or a writer is inside the  *)
(* buffer.                                                                 *)
ResetExclusive ==
    c \in {"actual", "head", "tail"} => rw_count = 0

(* Once a threshold's worth of data lies in the buffer and the writer is   *)
(* done with its call, no reader is left asleep: the counter that spaces   *)
(* the wake-ups cannot lose one.                                           *)
NoSleepOverData ==
    r.pc = "wait" /\ ~woken /\ w.pc = "idle" => actual < Threshold

(* A read in progress when the reception stops or the unit is disconnected *)
(* returns, whether it is asleep or about to sleep at that moment.         *)
ReadsReturn ==
    (r.pc # "idle" /\ ((state = 0 /\ c = "idle") \/ ~available)) ~> (r.pc = "idle")

(* The buffer implements the queue it promises.  The data the reader is    *)
(* taking leaves the queue when actual_size is lowered.                    *)
First == IF r.pc = "sub" THEN r.head ELSE head
Contents == [i \in 1..actual |-> buf[Advance(First, i - 1)]]
Offered == IF w.pc \in {"idle", "exit", "account"} THEN <<>> ELSE w.data
Queue == INSTANCE TsQueue WITH q <- Contents, offer <- Offered, on <- (state # 0)
ImplementsQueue == Queue!QSpec
=============================================================================
