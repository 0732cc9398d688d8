-------------------------------- MODULE TsSync --------------------------------
(***************************************************************************)
(* Packet synchronisation of the USB stream: the *_device_stream_handler() *)
(* and *_device_stream_process() functions of the four device families.    *)
(* A bulk transfer carries any number of bytes; the bytes left over are    *)
(* kept in remain_buf for the next transfer.                               *)
(*                                                                         *)
(* Bytes are addressed by their place in the stream since it was started.  *)
(* The kept bytes always are the last ones received, so their number       *)
(* (held) says which they are.  The region being worked on is at .. lim-1: *)
(* p and p + remain of stream_process().                                   *)
(***************************************************************************)
EXTENDS Naturals, Sequences

CONSTANTS
    PacketLen,   \* 188
    SyncCount,   \* *_DEVICE_TS_SYNC_COUNT
    Scenarios    \* device family, the stream it sends, lengths of the transfers

(* A byte is the tag of a sync byte (0..7, see px4_ts_has_tagged_sync()),  *)
(* or NoSync.  px4_ts_has_plain_sync() accepts one value: tag 4, 0x47.     *)
Tags == 0..7
NoSync == 8
PlainTag == 4
Bytes == Tags \cup {NoSync}

(* What tells the families apart: tagged multiplexed streams, with the     *)
(* tags that name a receiver, and plain ones.                              *)
Px4Family == [tagged |-> TRUE, sync |-> Tags, ids |-> 1..4]
PxmltFamily == [tagged |-> TRUE, sync |-> Tags, ids |-> 1..5]
Isdb2056Family == [tagged |-> FALSE, sync |-> {PlainTag}, ids |-> {PlainTag}]
Isdbt2071Family == [tagged |-> FALSE, sync |-> {PlainTag}, ids |-> {PlainTag}]
Families == {Px4Family, PxmltFamily, Isdb2056Family, Isdbt2071Family}

SyncSize == PacketLen * SyncCount

ASSUME LengthAssumption == PacketLen \in Nat \ {0} /\ SyncCount \in Nat \ {0}
ASSUME ScenarioAssumption ==
    \A s \in Scenarios :
        /\ s.family \in Families
        /\ s.len \in Nat                        \* bound on the bytes followed
        /\ s.stream \in [0..(s.len - 1) -> Bytes]
        /\ s.transfers \subseteq Nat \ {0}

VARIABLES
    scen,    \* the scenario, fixed for a behaviour
    recv,    \* bytes received so far
    held,    \* stream_ctx->remain_len
    pc,      \* "idle", "scan" or "emit"
    joined,  \* working on remain_buf, not on the transfer
    urb,     \* where the current transfer starts
    at, lim,
    out      \* starts of the packets handed to ptx_chrdev_put_stream()

syncVars == <<scen, recv, held, pc, joined, urb, at, lim, out>>

Variant == scen.family
stream == scen.stream

SyncInit ==
    /\ scen \in Scenarios
    /\ recv = 0 /\ held = 0
    /\ pc = "idle" /\ joined = FALSE
    /\ urb = 0 /\ at = 0 /\ lim = 0
    /\ out = <<>>

HasSync(p) == stream[p] \in Variant.sync

(* The packets that lie in the region from p and all begin with a sync     *)
(* byte, n of them.                                                        *)
Run(p, n) == /\ p + n * PacketLen <= lim
             /\ \A i \in 0..(n - 1) : HasSync(p + i * PacketLen)

-----------------------------------------------------------------------------
(* stream_handler()                                                        *)

Work(j, from, to) == pc' = "scan" /\ joined' = j /\ at' = from /\ lim' = to

(* Mutant: exactly SyncSize bytes are still kept.                          *)
JoinsLate(n) == held + n > SyncSize

(* The kept bytes and the transfer together are enough to look at.         *)
Joins(n) == held + n >= SyncSize

Receive ==
    \E n \in scen.transfers :
        /\ pc = "idle"
        /\ recv + n <= scen.len
        /\ recv' = recv + n
        /\ urb' = recv
        /\ \/ /\ held = 0
              /\ Work(FALSE, recv, recv + n)
              /\ UNCHANGED held
           \/ /\ held > 0
              /\ Joins(n)
              /\ Work(TRUE, recv - held, recv - held + SyncSize)
              /\ held' = 0
           \/ /\ held > 0
              /\ ~Joins(n)
              /\ held' = held + n
              /\ UNCHANGED <<pc, joined, at, lim>>
        /\ UNCHANGED <<scen, out>>

(* stream_process() returns at p.  From remain_buf the handler goes on     *)
(* with the transfer: past the bytes it lent when all were consumed, from  *)
(* its start otherwise.  What is left of the transfer is kept.             *)
Return(p) ==
    IF joined
    THEN Work(FALSE, IF p = lim THEN lim ELSE urb, recv) /\ UNCHANGED held
    ELSE /\ pc' = "idle"
         /\ held' = lim - p
         /\ at' = p
         /\ UNCHANGED <<joined, lim>>

-----------------------------------------------------------------------------
(* stream_process(), one round of its loops at a time                      *)

MoveTo(p) == at' = p /\ UNCHANGED <<held, pc, joined, lim>>

Exhausted ==
    /\ pc = "scan"
    /\ at = lim
    /\ Return(at)
    /\ UNCHANGED <<scen, recv, urb, out>>

(* Mutant: too few bytes are given up instead of kept.                     *)
TooShortSlips ==
    /\ pc = "scan" /\ Variant.tagged /\ at < lim
    /\ \E i \in 0..(SyncCount - 1) :
          Run(at, i) /\ at + (i + 1) * PacketLen > lim
    /\ MoveTo(at + 1)
    /\ UNCHANGED <<scen, recv, urb, out>>

(* Tagged: SyncCount packets must follow one another; fewer bytes than     *)
(* that are kept, a wrong byte moves on by one.                            *)
TooShort ==
    /\ pc = "scan" /\ Variant.tagged /\ at < lim
    /\ \E i \in 0..(SyncCount - 1) :
          Run(at, i) /\ at + (i + 1) * PacketLen > lim
    /\ Return(at)
    /\ UNCHANGED <<scen, recv, urb, out>>

Slip ==
    /\ pc = "scan" /\ Variant.tagged /\ at < lim
    /\ \E i \in 0..(SyncCount - 1) :
          /\ Run(at, i)
          /\ at + (i + 1) * PacketLen <= lim
          /\ ~HasSync(at + i * PacketLen)
    /\ MoveTo(at + 1)
    /\ UNCHANGED <<scen, recv, urb, out>>

InSync ==
    /\ pc = "scan" /\ Variant.tagged /\ at < lim
    /\ Run(at, SyncCount)
    /\ pc' = "emit"
    /\ UNCHANGED <<scen, recv, held, joined, urb, at, lim, out>>

(* Mutant: the next packet is looked for one byte early.                   *)
EmitMovesShort ==
    /\ pc = "emit"
    /\ Run(at, 1)
    /\ out' = IF stream[at] \in Variant.ids THEN Append(out, at) ELSE out
    /\ MoveTo(at + PacketLen - 1)
    /\ UNCHANGED <<scen, recv, urb>>

(* Packets go out one by one, each to the receiver its tag names.          *)
Emit ==
    /\ pc = "emit"
    /\ Run(at, 1)
    /\ out' = IF stream[at] \in Variant.ids THEN Append(out, at) ELSE out
    /\ MoveTo(at + PacketLen)
    /\ UNCHANGED <<scen, recv, urb>>

EmitEnd ==
    /\ pc = "emit"
    /\ ~Run(at, 1)
    /\ pc' = "scan"
    /\ UNCHANGED <<scen, recv, held, joined, urb, at, lim, out>>

(* Plain: the packets that follow one another are counted and go out at    *)
(* once when there are SyncCount or more.                                  *)
RunLength == CHOOSE n \in 0..(lim - at) : Run(at, n) /\ ~Run(at, n + 1)

(* Mutant: the search moves on by packets.                                 *)
PlainSlipByPacket ==
    /\ pc = "scan" /\ ~Variant.tagged /\ at < lim
    /\ RunLength < SyncCount
    /\ MoveTo(IF at + PacketLen < lim THEN at + PacketLen ELSE lim)
    /\ UNCHANGED <<scen, recv, urb, out>>

PlainSlip ==
    /\ pc = "scan" /\ ~Variant.tagged /\ at < lim
    /\ RunLength < SyncCount
    /\ MoveTo(at + 1)
    /\ UNCHANGED <<scen, recv, urb, out>>

PlainEmit ==
    LET end == at + RunLength * PacketLen
    IN  /\ pc = "scan" /\ ~Variant.tagged /\ at < lim
        /\ RunLength >= SyncCount
        /\ out' = out \o [k \in 1..RunLength |-> at + (k - 1) * PacketLen]
        /\ IF end + PacketLen > lim THEN Return(end) ELSE MoveTo(end)
        /\ UNCHANGED <<scen, recv, urb>>

-----------------------------------------------------------------------------
(* start_capture(): remain_len is cleared before the bus is started again. *)
(* The state reached is an initial one; the initial states already range   *)
(* over the streams that may follow.                                       *)
Start ==
    /\ pc = "idle"
    /\ recv > 0
    /\ recv' = 0 /\ held' = 0 /\ out' = <<>>
    /\ joined' = FALSE /\ urb' = 0 /\ at' = 0 /\ lim' = 0
    /\ UNCHANGED <<scen, pc>>

SyncNext ==
    \/ Receive \/ Start
    \/ Exhausted \/ TooShort \/ Slip \/ InSync \/ Emit \/ EmitEnd
    \/ PlainSlip \/ PlainEmit

SyncSpec == SyncInit /\ [][SyncNext]_syncVars

-----------------------------------------------------------------------------
(* The bytes kept for the next transfer never fill remain_buf: the copies  *)
(* of stream_handler() stay inside it whatever the transfers carry.        *)
RemainFits == held < SyncSize

(* No byte is handed out twice, packets keep their order, and every packet *)
(* begins with the sync byte of a receiver: bytes lent to remain_buf are   *)
(* not worked on again.                                                    *)
NoOverlap ==
    /\ \A i \in 1..(Len(out) - 1) : out[i] + PacketLen <= out[i + 1]
    /\ \A i \in 1..Len(out) :
          /\ out[i] + PacketLen <= recv
          /\ stream[out[i]] \in Variant.ids

(* Where the packets begin when the first one begins at q.                 *)
Grid(q) == {q + k * PacketLen : k \in 0..recv}

(* The plain parser drops less than SyncCount packets at the end of what   *)
(* it is given, so it depends on transfers that carry more.                *)
LongEnough == Variant.tagged \/ \A n \in scen.transfers : n >= 2 * SyncSize

(* Of a stream that is in sync from its first byte on, every packet is     *)
(* handed to its receiver but the ones still kept, and nothing else is     *)
(* (in their order: NoOverlap).  Where the transfers cut the stream makes  *)
(* no difference.                                                          *)
InSyncFrom(q) == \A p \in Grid(q) : p < recv => HasSync(p)
CleanDelivered ==
    LongEnough /\ pc = "idle" /\ InSyncFrom(0) =>
        {out[i] : i \in 1..Len(out)} =
            {p \in Grid(0) : /\ p + PacketLen <= recv - held
                             /\ stream[p] \in Variant.ids}

(* What remain_buf holds is given up, when its packets are not found at    *)
(* its start, as far as the transfer began: a parser that is not in sync   *)
(* needs transfers with room for SyncCount packets, the plain one twice.   *)
RoomToSync ==
    /\ SyncCount > 1
    /\ \A n \in scen.transfers :
           n >= IF Variant.tagged THEN SyncSize ELSE 2 * SyncSize

(* After bytes without any sync byte, at most SyncCount packets are lost   *)
(* before the packets are found.                                           *)
NoiseUpTo(q) == \A p \in 0..(recv - 1) : HasSync(p) <=> p \in Grid(q)
Resyncs ==
    \A q \in 0..recv :
        RoomToSync /\ pc = "idle" /\ NoiseUpTo(q) =>
            \A p \in (q + SyncSize)..(recv - held - PacketLen) :
                HasSync(p) /\ stream[p] \in Variant.ids
                    => \E i \in 1..Len(out) : out[i] = p
=============================================================================
