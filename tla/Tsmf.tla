-------------------------------- MODULE Tsmf --------------------------------
(***************************************************************************)
(* The TSMF filter (tsmf.c) and its use by a receiver (ptx_chrdev.c): one  *)
(* of the transport streams that an ISDB-C carrier multiplexes is selected *)
(* by the position of its packets after a frame header, and handed on a    *)
(* frame at a time, once the next header has shown the frame complete.     *)
(*                                                                         *)
(* A carrier sends its frames over and over.  A packet is where it is in   *)
(* the carrier and what became of it: [c, f, s, dam] is slot s of frame f, *)
(* s = 0 is the header; dam is "no", "yes" (an error indicator, a bad CRC) *)
(* or "pid" (its PID is lost, too).  What it carries follows from Carriers.*)
(***************************************************************************)
EXTENDS Integers, Sequences, FiniteSets

CONSTANTS
    SlotNum,       \* packets after a header (52)
    DetectPackets, \* packets without a header until there is none (53 * 8)
    StalePackets,  \* packets of the previous carrier that may follow a tune
    TlvMax,        \* fragments that fit into tlv_buf
    MaxLost,       \* bound: packets lost since the last header, see Lose
    MaxDamaged,    \* bound: packets damaged since the last header
    Carriers,      \* what is sent, see CarriersAssumption
    Indexes        \* values of stream_index

(* A frame of a carrier: the relative TS numbers in use, those declared    *)
(* divided TLV, each slot's owner (number + 1, or 0) and its contents.     *)
ASSUME CarriersAssumption ==
    \A c \in DOMAIN Carriers :
        /\ Carriers[c].header \in BOOLEAN
        /\ Len(Carriers[c].frames) \in Nat \ {0}
        /\ DOMAIN Carriers[c].frames = 1..Len(Carriers[c].frames)
        /\ \A f \in DOMAIN Carriers[c].frames :
              LET x == Carriers[c].frames[f]
              IN  /\ x.valid \subseteq 0..14 /\ x.tlv \subseteq x.valid
                  /\ \A s \in 1..SlotNum :
                        /\ x.owner[s] \in 0..15
                        /\ x.load[s] \in {"null", "mpeg", "start", "cont", "startbad"}
ASSUME SizesAssumption ==
    /\ SlotNum \in Nat \ {0} /\ DetectPackets \in Nat \ {0} /\ TlvMax \in Nat \ {0}
    /\ StalePackets \in 0..2 /\ MaxLost \in 0..SlotNum /\ MaxDamaged \in Nat
    /\ Indexes \subseteq 0..14

VARIABLES
    fl,       \* struct tsmf_filter
    air,      \* the packet that comes next from the carrier received
    stale,    \* the packets of the previous carrier still in the bridge
    out,      \* what the last packet made the filter output
    chosen,   \* ghost: the TS that stream_index stands for, -1 not known yet
    lost, damaged, \* ghost: packets since the last header that was taken
    clean     \* ghost: every packet since that header came intact

vars == <<fl, air, stale, out, chosen, lost, damaged, clean>>

FrameOf(p) == Carriers[p.c].frames[p.f]
Pid(p) == CASE p.dam = "pid" -> "junk" [] p.dam # "pid" /\ p.s = 0 -> "header" [] OTHER -> FrameOf(p).load[p.s]
TlvPids == {"start", "cont", "startbad"}

(* The packet after p; a carrier without TSMF has no headers.              *)
Following(p) ==
    LET frames == Len(Carriers[p.c].frames)
    IN  IF p.s < SlotNum THEN [p EXCEPT !.s = @ + 1]
        ELSE [p EXCEPT !.s = IF Carriers[p.c].header THEN 0 ELSE 1, !.f = (@ % frames) + 1]

Places(c) == {[c |-> c, f |-> f, s |-> s, dam |-> "no"] :
                 f \in DOMAIN Carriers[c].frames,
                 s \in (IF Carriers[c].header THEN 0 ELSE 1)..SlotNum}

-----------------------------------------------------------------------------
(* tsmf.c.  A filter operation gives the filter and what is output.        *)

Nothing == [kind |-> "none", data |-> << >>]
Result(f, o) == [fl |-> f, out |-> o]

tsmf_filter_init(index) ==
    [stream_index |-> index, skip_packets |-> StalePackets, passthrough |-> FALSE,
     header_found |-> FALSE, not_found |-> FALSE, detect_packets |-> 0,
     output_tlv |-> FALSE, tlv_rejected |-> FALSE, relative |-> -1, stream |-> -1,
     slot |-> -1, slot_stream |-> [s \in 1..SlotNum |-> 0], frame |-> << >>, tlv_buf |-> << >>]

tsmf_is_header(p) == p.s = 0 /\ p.dam = "no"

(* The stream_index-th TS in use.                                          *)
NumberOf(valid, index) ==
    IF Cardinality(valid) > index
    THEN CHOOSE r \in valid : Cardinality({v \in valid : v < r}) = index ELSE -1

(* The number is resolved once and kept until the next tune.               *)
tsmf_parse_header(f, p) ==
    LET x == FrameOf(p)
        relative == IF f.relative < 0 THEN NumberOf(x.valid, f.stream_index) ELSE f.relative
        stream == IF relative \in x.valid THEN relative ELSE -1
        tlv == stream \in x.tlv /\ ~f.tlv_rejected
    IN  [f EXCEPT !.relative = relative, !.stream = stream, !.output_tlv = tlv,
                  !.tlv_buf = IF stream # f.stream \/ tlv # f.output_tlv THEN << >> ELSE @,
                  !.slot_stream = [s \in 1..SlotNum |-> x.owner[s]],
                  !.header_found = TRUE, !.not_found = stream < 0,
                  !.slot = 0, !.frame = << >>]

(* Data that does not fit makes what was collected useless.                *)
tsmf_append_tlv(buf, p) == IF Len(buf) >= TlvMax THEN << >> ELSE Append(buf, p)

(* Mutant of tsmf_extract_tlv: a damaged packet is skipped like any other. *)
ExtractTlvSkipsDamaged(acc, p) ==
    LET buf == tsmf_append_tlv(acc.buf, p)
    IN  CASE p.dam # "no" -> acc
          [] p.dam = "no" /\ Pid(p) = "cont" -> IF acc.buf = << >> THEN acc ELSE [acc EXCEPT !.buf = buf]
          [] p.dam = "no" /\ Pid(p) = "start" ->
                [buf |-> <<p>>, done |-> IF acc.buf # << >> THEN Append(acc.done, buf) ELSE acc.done]
          [] OTHER -> acc

(* acc is [buf, done]: the TLV packet being collected, those completed.    *)
tsmf_extract_tlv(acc, p) ==
    LET buf == tsmf_append_tlv(acc.buf, p)
        cleared == [acc EXCEPT !.buf = << >>]
    IN  CASE p.dam # "no" -> cleared
          [] p.dam = "no" /\ Pid(p) = "cont" -> IF acc.buf = << >> THEN acc ELSE [acc EXCEPT !.buf = buf]
          [] p.dam = "no" /\ Pid(p) = "startbad" -> cleared
          [] p.dam = "no" /\ Pid(p) = "start" ->
                [buf |-> <<p>>,
                 done |-> IF acc.buf # << >> /\ buf # << >> THEN Append(acc.done, buf) ELSE acc.done]
          [] OTHER -> acc

(* The packets of a frame one after the other: [n] is after the first n.   *)
Extracted(buf, frame) ==
    LET acc[n \in 0..Len(frame)] ==
            IF n = 0 THEN [buf |-> buf, done |-> << >>]
            ELSE tsmf_extract_tlv(acc[n - 1], frame[n])
    IN  acc

(* A TS that carries anything but divided TLV is an MPEG-2 TS after all.   *)
tsmf_flush_frame(f) ==
    LET other == \E n \in DOMAIN f.frame : f.frame[n].dam = "no" /\ Pid(f.frame[n]) \notin TlvPids \cup {"null"}
        rejected == [f EXCEPT !.tlv_rejected = TRUE, !.output_tlv = FALSE, !.tlv_buf = << >>]
        acc == Extracted(f.tlv_buf, f.frame)[Len(f.frame)]
    IN  IF ~f.output_tlv THEN Result(f, [kind |-> "ts", data |-> f.frame])
        ELSE IF other THEN Result(rejected, [kind |-> "ts", data |-> f.frame])
        ELSE Result([f EXCEPT !.tlv_buf = acc.buf], [kind |-> "tlv", data |-> acc.done])

tsmf_is_null_packet(p) == Pid(p) = "null"
Collect(f, p) == IF tsmf_is_null_packet(p) THEN f ELSE [f EXCEPT !.frame = Append(@, p)]

tsmf_passthrough_packet(f, p) ==
    LET g == Collect(f, p)
    IN  IF Len(g.frame) < SlotNum THEN Result(g, Nothing)
        ELSE Result([g EXCEPT !.frame = << >>], [kind |-> "pass", data |-> g.frame])

(* Mutant of Detect: a TS other than TS0 goes on waiting for a header.     *)
DetectTs0Only(f) ==
    IF f.header_found \/ f.detect_packets = DetectPackets \/ f.stream_index # 0 THEN f
    ELSE [f EXCEPT !.detect_packets = @ + 1, !.passthrough = f.detect_packets + 1 = DetectPackets]

(* Without a header for long, there is none on this carrier.               *)
Detect(f) ==
    IF f.header_found \/ f.detect_packets = DetectPackets THEN f
    ELSE IF f.detect_packets + 1 < DetectPackets THEN [f EXCEPT !.detect_packets = @ + 1]
    ELSE [f EXCEPT !.detect_packets = @ + 1,
                   !.passthrough = @ \/ f.stream_index = 0,
                   !.not_found = @ \/ f.stream_index # 0]

(* Mutant of TakeHeader: a carrier taken for one without TSMF stays one.   *)
TakeHeaderKeepsGuess(f, p) ==
    LET flushed == IF f.slot = SlotNum THEN tsmf_flush_frame(f)
                   ELSE Result([f EXCEPT !.tlv_buf = << >>], Nothing)
    IN  Result(tsmf_parse_header(flushed.fl, p), flushed.out)

TakeHeader(f, p) ==
    LET g == IF f.passthrough THEN [f EXCEPT !.passthrough = FALSE, !.frame = << >>] ELSE f
        flushed == IF g.slot = SlotNum THEN tsmf_flush_frame(g)
                   ELSE Result([g EXCEPT !.tlv_buf = << >>], Nothing)
    IN  Result(tsmf_parse_header(flushed.fl, p), flushed.out)

(* Mutant of MissedHeader: the frame is output whatever came.              *)
MissedHeaderFlushes(f, p) ==
    LET flushed == tsmf_flush_frame(f)
    IN  Result([flushed.fl EXCEPT !.slot = -1, !.tlv_buf = << >>], flushed.out)

(* After the last slot something else than a header came: a header damaged *)
(* on the way, or packets are missing.                                     *)
MissedHeader(f, p) ==
    LET flushed == IF Pid(p) = "header" THEN tsmf_flush_frame(f) ELSE Result(f, Nothing)
    IN  Result([flushed.fl EXCEPT !.slot = -1, !.tlv_buf = << >>], flushed.out)

TakeSlot(f, p) ==
    LET g == [f EXCEPT !.slot = @ + 1]
        mine == f.stream >= 0 /\ f.slot_stream[f.slot + 1] = f.stream + 1
    IN  Result(IF mine THEN Collect(g, p) ELSE g, Nothing)

tsmf_filter_packet(f, p) ==
    LET g == Detect(f)
    IN  CASE f.skip_packets > 0 -> Result([f EXCEPT !.skip_packets = @ - 1], Nothing)
          [] f.skip_packets = 0 /\ tsmf_is_header(p) -> TakeHeader(f, p)
          [] OTHER -> IF g.passthrough THEN tsmf_passthrough_packet(g, p)
                      ELSE IF g.slot < 0 THEN Result(g, Nothing)
                      ELSE IF g.slot >= SlotNum THEN MissedHeader(g, p)
                      ELSE TakeSlot(g, p)

tsmf_filter_resync(f) == [f EXCEPT !.slot = -1, !.frame = << >>, !.tlv_buf = << >>]

tsmf_filter_get_state(f) ==
    IF f.passthrough \/ f.stream >= 0 THEN "FOUND" ELSE IF f.not_found THEN "NOT_FOUND" ELSE "SEARCHING"

-----------------------------------------------------------------------------
(* The receiver.                                                           *)

Forget == chosen' = -1 /\ lost' = 0 /\ damaged' = 0 /\ clean' = FALSE

(* Where a carrier starts does not matter: until the filter has a header,  *)
(* any number of packets may be lost.                                      *)
Start(c) == CHOOSE p \in Places(c) : p.f = 1 /\ p.s = 1

Init ==
    /\ \E i \in Indexes : fl = tsmf_filter_init(i)
    /\ \E c \in DOMAIN Carriers : air = Start(c)
    /\ stale = << >>
    /\ out = Nothing
    /\ chosen = -1 /\ lost = 0 /\ damaged = 0 /\ clean = FALSE

(* A tune of ISDB-C that locked.  ptx_chrdev_prepare_tsmf() resets the     *)
(* filter, and ptx_chrdev_wait_tsmf() once more when the board has locked; *)
(* what the filter did in between is forgotten.  Up to one transfer of the *)
(* bridge is from before.                                                  *)
Tune ==
    /\ \E i \in Indexes : fl' = tsmf_filter_init(i)
    /\ \E n \in 0..StalePackets :
          stale' = SubSeq(<<air, Following(air)>>, 1, n)
    /\ \E c \in DOMAIN Carriers : air' = Start(c)
    /\ out' = Nothing
    /\ Forget

(* PTX_STOP_STREAMING and later PTX_START_STREAMING.                       *)
Restart ==
    /\ fl' = tsmf_filter_resync(fl)
    /\ out' = Nothing
    /\ lost' = 0 /\ damaged' = 0 /\ clean' = FALSE
    /\ UNCHANGED <<air, stale, chosen>>

(* ptx_chrdev_put_stream_tsmf() of one packet.                             *)
Put(p) ==
    LET taken == fl.skip_packets = 0 /\ tsmf_is_header(p)
    IN  \E r \in {tsmf_filter_packet(fl, p)} :
        /\ fl' = r.fl /\ out' = r.out
        /\ chosen' = IF taken /\ chosen < 0 THEN NumberOf(FrameOf(p).valid, fl.stream_index) ELSE chosen
        /\ lost' = IF taken \/ r.fl.slot < 0 THEN 0 ELSE lost
        /\ damaged' = IF taken \/ r.fl.slot < 0 THEN 0
                      ELSE IF p.dam # "no" THEN damaged + 1 ELSE damaged
        /\ clean' = (taken \/ (clean /\ p.dam = "no"))

Incoming == IF stale # << >> THEN Head(stale) ELSE air
Advance ==
    IF stale # << >> THEN stale' = Tail(stale) /\ UNCHANGED air
    ELSE air' = Following(air) /\ UNCHANGED stale

Receive == Put(Incoming) /\ Advance

ReceiveDamaged ==
    /\ fl.slot >= 0 => damaged < MaxDamaged
    /\ \E d \in {"yes", "pid"} : Put([Incoming EXCEPT !.dam = d])
    /\ Advance

(* Packets are lost one at a time.  While the filter counts slots, fewer   *)
(* are lost than a frame has with its header.                              *)
Lose ==
    /\ fl.slot >= 0 => lost < MaxLost
    /\ lost' = IF fl.slot >= 0 THEN lost + 1 ELSE 0
    /\ clean' = FALSE
    /\ out' = Nothing
    /\ Advance
    /\ UNCHANGED <<fl, chosen, damaged>>

Next == Tune \/ Restart \/ Receive \/ ReceiveDamaged \/ Lose

(* A locked carrier keeps sending, and not everything is lost or damaged.  *)
Spec == Init /\ [][Next]_vars /\ WF_vars(Receive)

-----------------------------------------------------------------------------
(* Properties.                                                             *)

SlotsOf(c, f, ts) == {s \in 1..SlotNum : Carriers[c].frames[f].owner[s] = ts + 1}
Owed(c, f, ts) == {s \in SlotsOf(c, f, ts) : Carriers[c].frames[f].load[s] # "null"}
IsFrame(data, c, f, ts) ==
    /\ \A n \in DOMAIN data : data[n].c = c /\ data[n].f = f /\ data[n].s \in SlotsOf(c, f, ts)
    /\ \A n, m \in DOMAIN data : n < m => data[n].s < data[m].s
    /\ Owed(c, f, ts) \subseteq {data[n].s : n \in DOMAIN data}

(* What is output after a tune is a whole frame of the selected TS of the  *)
(* carrier that is received: nothing of another TS, another carrier or two *)
(* frames, whatever is lost (less than a frame), damaged, left over from   *)
(* before, and however the TSs in use change; and no TS is given out under *)
(* TS0 as a carrier without TSMF once a header was seen.                   *)
OutputSound ==
    /\ out.kind = "ts" /\ out.data # << >> =>
          \E f \in DOMAIN Carriers[air.c].frames : IsFrame(out.data, air.c, f, chosen)
    /\ out.kind = "pass" => ~fl.header_found /\ fl.stream_index = 0
    /\ out.kind = "pass" => \A n \in DOMAIN out.data : out.data[n].c = air.c

FrameTlv(c, f, ts) == \A s \in Owed(c, f, ts) : Carriers[c].frames[f].load[s] \in TlvPids
RealTlv(c, ts) == \A f \in DOMAIN Carriers[c].frames : FrameTlv(c, f, ts)

(* A frame that came intact between two intact headers is output when the  *)
(* second of them comes, if its TS is in use: as it is, or as TLV packets. *)
(* Losses, a wrong guess before the first header, a restart: nothing keeps *)
(* the filter from falling back into step.                                 *)
Before(p) == LET frames == Len(Carriers[p.c].frames) IN IF p.f = 1 THEN frames ELSE p.f - 1
WholeFrameOutput ==
    [][ /\ clean /\ clean'
        /\ air.s = 0 /\ air' = Following(air)
        /\ chosen \in Carriers[air.c].frames[Before(air)].valid
        => \/ out'.kind = "ts" /\ IsFrame(out'.data, air.c, Before(air), chosen)
           \/ out'.kind = "tlv" /\ FrameTlv(air.c, Before(air), chosen) ]_vars

(* A TLV packet that is output was put together from all of its fragments, *)
(* in order, and a TS of divided TLV is never taken for an MPEG-2 TS.      *)
Rank(q) == q.f * (SlotNum + 1) + q.s
NextFragment(q, ts) ==
    LET all == {p \in Places(q.c) : p.s \in SlotsOf(q.c, p.f, ts) /\ Pid(p) \in TlvPids}
        later == {p \in all : Rank(p) > Rank(q)}
        from == IF later = {} THEN all ELSE later
    IN  CHOOSE p \in from : \A o \in from : Rank(p) <= Rank(o)
IsTlv(t) ==
    /\ Len(t) > 1
    /\ \A n \in DOMAIN t : Pid(t[n]) = IF n \in {1, Len(t)} THEN "start" ELSE "cont"
    /\ \A n \in 1..(Len(t) - 1) : t[n + 1] = NextFragment(t[n], chosen)
TlvSound ==
    /\ out.kind = "tlv" => \A n \in DOMAIN out.data : IsTlv(out.data[n])
    /\ fl.tlv_rejected => ~RealTlv(air.c, chosen)

(* ptx_chrdev_wait_tsmf() does not wait in vain for a carrier that sends:  *)
(* past the stale packets, the filter finds the TS, or finds that it is    *)
(* not there, unless the receiver is tuned again (skip_packets is set).    *)
Searching == tsmf_filter_get_state(fl) = "SEARCHING"
Decides == fl.skip_packets = 0 /\ Searching ~> ~Searching \/ fl.skip_packets > 0

=============================================================================
