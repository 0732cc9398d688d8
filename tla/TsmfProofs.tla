------------------------------ MODULE TsmfProofs ------------------------------
(***************************************************************************)
(* The TSMF filter as in Tsmf, for every carrier, number of slots and      *)
(* packets lost, damaged or left over from before.                         *)
(***************************************************************************)
EXTENDS Tsmf, SequenceTheorems, WellFoundedInduction, TLAPS

Damages == {"no", "yes", "pid"}
Packets == [c : DOMAIN Carriers, f : Nat, s : 0..SlotNum, dam : Damages]

(* Fields of struct tsmf_filter.                                           *)
IsFilter(f) ==
    f = [stream_index |-> f.stream_index, skip_packets |-> f.skip_packets,
         passthrough |-> f.passthrough, header_found |-> f.header_found,
         not_found |-> f.not_found, detect_packets |-> f.detect_packets,
         output_tlv |-> f.output_tlv, tlv_rejected |-> f.tlv_rejected,
         relative |-> f.relative, stream |-> f.stream, slot |-> f.slot,
         slot_stream |-> f.slot_stream, frame |-> f.frame, tlv_buf |-> f.tlv_buf]

AirInv ==
    /\ air \in Packets /\ air.dam = "no"
    /\ air.f \in DOMAIN Carriers[air.c].frames
    /\ ~Carriers[air.c].header => air.s > 0

TypeInv ==
    /\ AirInv
    /\ IsFilter(fl)
    /\ fl.skip_packets \in Nat
    /\ fl.passthrough \in BOOLEAN /\ fl.header_found \in BOOLEAN
    /\ fl.tlv_rejected \in BOOLEAN
    /\ fl.slot \in -1..SlotNum
    /\ fl.frame \in Seq(Packets)
    /\ stale \in Seq(Packets)
    /\ lost \in 0..MaxLost
    /\ clean \in BOOLEAN

(* The stale packets are skipped; the filter's number is the one chosen.   *)
TuneInv ==
    /\ Len(stale) <= fl.skip_packets
    /\ fl.relative = chosen

(* Before a header only packets of a carrier without TSMF are collected.   *)
PassInv ==
    /\ ~fl.header_found => fl.slot = -1 /\ (fl.passthrough \/ fl.frame = << >>)
    /\ fl.passthrough => /\ ~fl.header_found /\ fl.stream_index = 0
                         /\ \A n \in DOMAIN fl.frame : fl.frame[n].c = air.c

(* The slot of the packet that is the d-th after the one behind a header.  *)
PlaceOf(d) == IF d < SlotNum THEN d + 1 ELSE d - SlotNum

(* How far the filter's slot is behind the carrier's.                      *)
SlotInv ==
    fl.slot >= 0 =>
        /\ fl.skip_packets = 0 /\ fl.header_found
        /\ Carriers[air.c].header
        /\ air.s = PlaceOf(fl.slot + lost)

(* The frame being collected, as far as its slot n.                        *)
Current == IF fl.slot < SlotNum THEN air.f ELSE Before(air)
IsPart(data, c, g, ts, n) ==
    /\ \A i \in DOMAIN data : /\ data[i].c = c /\ data[i].f = g
                              /\ data[i].s \in SlotsOf(c, g, ts) /\ data[i].s <= n
    /\ \A i, j \in DOMAIN data : i < j => data[i].s < data[j].s
    /\ \A s \in Owed(c, g, ts) : s <= n => \E i \in DOMAIN data : data[i].s = s
FrameInv ==
    fl.slot >= 0 /\ lost = 0 =>
        LET x == Carriers[air.c].frames[Current]
        IN  /\ fl.slot_stream = [s \in 1..SlotNum |-> x.owner[s]]
            /\ fl.stream = IF chosen \in x.valid THEN chosen ELSE -1
            /\ fl.stream < 0 => fl.frame = << >>
            /\ fl.stream >= 0 => IsPart(fl.frame, air.c, Current, chosen, fl.slot)

CleanInv ==
    clean => /\ fl.slot >= 0 /\ lost = 0
             /\ \A n \in DOMAIN fl.frame : fl.frame[n].dam = "no"

(* A TS is taken for MPEG-2 only when it carries something else than TLV.  *)
RejectsOnlyMpeg ==
    fl.tlv_rejected => chosen \in 0..14 /\ ~RealTlv(air.c, chosen)

IInv == /\ TypeInv /\ TuneInv /\ PassInv /\ SlotInv /\ FrameInv /\ CleanInv
        /\ RejectsOnlyMpeg /\ OutputSound

-----------------------------------------------------------------------------
(* What the filter's operations give, field by field                       *)

(* tsmf_filter_init()                                                      *)
LEMMA InitFields ==
    ASSUME NEW i
    PROVE  LET r == tsmf_filter_init(i)
           IN  /\ IsFilter(r)
               /\ r.stream_index = i /\ r.skip_packets = StalePackets
               /\ r.passthrough = FALSE /\ r.header_found = FALSE
               /\ r.tlv_rejected = FALSE
               /\ r.relative = -1 /\ r.slot = -1 /\ r.frame = << >>
BY DEF tsmf_filter_init, IsFilter

(* tsmf_parse_header()                                                     *)
Parsed(f, p, r) ==
    /\ IsFilter(r)
    /\ r.stream_index = f.stream_index /\ r.skip_packets = f.skip_packets
    /\ r.passthrough = f.passthrough /\ r.header_found = TRUE
    /\ r.tlv_rejected = f.tlv_rejected
    /\ r.relative = IF f.relative < 0 THEN NumberOf(FrameOf(p).valid, f.stream_index)
                    ELSE f.relative
    /\ r.stream = IF r.relative \in FrameOf(p).valid THEN r.relative ELSE -1
    /\ r.slot = 0 /\ r.frame = << >>
    /\ r.slot_stream = [s \in 1..SlotNum |-> FrameOf(p).owner[s]]
(* It gives these fields.                                                  *)
LEMMA ParseFields ==
    ASSUME NEW f, IsFilter(f), NEW p
    PROVE  Parsed(f, p, tsmf_parse_header(f, p))
<1> DEFINE x == FrameOf(p)
<1>1. PICK rel : rel = IF f.relative < 0 THEN NumberOf(x.valid, f.stream_index) ELSE f.relative
  OBVIOUS
<1>2. PICK st : st = IF rel \in x.valid THEN rel ELSE -1
  OBVIOUS
<1>3. PICK tlv : tlv = (st \in x.tlv /\ ~f.tlv_rejected)
  OBVIOUS
<1>4. PICK buf : buf = IF st # f.stream \/ tlv # f.output_tlv THEN << >> ELSE f.tlv_buf
  OBVIOUS
<1>5. PICK own : own = [s \in 1..SlotNum |-> x.owner[s]]
  OBVIOUS
<1>6. PICK none : none = (st < 0)
  OBVIOUS
<1>7. tsmf_parse_header(f, p) =
        [f EXCEPT !.relative = rel, !.stream = st, !.output_tlv = tlv, !.tlv_buf = buf,
                  !.slot_stream = own, !.header_found = TRUE, !.not_found = none,
                  !.slot = 0, !.frame = << >>]
  BY <1>1, <1>2, <1>3, <1>4, <1>5, <1>6, Zenon DEF tsmf_parse_header
<1> HIDE DEF x
<1>8. LET r == tsmf_parse_header(f, p)
      IN  /\ IsFilter(r)
          /\ r.stream_index = f.stream_index /\ r.skip_packets = f.skip_packets
          /\ r.passthrough = f.passthrough /\ r.header_found = TRUE
          /\ r.tlv_rejected = f.tlv_rejected
          /\ r.relative = rel /\ r.stream = st /\ r.slot = 0 /\ r.frame = << >>
          /\ r.slot_stream = own
  BY <1>7 DEF IsFilter
<1> QED
  BY <1>1, <1>2, <1>5, <1>8 DEF x, Parsed

(* A frame that carries something else than divided TLV.                   *)
Other(frame) == \E n \in DOMAIN frame : /\ frame[n].dam = "no"
                                        /\ Pid(frame[n]) \notin TlvPids \cup {"null"}
(* tsmf_flush_frame()                                                      *)
LEMMA FlushFields ==
    ASSUME NEW f, IsFilter(f), f.tlv_rejected \in BOOLEAN
    PROVE  LET r == tsmf_flush_frame(f)
           IN  /\ IsFilter(r.fl)
               /\ r.fl.stream_index = f.stream_index /\ r.fl.skip_packets = f.skip_packets
               /\ r.fl.passthrough = f.passthrough /\ r.fl.header_found = f.header_found
               /\ r.fl.tlv_rejected \in BOOLEAN
               /\ r.fl.tlv_rejected => f.tlv_rejected \/ Other(f.frame)
               /\ r.fl.relative = f.relative /\ r.fl.stream = f.stream
               /\ r.fl.slot = f.slot /\ r.fl.slot_stream = f.slot_stream
               /\ r.fl.frame = f.frame
               /\ \/ r.out.kind = "ts" /\ r.out.data = f.frame
                  \/ r.out.kind = "tlv" /\ ~Other(f.frame)
<1>1. CASE ~f.output_tlv
  BY <1>1 DEF tsmf_flush_frame, Result, IsFilter
<1>2. CASE f.output_tlv /\ Other(f.frame)
  BY <1>2 DEF tsmf_flush_frame, Result, IsFilter, Other
<1>3. CASE f.output_tlv /\ ~Other(f.frame)
  BY <1>3 DEF tsmf_flush_frame, Result, IsFilter, Other
<1> QED
  BY <1>1, <1>2, <1>3

(* A packet skipped as stale.                                              *)
LEMMA SkipFields ==
    ASSUME NEW f, IsFilter(f), NEW p, f.skip_packets > 0
    PROVE  /\ tsmf_filter_packet(f, p).fl = [f EXCEPT !.skip_packets = @ - 1]
           /\ tsmf_filter_packet(f, p).out = Nothing
BY DEF tsmf_filter_packet, Result

(* A header: the frame before it is put out when it was counted to its     *)
(* end, and the next one begins.                                           *)
Flushed(f, o) == \/ o.kind = "ts" /\ o.data = f.frame
                 \/ o.kind = "tlv" /\ ~Other(f.frame)
HeaderTaken(f, p, r) ==
    /\ IsFilter(r.fl)
    /\ r.fl.stream_index = f.stream_index /\ r.fl.skip_packets = 0
    /\ r.fl.passthrough = FALSE /\ r.fl.header_found = TRUE
    /\ r.fl.tlv_rejected \in BOOLEAN
    /\ r.fl.tlv_rejected => f.tlv_rejected \/ (f.slot = SlotNum /\ Other(f.frame))
    /\ r.fl.relative = IF f.relative < 0 THEN NumberOf(FrameOf(p).valid, f.stream_index)
                       ELSE f.relative
    /\ r.fl.stream = IF r.fl.relative \in FrameOf(p).valid THEN r.fl.relative ELSE -1
    /\ r.fl.slot = 0 /\ r.fl.frame = << >>
    /\ r.fl.slot_stream = [s \in 1..SlotNum |-> FrameOf(p).owner[s]]
    /\ f.slot # SlotNum => r.out.kind = "none"
    /\ f.slot = SlotNum => Flushed(f, r.out)
(* TakeHeader() does this.                                                 *)
LEMMA HeaderFields ==
    ASSUME NEW f, IsFilter(f), f.tlv_rejected \in BOOLEAN, f.passthrough \in BOOLEAN,
           f.passthrough => f.slot # SlotNum,
           NEW p, f.skip_packets = 0, tsmf_is_header(p)
    PROVE  HeaderTaken(f, p, tsmf_filter_packet(f, p))
<1> DEFINE g == IF f.passthrough THEN [f EXCEPT !.passthrough = FALSE, !.frame = << >>] ELSE f
           h == IF g.slot = SlotNum THEN tsmf_flush_frame(g)
                ELSE Result([g EXCEPT !.tlv_buf = << >>], Nothing)
<1>1. tsmf_filter_packet(f, p) = TakeHeader(f, p)
  BY DEF tsmf_filter_packet
<1>2. TakeHeader(f, p) = Result(tsmf_parse_header(h.fl, p), h.out)
  BY Zenon DEF TakeHeader
<1>3. /\ IsFilter(g) /\ g.stream_index = f.stream_index /\ g.skip_packets = 0
      /\ g.passthrough = FALSE /\ g.tlv_rejected = f.tlv_rejected
      /\ g.relative = f.relative /\ g.slot = f.slot
      /\ f.slot = SlotNum => g.frame = f.frame
  BY DEF IsFilter
<1> HIDE DEF g
<1>4. /\ IsFilter(h.fl) /\ h.fl.stream_index = f.stream_index /\ h.fl.skip_packets = 0
      /\ h.fl.passthrough = FALSE /\ h.fl.tlv_rejected \in BOOLEAN
      /\ h.fl.tlv_rejected => f.tlv_rejected \/ (f.slot = SlotNum /\ Other(f.frame))
      /\ h.fl.relative = f.relative
      /\ f.slot # SlotNum => h.out.kind = "none"
      /\ f.slot = SlotNum => \/ h.out.kind = "ts" /\ h.out.data = f.frame
                             \/ h.out.kind = "tlv" /\ ~Other(f.frame)
  <2>1. CASE f.slot = SlotNum
    <3>1. h = tsmf_flush_frame(g)
      BY <1>3, <2>1
    <3> HIDE DEF h
    <3> QED
      BY <1>3, <2>1, <3>1, FlushFields
  <2>2. CASE f.slot # SlotNum
    <3>1. h = Result([g EXCEPT !.tlv_buf = << >>], Nothing)
      BY <1>3, <2>2
    <3> HIDE DEF h
    <3> QED
      BY <1>3, <2>2, <3>1 DEF Result, Nothing, IsFilter
  <2> QED
    BY <2>1, <2>2
<1> HIDE DEF h
<1>5. /\ tsmf_filter_packet(f, p).fl = tsmf_parse_header(h.fl, p)
      /\ tsmf_filter_packet(f, p).out = h.out
  BY <1>1, <1>2 DEF Result
<1>6. PICK k, r : k = h.fl /\ r = tsmf_filter_packet(f, p)
  OBVIOUS
<1>7. r.fl = tsmf_parse_header(k, p) /\ r.out = h.out
  BY <1>5, <1>6
<1>8. IsFilter(k)
  BY <1>4, <1>6
<1>9. Parsed(k, p, r.fl)
  BY <1>7, <1>8, ParseFields
<1>10. k.relative = f.relative /\ k.stream_index = f.stream_index
  BY <1>4, <1>6
<1>11. r.fl.relative = IF f.relative < 0 THEN NumberOf(FrameOf(p).valid, f.stream_index)
                       ELSE f.relative
  BY <1>9, <1>10, Zenon DEF Parsed
<1>12. r.fl.slot_stream = [s \in 1..SlotNum |-> FrameOf(p).owner[s]]
  BY <1>9, Zenon DEF Parsed
<1> QED
  BY <1>4, <1>6, <1>7, <1>9, <1>11, <1>12 DEF Parsed, HeaderTaken, Flushed

(* Counting packets while no header was found.                             *)
SameButGuess(f, g) ==
    /\ IsFilter(g)
    /\ g.stream_index = f.stream_index /\ g.skip_packets = f.skip_packets
    /\ g.passthrough \in BOOLEAN
    /\ g.passthrough => f.passthrough \/ (~f.header_found /\ f.stream_index = 0)
    /\ f.passthrough => g.passthrough
    /\ g.header_found = f.header_found
    /\ g.relative = f.relative /\ g.stream = f.stream
    /\ g.slot_stream = f.slot_stream
(* Detect() does this.                                                     *)
LEMMA DetectFields ==
    ASSUME NEW f, IsFilter(f), f.passthrough \in BOOLEAN
    PROVE  /\ SameButGuess(f, Detect(f))
           /\ Detect(f).tlv_rejected = f.tlv_rejected
           /\ Detect(f).slot = f.slot /\ Detect(f).frame = f.frame
<1> DEFINE d == f.detect_packets + 1
           pass == f.passthrough \/ f.stream_index = 0
           none == f.not_found \/ f.stream_index # 0
<1>1. CASE f.header_found \/ f.detect_packets = DetectPackets
  BY <1>1 DEF Detect, SameButGuess
<1>2. CASE ~(f.header_found \/ f.detect_packets = DetectPackets) /\ d < DetectPackets
  <2>1. Detect(f) = [f EXCEPT !.detect_packets = d]
    BY <1>2 DEF Detect
  <2> QED
    BY <2>1 DEF IsFilter, SameButGuess
<1>3. CASE ~(f.header_found \/ f.detect_packets = DetectPackets) /\ ~(d < DetectPackets)
  <2>1. Detect(f) = [f EXCEPT !.detect_packets = d, !.passthrough = pass, !.not_found = none]
    BY <1>3 DEF Detect
  <2>2. PICK a, b, e : a = d /\ b = pass /\ e = none
    OBVIOUS
  <2>3. Detect(f) = [f EXCEPT !.detect_packets = a, !.passthrough = b, !.not_found = e]
    BY <2>1, <2>2, Zenon
  <2>4. b \in BOOLEAN /\ (f.passthrough => b) /\ (b => f.passthrough \/ f.stream_index = 0)
    BY <2>2
  <2> QED
    BY <1>3, <2>3, <2>4 DEF IsFilter, SameButGuess
<1> QED
  BY <1>1, <1>2, <1>3

(* A packet of a carrier taken for one without TSMF.                       *)
Kept(f, p) == IF tsmf_is_null_packet(p) THEN f.frame ELSE Append(f.frame, p)
Passed(f, p, r) ==
    /\ SameButGuess(f, r.fl) /\ r.fl.passthrough
    /\ r.fl.tlv_rejected = f.tlv_rejected /\ r.fl.slot = f.slot
    /\ \/ r.out.kind = "none" /\ r.fl.frame = Kept(f, p)
       \/ r.out.kind = "pass" /\ r.out.data = Kept(f, p) /\ r.fl.frame = << >>

(* A packet before any header, or after a gap.                             *)
Ignored(f, p, r) ==
    /\ SameButGuess(f, r.fl) /\ ~r.fl.passthrough
    /\ r.fl.tlv_rejected = f.tlv_rejected
    /\ r.fl.slot = f.slot /\ f.slot < 0 /\ r.fl.frame = f.frame
    /\ r.out.kind = "none"

(* No header where one is due.                                             *)
Missed(f, p, r) ==
    /\ SameButGuess(f, r.fl) /\ ~r.fl.passthrough
    /\ f.slot >= SlotNum
    /\ r.fl.tlv_rejected \in BOOLEAN
    /\ r.fl.tlv_rejected => f.tlv_rejected \/ (Pid(p) = "header" /\ Other(f.frame))
    /\ r.fl.slot = -1 /\ r.fl.frame = f.frame
    /\ IF Pid(p) = "header" THEN Flushed(f, r.out) ELSE r.out.kind = "none"

(* A packet in a slot.                                                     *)
Mine(f) == f.stream >= 0 /\ f.slot_stream[f.slot + 1] = f.stream + 1
Slotted(f, p, r) ==
    /\ SameButGuess(f, r.fl) /\ ~r.fl.passthrough
    /\ f.slot >= 0 /\ f.slot < SlotNum
    /\ r.fl.tlv_rejected = f.tlv_rejected
    /\ r.fl.slot = f.slot + 1
    /\ r.fl.frame = IF Mine(f) THEN Kept(f, p) ELSE f.frame
    /\ r.out.kind = "none"

(* tsmf_filter_packet() of anything but a header does one of these.        *)
LEMMA OtherFields ==
    ASSUME NEW f, IsFilter(f), f.tlv_rejected \in BOOLEAN, f.passthrough \in BOOLEAN,
           f.slot \in Int, NEW p, f.skip_packets = 0, ~tsmf_is_header(p)
    PROVE  LET r == tsmf_filter_packet(f, p)
           IN  Passed(f, p, r) \/ Ignored(f, p, r) \/ Missed(f, p, r) \/ Slotted(f, p, r)
<1>1. PICK g : g = Detect(f)
  OBVIOUS
<1>2. PICK r : r = tsmf_filter_packet(f, p)
  OBVIOUS
<1>3. r = IF g.passthrough THEN tsmf_passthrough_packet(g, p)
          ELSE IF g.slot < 0 THEN Result(g, Nothing)
          ELSE IF g.slot >= SlotNum THEN MissedHeader(g, p)
          ELSE TakeSlot(g, p)
  BY <1>1, <1>2 DEF tsmf_filter_packet
<1>4. /\ SameButGuess(f, g) /\ g.tlv_rejected = f.tlv_rejected
      /\ g.slot = f.slot /\ g.frame = f.frame
  BY <1>1, DetectFields
<1>5. IsFilter(g) /\ g.tlv_rejected \in BOOLEAN /\ g.slot \in Int /\ SlotNum \in Nat
  BY <1>4, SizesAssumption DEF SameButGuess
<1>6. CASE g.passthrough
  <2>1. PICK k : k = Collect(g, p)
    OBVIOUS
  <2>2. IsFilter(k) /\ SameButGuess(f, k) /\ k.passthrough /\ k.tlv_rejected = f.tlv_rejected
        /\ k.slot = f.slot /\ k.frame = Kept(f, p)
    <3>1. CASE tsmf_is_null_packet(p)
      BY <1>4, <1>5, <1>6, <2>1, <3>1 DEF Collect, Kept
    <3>2. CASE ~tsmf_is_null_packet(p)
      <4>1. k = [g EXCEPT !.frame = Append(f.frame, p)]
        BY <1>4, <2>1, <3>2 DEF Collect
      <4> QED
        BY <1>4, <1>5, <1>6, <3>2, <4>1 DEF Kept, IsFilter, SameButGuess
    <3> QED
      BY <3>1, <3>2
  <2>3. r = IF Len(k.frame) < SlotNum THEN Result(k, Nothing)
            ELSE Result([k EXCEPT !.frame = << >>], [kind |-> "pass", data |-> k.frame])
    BY <1>3, <1>6, <2>1 DEF tsmf_passthrough_packet
  <2>4. CASE Len(k.frame) < SlotNum
    BY <2>2, <2>3, <2>4, <1>2 DEF Passed, Result, Nothing
  <2>5. CASE ~(Len(k.frame) < SlotNum)
    <3>1. PICK e : e = [k EXCEPT !.frame = << >>]
      OBVIOUS
    <3>2. r.fl = e /\ r.out.kind = "pass" /\ r.out.data = k.frame
      BY <2>3, <2>5, <3>1 DEF Result
    <3>3. SameButGuess(f, e) /\ e.passthrough /\ e.tlv_rejected = f.tlv_rejected
          /\ e.slot = f.slot /\ e.frame = << >>
      BY <2>2, <3>1 DEF IsFilter, SameButGuess
    <3> QED
      BY <1>2, <2>2, <3>2, <3>3 DEF Passed
  <2> QED
    BY <2>4, <2>5
<1>7. CASE ~g.passthrough /\ g.slot < 0
  BY <1>2, <1>3, <1>4, <1>7 DEF Ignored, Result, Nothing
<1>8. CASE ~g.passthrough /\ ~(g.slot < 0) /\ g.slot >= SlotNum
  <2>1. PICK h : h = IF Pid(p) = "header" THEN tsmf_flush_frame(g) ELSE Result(g, Nothing)
    OBVIOUS
  <2>2. r = Result([h.fl EXCEPT !.slot = -1, !.tlv_buf = << >>], h.out)
    BY <1>3, <1>8, <2>1 DEF MissedHeader
  <2>3. /\ IsFilter(h.fl) /\ SameButGuess(f, h.fl) /\ ~h.fl.passthrough
        /\ h.fl.tlv_rejected \in BOOLEAN
        /\ h.fl.tlv_rejected => f.tlv_rejected \/ (Pid(p) = "header" /\ Other(f.frame))
        /\ h.fl.frame = f.frame
        /\ IF Pid(p) = "header" THEN Flushed(f, h.out) ELSE h.out.kind = "none"
    <3>1. CASE Pid(p) = "header"
      BY <1>4, <1>5, <1>8, <2>1, <3>1, FlushFields DEF SameButGuess, Flushed
    <3>2. CASE Pid(p) # "header"
      BY <1>4, <1>5, <1>8, <2>1, <3>2 DEF Result, Nothing
    <3> QED
      BY <3>1, <3>2
  <2>4. PICK e : e = [h.fl EXCEPT !.slot = -1, !.tlv_buf = << >>]
    OBVIOUS
  <2>5. r.fl = e /\ r.out = h.out
    BY <2>2, <2>4 DEF Result
  <2>6. SameButGuess(f, e) /\ ~e.passthrough /\ e.tlv_rejected = h.fl.tlv_rejected
        /\ e.slot = -1 /\ e.frame = f.frame
    BY <2>3, <2>4 DEF IsFilter, SameButGuess
  <2>7. Missed(f, p, r)
    BY <1>4, <1>8, <2>3, <2>5, <2>6 DEF Missed
  <2> QED
    BY <1>2, <2>7
<1>9. CASE ~g.passthrough /\ ~(g.slot < 0) /\ ~(g.slot >= SlotNum)
  <2>1. PICK k : k = [g EXCEPT !.slot = @ + 1]
    OBVIOUS
  <2>2. Mine(g) <=> Mine(f)
    BY <1>4 DEF Mine, SameButGuess
  <2>3. r = Result(IF Mine(f) THEN Collect(k, p) ELSE k, Nothing)
    BY <1>3, <1>9, <2>1, <2>2 DEF TakeSlot, Mine
  <2>4. /\ IsFilter(k) /\ SameButGuess(f, k) /\ ~k.passthrough
        /\ k.tlv_rejected = f.tlv_rejected /\ k.slot = f.slot + 1 /\ k.frame = f.frame
    BY <1>4, <1>5, <1>9, <2>1 DEF IsFilter, SameButGuess
  <2>5. PICK e : e = [k EXCEPT !.frame = Append(f.frame, p)]
    OBVIOUS
  <2>6. /\ SameButGuess(f, e) /\ ~e.passthrough
        /\ e.tlv_rejected = f.tlv_rejected /\ e.slot = f.slot + 1 /\ e.frame = Append(f.frame, p)
    BY <2>4, <2>5 DEF IsFilter, SameButGuess
  <2>7. Collect(k, p) = IF tsmf_is_null_packet(p) THEN k ELSE e
    BY <2>4, <2>5 DEF Collect
  <2>8. r.fl = (IF Mine(f) /\ ~tsmf_is_null_packet(p) THEN e ELSE k) /\ r.out.kind = "none"
    BY <2>3, <2>7 DEF Result, Nothing
  <2>9. f.slot >= 0 /\ f.slot < SlotNum
    BY <1>4, <1>5, <1>9
  <2>10. Slotted(f, p, r)
    BY <2>4, <2>6, <2>8, <2>9 DEF Slotted, Kept
  <2> QED
    BY <1>2, <2>10
<1> QED
  BY <1>6, <1>7, <1>8, <1>9

-----------------------------------------------------------------------------
(* Places in a carrier                                                     *)

(* A carrier begins in the first slot of its first frame.                  *)
LEMMA StartPlace ==
    ASSUME NEW c \in DOMAIN Carriers
    PROVE  /\ Start(c) \in Packets /\ Start(c).dam = "no" /\ Start(c).c = c
           /\ Start(c).f = 1 /\ Start(c).s = 1
           /\ 1 \in DOMAIN Carriers[c].frames
<1>1. /\ 1 \in DOMAIN Carriers[c].frames /\ SlotNum \in Nat /\ 1 \in 1..SlotNum
      /\ DOMAIN Carriers[c].frames \subseteq Nat
  BY CarriersAssumption, SizesAssumption
<1> DEFINE q == [c |-> c, f |-> 1, s |-> 1, dam |-> "no"]
<1>2. q \in Places(c) /\ q.f = 1 /\ q.s = 1
  BY <1>1, SizesAssumption DEF Places
<1>3. Start(c) \in Places(c) /\ Start(c).f = 1 /\ Start(c).s = 1
  BY <1>2 DEF Start
<1>4. \A p \in Places(c) : p \in Packets /\ p.dam = "no" /\ p.c = c
  BY <1>1, SizesAssumption DEF Places, Packets, Damages
<1> QED
  BY <1>1, <1>3, <1>4

(* The frames come round.                                                  *)
LEMMA NextFrame ==
    ASSUME NEW n \in Nat, n > 0, NEW a \in 1..n
    PROVE  /\ (a % n) + 1 \in 1..n
           /\ (IF (a % n) + 1 = 1 THEN n ELSE ((a % n) + 1) - 1) = a
<1>1. CASE a = n
  <2>1. n % n = 0
    OBVIOUS
  <2> QED
    BY <1>1, <2>1
<1>2. CASE a < n
  <2>1. a % n = a
    BY <1>2
  <2> QED
    BY <1>2, <2>1
<1> QED
  BY <1>1, <1>2

(* The packet after air.                                                   *)
LEMMA FollowingPlace ==
    ASSUME AirInv
    PROVE  LET q == Following(air)
           IN  /\ q \in Packets /\ q.dam = "no" /\ q.c = air.c
               /\ q.f \in DOMAIN Carriers[air.c].frames
               /\ ~Carriers[air.c].header => q.s > 0
               /\ air.s < SlotNum => q.s = air.s + 1 /\ q.f = air.f
               /\ air.s = SlotNum /\ Carriers[air.c].header => q.s = 0
               /\ air.s = SlotNum => Before(q) = air.f
<1> DEFINE n == Len(Carriers[air.c].frames)
<1>1. /\ air \in Packets /\ air.dam = "no" /\ air.c \in DOMAIN Carriers /\ air.f \in 1..n
      /\ n \in Nat /\ n > 0 /\ DOMAIN Carriers[air.c].frames = 1..n
      /\ air.s \in 0..SlotNum /\ SlotNum \in Nat /\ SlotNum > 0
      /\ ~Carriers[air.c].header => air.s > 0
      /\ Carriers[air.c].header \in BOOLEAN
  BY CarriersAssumption, SizesAssumption DEF AirInv, Packets
<1>2. CASE air.s < SlotNum
  <2>1. Following(air) = [air EXCEPT !.s = air.s + 1]
    BY <1>2 DEF Following
  <2> QED
    BY <1>1, <1>2, <2>1 DEF Packets
<1>3. CASE ~(air.s < SlotNum)
  <2>1. PICK b : b = IF Carriers[air.c].header THEN 0 ELSE 1
    OBVIOUS
  <2>2. PICK g \in 1..n : g = (air.f % n) + 1 /\ (IF g = 1 THEN n ELSE g - 1) = air.f
    BY <1>1, NextFrame
  <2>3. Following(air) = [air EXCEPT !.s = b, !.f = g]
    BY <1>3, <2>1, <2>2 DEF Following
  <2>4. /\ Following(air) \in Packets /\ Following(air).dam = "no"
        /\ Following(air).c = air.c /\ Following(air).f = g /\ Following(air).s = b
    <3>1. b \in 0..SlotNum /\ g \in Nat
      BY <1>1, <2>1
    <3> QED
      BY <1>1, <2>3, <3>1 DEF Packets
  <2>5. Before(Following(air)) = air.f
    BY <2>2, <2>4 DEF Before
  <2> QED
    BY <1>1, <1>3, <2>1, <2>4, <2>5
<1> QED
  BY <1>2, <1>3

(* What a packet is, by its place.                                         *)
LEMMA PidFacts ==
    ASSUME NEW p \in Packets, p.f \in DOMAIN Carriers[p.c].frames
    PROVE  /\ Pid(p) = "header" => p.s = 0 /\ p.dam # "pid"
           /\ p.s # 0 /\ p.dam # "pid" => Pid(p) = Carriers[p.c].frames[p.f].load[p.s]
<1>1. p.c \in DOMAIN Carriers /\ p.s \in 0..SlotNum
  BY DEF Packets
<1>2. p.s # 0 => Carriers[p.c].frames[p.f].load[p.s] \in {"null", "mpeg", "start", "cont", "startbad"}
  BY <1>1, CarriersAssumption
<1> QED
  BY <1>1, <1>2 DEF Pid, FrameOf

-----------------------------------------------------------------------------
(* A frame that was counted to its end without a loss.                     *)
LEMMA CompleteFrame ==
    ASSUME TypeInv, FrameInv, fl.slot = SlotNum, lost = 0
    PROVE  LET g == Before(air)
           IN  /\ g \in DOMAIN Carriers[air.c].frames
               /\ fl.stream = IF chosen \in Carriers[air.c].frames[g].valid THEN chosen ELSE -1
               /\ fl.frame # << >> \/ chosen \in Carriers[air.c].frames[g].valid =>
                     IsFrame(fl.frame, air.c, g, chosen)
               /\ Other(fl.frame) => chosen \in 0..14 /\ ~RealTlv(air.c, chosen)
<1> DEFINE g == Before(air)
           x == Carriers[air.c].frames[g]
<1>1. /\ air.c \in DOMAIN Carriers /\ SlotNum \in Nat /\ SlotNum > 0
      /\ fl.frame \in Seq(Packets)
  BY SizesAssumption DEF TypeInv, AirInv, Packets
<1>2. g \in DOMAIN Carriers[air.c].frames /\ g \in Nat
  <2>1. /\ air.f \in 1..Len(Carriers[air.c].frames) /\ Len(Carriers[air.c].frames) \in Nat \ {0}
        /\ DOMAIN Carriers[air.c].frames = 1..Len(Carriers[air.c].frames)
    BY <1>1, CarriersAssumption DEF TypeInv, AirInv
  <2> QED
    BY <2>1 DEF Before
<1>3. x.valid \subseteq 0..14
  BY <1>1, <1>2, CarriersAssumption
<1>4. Current = g
  BY <1>1 DEF Current
<1>5. /\ fl.stream = IF chosen \in x.valid THEN chosen ELSE -1
      /\ fl.stream < 0 => fl.frame = << >>
      /\ fl.stream >= 0 => IsPart(fl.frame, air.c, g, chosen, SlotNum)
  BY <1>1, <1>4 DEF FrameInv
<1> HIDE DEF g
<1>6. fl.frame # << >> \/ chosen \in x.valid =>
        chosen \in 0..14 /\ IsPart(fl.frame, air.c, g, chosen, SlotNum)
  BY <1>3, <1>5
<1>7. ASSUME IsPart(fl.frame, air.c, g, chosen, SlotNum)
      PROVE  IsFrame(fl.frame, air.c, g, chosen)
  <2>1. \A s \in Owed(air.c, g, chosen) : s <= SlotNum
    BY <1>1 DEF Owed, SlotsOf
  <2> QED
    BY <1>7, <2>1 DEF IsPart, IsFrame
<1>8. ASSUME Other(fl.frame)
      PROVE  chosen \in 0..14 /\ ~RealTlv(air.c, chosen)
  <2>1. PICK n \in DOMAIN fl.frame :
           fl.frame[n].dam = "no" /\ Pid(fl.frame[n]) \notin TlvPids \cup {"null"}
    BY <1>8 DEF Other
  <2>2. fl.frame # << >>
    BY <2>1
  <2>3. chosen \in 0..14 /\ IsPart(fl.frame, air.c, g, chosen, SlotNum)
    BY <1>6, <2>2
  <2>4. PICK q : q = fl.frame[n]
    OBVIOUS
  <2>5. q \in Packets /\ q.c = air.c /\ q.f = g /\ q.s \in SlotsOf(air.c, g, chosen)
    BY <1>1, <2>1, <2>3, <2>4 DEF IsPart
  <2>6. q.s # 0
    BY <2>5 DEF SlotsOf
  <2>7. Pid(q) = Carriers[air.c].frames[g].load[q.s]
    BY <1>2, <2>1, <2>4, <2>5, <2>6, PidFacts
  <2>8. q.s \in Owed(air.c, g, chosen) /\ Carriers[air.c].frames[g].load[q.s] \notin TlvPids
    BY <2>1, <2>4, <2>5, <2>7 DEF Owed
  <2> QED
    BY <1>2, <2>3, <2>8 DEF RealTlv, FrameTlv
<1> QED
  BY <1>2, <1>5, <1>6, <1>7, <1>8 DEF g

-----------------------------------------------------------------------------
(* Induction                                                               *)

(* A receiver that was just tuned.                                         *)
Fresh ==
    /\ \E i \in Indexes : fl = tsmf_filter_init(i)
    /\ \E c \in DOMAIN Carriers : air = Start(c)
    /\ stale \in Seq(Packets) /\ Len(stale) <= StalePackets
    /\ out = Nothing
    /\ chosen = -1 /\ lost = 0 /\ damaged = 0 /\ clean = FALSE

(* Nothing of an earlier tune is left.                                     *)
LEMMA FreshInv == Fresh => IInv
<1> SUFFICES ASSUME Fresh PROVE IInv
  OBVIOUS
<1>1. PICK i \in Indexes : fl = tsmf_filter_init(i)
  BY DEF Fresh
<1>2. PICK c \in DOMAIN Carriers : air = Start(c)
  BY DEF Fresh
<1>3. /\ IsFilter(fl) /\ fl.skip_packets = StalePackets
      /\ fl.passthrough = FALSE /\ fl.header_found = FALSE /\ fl.tlv_rejected = FALSE
      /\ fl.relative = -1 /\ fl.slot = -1 /\ fl.frame = << >>
  BY <1>1, InitFields
<1>4. AirInv
  <2>1. /\ air \in Packets /\ air.dam = "no" /\ air.c = c /\ air.f = 1 /\ air.s = 1
        /\ 1 \in DOMAIN Carriers[c].frames
    BY <1>2, StartPlace
  <2> QED
    BY <2>1 DEF AirInv
<1>5. SlotNum \in Nat /\ StalePackets \in Nat /\ MaxLost \in Nat
  BY SizesAssumption
<1>6. TypeInv
  <2>1. fl.frame \in Seq(Packets) /\ fl.passthrough \in BOOLEAN
        /\ fl.header_found \in BOOLEAN /\ fl.tlv_rejected \in BOOLEAN /\ clean \in BOOLEAN
    BY <1>3, EmptySeq, Zenon DEF Fresh
  <2>2. fl.skip_packets \in Nat /\ fl.slot \in -1..SlotNum /\ lost \in 0..MaxLost
    BY <1>3, <1>5 DEF Fresh
  <2> QED
    BY <1>3, <1>4, <2>1, <2>2 DEF TypeInv, Fresh
<1>7. TuneInv
  BY <1>3 DEF TuneInv, Fresh
<1>8. PassInv
  BY <1>3 DEF PassInv
<1>9. SlotInv /\ FrameInv
  BY <1>3 DEF SlotInv, FrameInv
<1>10. CleanInv /\ RejectsOnlyMpeg
  BY <1>3 DEF CleanInv, RejectsOnlyMpeg, Fresh
<1>11. OutputSound
  BY DEF OutputSound, Fresh, Nothing
<1> QED
  BY <1>6, <1>7, <1>8, <1>9, <1>10, <1>11 DEF IInv

(* The first state is that of a receiver just tuned.                       *)
LEMMA InitIInv == Init => IInv
<1>1. Init => Fresh
  <2> SUFFICES ASSUME Init PROVE Fresh
    OBVIOUS
  <2>1. stale \in Seq(Packets) /\ Len(stale) = 0
    BY EmptySeq DEF Init
  <2> QED
    BY <2>1, SizesAssumption DEF Init, Fresh
<1> QED
  BY <1>1, FreshInv

(* So is the state after every tune: at most StalePackets packets of the   *)
(* carrier before are still to come.                                       *)
LEMMA TuneStep ==
    ASSUME IInv, Tune
    PROVE  IInv'
<1>1. Fresh' => IInv'
  BY FreshInv, PTL
<1>2. Fresh'
  <2>1. PICK n \in 0..StalePackets : stale' = SubSeq(<<air, Following(air)>>, 1, n)
    BY DEF Tune
  <2>2. <<air, Following(air)>> \in Seq(Packets)
    <3>1. air \in Packets /\ Following(air) \in Packets
      BY FollowingPlace DEF IInv, TypeInv, AirInv
    <3> QED
      BY <3>1
  <2>3. n \in 0..2 /\ StalePackets \in 0..2
    BY SizesAssumption
  <2>4. stale' \in Seq(Packets) /\ Len(stale') = n
    BY <2>1, <2>2, <2>3
  <2>5. Len(stale') <= StalePackets
    BY <2>3, <2>4
  <2> QED
    BY <2>4, <2>5 DEF Tune, Forget, Fresh
<1> QED
  BY <1>1, <1>2

(* The next packet, when something came or was lost.                       *)
LEMMA AdvanceStep ==
    ASSUME TypeInv, Advance
    PROVE  /\ AirInv' /\ air'.c = air.c
           /\ stale' \in Seq(Packets)
           /\ stale = << >> => air' = Following(air) /\ stale' = << >> /\ Len(stale') = 0
           /\ stale # << >> => air' = air /\ Len(stale') = Len(stale) - 1
<1>1. AirInv /\ stale \in Seq(Packets)
  BY DEF TypeInv
<1>2. CASE stale = << >>
  <2>1. air' = Following(air) /\ stale' = << >> /\ Len(stale') = 0
    BY <1>2 DEF Advance
  <2>2. AirInv' /\ air'.c = air.c
    BY <1>1, <2>1, FollowingPlace DEF AirInv
  <2> QED
    BY <1>1, <1>2, <2>1, <2>2
<1>3. CASE stale # << >>
  <2>1. stale' = Tail(stale) /\ air' = air
    BY <1>3 DEF Advance
  <2>2. stale' \in Seq(Packets) /\ Len(stale') = Len(stale) - 1
    BY <1>1, <1>3, <2>1
  <2> QED
    BY <1>1, <1>3, <2>1, <2>2 DEF AirInv
<1> QED
  BY <1>2, <1>3

(* One packet further on, while the filter counts slots.                   *)
LEMMA PlaceStep ==
    ASSUME TypeInv, Carriers[air.c].header, air' = Following(air),
           NEW d \in Nat, d < 2 * SlotNum, air.s = PlaceOf(d)
    PROVE  air'.s = PlaceOf(d + 1)
<1>1. AirInv /\ SlotNum \in Nat /\ SlotNum > 0 /\ air.s \in 0..SlotNum
  BY SizesAssumption DEF TypeInv, AirInv, Packets
<1>2. /\ air.s < SlotNum => air'.s = air.s + 1
      /\ air.s = SlotNum => air'.s = 0
  BY <1>1, FollowingPlace
<1>3. CASE d < SlotNum
  BY <1>1, <1>2, <1>3 DEF PlaceOf
<1>4. CASE ~(d < SlotNum)
  BY <1>1, <1>2, <1>4 DEF PlaceOf
<1> QED
  BY <1>3, <1>4

(* Reception is stopped and started: only the frame is forgotten.          *)
LEMMA RestartStep ==
    ASSUME IInv, Restart
    PROVE  IInv'
<1>1. TypeInv /\ TuneInv /\ PassInv /\ RejectsOnlyMpeg
  BY DEF IInv
<1>2. /\ fl' = [fl EXCEPT !.slot = -1, !.frame = << >>, !.tlv_buf = << >>]
      /\ out' = Nothing /\ lost' = 0 /\ clean' = FALSE
      /\ air' = air /\ stale' = stale /\ chosen' = chosen
  BY DEF Restart, tsmf_filter_resync
<1>3. /\ IsFilter(fl') /\ fl'.stream_index = fl.stream_index
      /\ fl'.skip_packets = fl.skip_packets /\ fl'.passthrough = fl.passthrough
      /\ fl'.header_found = fl.header_found /\ fl'.tlv_rejected = fl.tlv_rejected
      /\ fl'.relative = fl.relative /\ fl'.slot = -1 /\ fl'.frame = << >>
  BY <1>1, <1>2 DEF TypeInv, IsFilter
<1>4. TypeInv'
  <2>1. fl'.slot \in -1..SlotNum /\ lost' \in 0..MaxLost
    BY <1>2, <1>3, SizesAssumption
  <2>2. fl'.frame \in Seq(Packets) /\ clean' \in BOOLEAN
    BY <1>2, <1>3, EmptySeq, Zenon
  <2>3. AirInv'
    BY <1>1, <1>2 DEF TypeInv, AirInv
  <2> QED
    BY <1>1, <1>2, <1>3, <2>1, <2>2, <2>3 DEF TypeInv
<1>5. TuneInv' /\ RejectsOnlyMpeg'
  BY <1>1, <1>2, <1>3 DEF TuneInv, RejectsOnlyMpeg
<1>6. PassInv'
  BY <1>1, <1>3 DEF PassInv
<1>7. SlotInv' /\ FrameInv'
  BY <1>3 DEF SlotInv, FrameInv
<1>8. CleanInv' /\ OutputSound'
  BY <1>2 DEF CleanInv, OutputSound, Nothing
<1> QED
  BY <1>4, <1>5, <1>6, <1>7, <1>8 DEF IInv

(* What does not depend on the filter's step.                              *)
LEMMA SameCarrier ==
    ASSUME IInv, Advance
    PROVE  /\ TypeInv /\ TuneInv /\ PassInv /\ SlotInv /\ FrameInv /\ CleanInv
           /\ RejectsOnlyMpeg
           /\ AirInv' /\ air'.c = air.c /\ stale' \in Seq(Packets)
           /\ fl.skip_packets = 0 => Incoming = air /\ air' = Following(air) /\ Len(stale') = 0
           /\ fl.skip_packets > 0 => Len(stale') <= fl.skip_packets - 1
           /\ fl.slot >= 0 => fl.skip_packets = 0
           /\ fl.skip_packets \in Nat
<1>1. /\ TypeInv /\ TuneInv /\ PassInv /\ SlotInv /\ FrameInv /\ CleanInv
      /\ RejectsOnlyMpeg
  BY DEF IInv
<1>2. /\ AirInv' /\ air'.c = air.c /\ stale' \in Seq(Packets)
      /\ stale = << >> => air' = Following(air) /\ stale' = << >> /\ Len(stale') = 0
      /\ stale # << >> => air' = air /\ Len(stale') = Len(stale) - 1
  BY <1>1, AdvanceStep
<1>3. /\ stale \in Seq(Packets) /\ fl.skip_packets \in Nat /\ Len(stale) <= fl.skip_packets
  BY <1>1 DEF TypeInv, TuneInv
<1>4. fl.skip_packets = 0 => stale = << >>
  BY <1>3
<1>5. fl.skip_packets > 0 => Len(stale') <= fl.skip_packets - 1
  BY <1>2, <1>3
<1>6. fl.slot >= 0 => fl.skip_packets = 0
  BY <1>1 DEF SlotInv
<1> QED
  BY <1>1, <1>2, <1>3, <1>4, <1>5, <1>6 DEF Incoming

(* A packet is lost.                                                       *)
LEMMA LoseStep ==
    ASSUME IInv, Lose
    PROVE  IInv'
<1>1. /\ fl' = fl /\ chosen' = chosen /\ out' = Nothing /\ clean' = FALSE /\ Advance
      /\ fl.slot >= 0 => lost < MaxLost
      /\ lost' = IF fl.slot >= 0 THEN lost + 1 ELSE 0
  BY DEF Lose
<1>2. /\ TypeInv /\ TuneInv /\ PassInv /\ SlotInv /\ RejectsOnlyMpeg
      /\ AirInv' /\ air'.c = air.c /\ stale' \in Seq(Packets)
      /\ fl.skip_packets = 0 => air' = Following(air) /\ Len(stale') = 0
      /\ fl.skip_packets > 0 => Len(stale') <= fl.skip_packets - 1
      /\ fl.skip_packets \in Nat
  BY <1>1, SameCarrier
<1>3. /\ lost \in Nat /\ lost <= MaxLost /\ MaxLost \in Nat /\ MaxLost <= SlotNum
      /\ SlotNum \in Nat /\ fl.slot \in Int /\ fl.slot <= SlotNum /\ fl.slot >= -1
  BY <1>2, SizesAssumption DEF TypeInv
<1>4. lost' \in 0..MaxLost
  BY <1>1, <1>3
<1>5. TypeInv'
  BY <1>1, <1>2, <1>4 DEF TypeInv
<1>6. TuneInv'
  BY <1>1, <1>2 DEF TuneInv
<1>7. PassInv' /\ RejectsOnlyMpeg'
  BY <1>1, <1>2 DEF PassInv, RejectsOnlyMpeg
<1>8. SlotInv'
  <2> SUFFICES ASSUME fl.slot >= 0
               PROVE  air'.s = PlaceOf(fl.slot + lost')
    BY <1>1, <1>2 DEF SlotInv
  <2>1. PICK d \in Nat : d = fl.slot + lost
    BY <1>3
  <2>2. d < 2 * SlotNum /\ fl.slot + lost' = d + 1
    BY <1>1, <1>3, <2>1
  <2>3. Carriers[air.c].header /\ air' = Following(air) /\ air.s = PlaceOf(d)
    BY <1>2, <2>1 DEF SlotInv
  <2> QED
    BY <1>2, <2>2, <2>3, PlaceStep
<1>9. FrameInv'
  BY <1>1, <1>3 DEF FrameInv
<1>10. CleanInv' /\ OutputSound'
  BY <1>1 DEF CleanInv, OutputSound, Nothing
<1> QED
  BY <1>5, <1>6, <1>7, <1>8, <1>9, <1>10 DEF IInv

(* p is what came of the packet that was sent.                             *)
Came(p) == p \in Packets /\ p.c = Incoming.c /\ p.f = Incoming.f /\ p.s = Incoming.s

(* A packet that is not taken as a header.                                 *)
LEMMA PutOther ==
    ASSUME NEW p, Put(p), ~(fl.skip_packets = 0 /\ tsmf_is_header(p)),
           NEW r, r = tsmf_filter_packet(fl, p)
    PROVE  /\ fl' = r.fl /\ out' = r.out /\ chosen' = chosen
           /\ lost' = IF r.fl.slot < 0 THEN 0 ELSE lost
           /\ clean' <=> (clean /\ p.dam = "no")
           /\ clean' \in BOOLEAN
<1>1. \E q \in {r} :
        /\ fl' = q.fl /\ out' = q.out /\ chosen' = chosen
        /\ lost' = IF q.fl.slot < 0 THEN 0 ELSE lost
        /\ clean' = (FALSE \/ (clean /\ p.dam = "no"))
  <2>1. PICK t : t = (fl.skip_packets = 0 /\ tsmf_is_header(p))
    OBVIOUS
  <2>2. ~t
    BY <2>1
  <2>3. PICK q \in {r} :
          /\ fl' = q.fl /\ out' = q.out
          /\ chosen' = IF t /\ chosen < 0 THEN NumberOf(FrameOf(p).valid, fl.stream_index)
                       ELSE chosen
          /\ lost' = IF t \/ q.fl.slot < 0 THEN 0 ELSE lost
          /\ clean' = (t \/ (clean /\ p.dam = "no"))
    BY <2>1, Zenon DEF Put
  <2>4. chosen' = chosen
    BY <2>2, <2>3, Zenon
  <2>5. lost' = IF q.fl.slot < 0 THEN 0 ELSE lost
    BY <2>2, <2>3, Zenon
  <2>6. clean' = (FALSE \/ (clean /\ p.dam = "no"))
    BY <2>2, <2>3, Zenon
  <2> QED
    BY <2>3, <2>4, <2>5, <2>6, Zenon
<1>2. clean' = (FALSE \/ (clean /\ p.dam = "no"))
  BY <1>1, Zenon
<1>3. (clean' <=> (clean /\ p.dam = "no")) /\ clean' \in BOOLEAN
  BY <1>2, Zenon
<1> QED
  BY <1>1, <1>3, Zenon

(* A packet is skipped as stale: the filter has not begun.                 *)
LEMMA SkipStep ==
    ASSUME IInv, NEW p, Came(p), Put(p), Advance, fl.skip_packets > 0
    PROVE  IInv'
<1>1. /\ TypeInv /\ TuneInv /\ PassInv /\ SlotInv /\ CleanInv /\ RejectsOnlyMpeg
      /\ AirInv' /\ air'.c = air.c /\ stale' \in Seq(Packets)
      /\ Len(stale') <= fl.skip_packets - 1
      /\ fl.slot >= 0 => fl.skip_packets = 0
      /\ fl.skip_packets \in Nat
  BY SameCarrier
<1>2. fl.slot \in Int /\ fl.slot < 0 /\ clean = FALSE
  BY <1>1 DEF TypeInv, CleanInv
<1>3. PICK r : r = tsmf_filter_packet(fl, p)
  OBVIOUS
<1>4. IsFilter(fl)
  BY <1>1 DEF TypeInv
<1>5. r.fl = [fl EXCEPT !.skip_packets = @ - 1] /\ r.out = Nothing
  BY <1>3, <1>4, SkipFields
<1>6. /\ fl' = r.fl /\ out' = Nothing /\ chosen' = chosen /\ clean' = FALSE
      /\ lost' = IF r.fl.slot < 0 THEN 0 ELSE lost
  <2>1. ~(fl.skip_packets = 0 /\ tsmf_is_header(p))
    BY <1>1
  <2> QED
    BY <1>2, <1>3, <1>5, <2>1, PutOther, Zenon
<1>7. /\ IsFilter(fl') /\ fl'.stream_index = fl.stream_index
      /\ fl'.skip_packets = fl.skip_packets - 1 /\ fl'.passthrough = fl.passthrough
      /\ fl'.header_found = fl.header_found /\ fl'.tlv_rejected = fl.tlv_rejected
      /\ fl'.relative = fl.relative /\ fl'.slot = fl.slot /\ fl'.frame = fl.frame
  BY <1>4, <1>5, <1>6 DEF IsFilter
<1>8. lost' = 0
  BY <1>2, <1>6, <1>7
<1>9. TypeInv'
  <2>1. fl'.skip_packets \in Nat
    BY <1>1, <1>7
  <2>2. lost' \in 0..MaxLost
    BY <1>8, SizesAssumption
  <2> QED
    BY <1>1, <1>6, <1>7, <2>1, <2>2 DEF TypeInv
<1>10. TuneInv'
  BY <1>1, <1>6, <1>7 DEF TuneInv
<1>11. PassInv' /\ RejectsOnlyMpeg'
  BY <1>1, <1>6, <1>7 DEF PassInv, RejectsOnlyMpeg
<1>12. SlotInv' /\ FrameInv'
  BY <1>2, <1>7 DEF SlotInv, FrameInv
<1>13. CleanInv' /\ OutputSound'
  BY <1>6 DEF CleanInv, OutputSound, Nothing
<1> QED
  BY <1>9, <1>10, <1>11, <1>12, <1>13 DEF IInv

(* What a frame that is put out is.                                        *)
LEMMA FlushedFrame ==
    ASSUME TypeInv, FrameInv, fl.slot = SlotNum, lost = 0, NEW o, Flushed(fl, o)
    PROVE  /\ o.kind = "ts" /\ o.data # << >> =>
                \E f \in DOMAIN Carriers[air.c].frames : IsFrame(o.data, air.c, f, chosen)
           /\ o.kind = "ts" /\ o.data # << >> => chosen \in 0..14
           /\ o.kind # "pass"
<1>1. PICK g : g = Before(air)
  OBVIOUS
<1>2. /\ g \in DOMAIN Carriers[air.c].frames
      /\ fl.frame # << >> => IsFrame(fl.frame, air.c, g, chosen)
      /\ fl.stream = IF chosen \in Carriers[air.c].frames[g].valid THEN chosen ELSE -1
  BY <1>1, CompleteFrame
<1>3. fl.frame # << >> => chosen \in 0..14
  <2>1. Carriers[air.c].frames[g].valid \subseteq 0..14
    BY <1>2, CarriersAssumption DEF TypeInv, AirInv, Packets
  <2>2. fl.stream < 0 => fl.frame = << >>
    BY SizesAssumption DEF FrameInv
  <2> QED
    BY <1>2, <2>1, <2>2
<1> QED
  BY <1>2, <1>3 DEF Flushed

(* A header is taken.                                                      *)
LEMMA HeaderStep ==
    ASSUME IInv, NEW p, Came(p), Put(p), Advance,
           fl.skip_packets = 0, tsmf_is_header(p)
    PROVE  IInv'
<1>1. /\ TypeInv /\ TuneInv /\ PassInv /\ SlotInv /\ FrameInv /\ RejectsOnlyMpeg
      /\ AirInv' /\ air'.c = air.c /\ stale' \in Seq(Packets)
      /\ Incoming = air /\ air' = Following(air) /\ Len(stale') = 0
  BY SameCarrier
<1>2. AirInv /\ IsFilter(fl) /\ fl.tlv_rejected \in BOOLEAN /\ fl.passthrough \in BOOLEAN
      /\ fl.slot \in Int /\ lost \in Nat
  BY <1>1, SizesAssumption DEF TypeInv
<1>3. SlotNum \in Nat /\ SlotNum > 0 /\ MaxLost \in Nat
  BY SizesAssumption
<1>4. fl.passthrough => fl.slot # SlotNum
  BY <1>1, <1>3 DEF PassInv
<1>5. PICK r : r = tsmf_filter_packet(fl, p)
  OBVIOUS
<1>6. HeaderTaken(fl, p, r)
  BY <1>2, <1>4, <1>5, HeaderFields
<1>7. /\ fl' = r.fl /\ out' = r.out /\ lost' = 0 /\ clean' = TRUE
      /\ chosen' = IF chosen < 0 THEN NumberOf(FrameOf(p).valid, fl.stream_index) ELSE chosen
  BY <1>5, Zenon DEF Put
<1>8. air.s = 0 /\ FrameOf(p) = Carriers[air.c].frames[air.f]
  BY <1>1 DEF tsmf_is_header, Came, FrameOf
<1>9. /\ air.c \in DOMAIN Carriers /\ air.f \in DOMAIN Carriers[air.c].frames
      /\ Carriers[air.c].header
  BY <1>2, <1>8 DEF AirInv, Packets
<1>10. air'.s = 1 /\ air'.f = air.f
  BY <1>1, <1>2, <1>3, <1>8, FollowingPlace
<1>11. /\ IsFilter(fl') /\ fl'.stream_index = fl.stream_index /\ fl'.skip_packets = 0
       /\ fl'.passthrough = FALSE /\ fl'.header_found = TRUE
       /\ fl'.tlv_rejected \in BOOLEAN
       /\ fl'.tlv_rejected => fl.tlv_rejected \/ (fl.slot = SlotNum /\ Other(fl.frame))
       /\ fl'.slot = 0 /\ fl'.frame = << >>
       /\ fl'.stream = IF fl'.relative \in FrameOf(p).valid THEN fl'.relative ELSE -1
       /\ fl.slot # SlotNum => out'.kind = "none"
       /\ fl.slot = SlotNum => Flushed(fl, out')
  BY <1>6, <1>7 DEF HeaderTaken
<1>12. fl'.relative = chosen'
  <2>1. fl.relative = chosen
    BY <1>1 DEF TuneInv
  <2>2. fl'.relative = IF fl.relative < 0 THEN NumberOf(FrameOf(p).valid, fl.stream_index)
                       ELSE fl.relative
    BY <1>6, <1>7 DEF HeaderTaken
  <2> QED
    BY <1>7, <2>1, <2>2, Zenon
<1>13. fl'.slot_stream = [s \in 1..SlotNum |-> FrameOf(p).owner[s]]
  BY <1>6, <1>7, Zenon DEF HeaderTaken
<1>14. fl.slot = SlotNum => lost = 0
  BY <1>1, <1>2, <1>3, <1>8 DEF SlotInv, PlaceOf
<1>15. chosen \in 0..14 => chosen' = chosen
  BY <1>7
<1>16. TypeInv'
  <2>1. fl'.skip_packets \in Nat /\ fl'.slot \in -1..SlotNum /\ lost' \in 0..MaxLost
    BY <1>3, <1>7, <1>11
  <2>2. fl'.frame \in Seq(Packets) /\ clean' \in BOOLEAN /\ fl'.passthrough \in BOOLEAN
        /\ fl'.header_found \in BOOLEAN
    BY <1>7, <1>11, EmptySeq, Zenon
  <2> QED
    BY <1>1, <1>11, <2>1, <2>2 DEF TypeInv
<1>17. TuneInv'
  BY <1>1, <1>11, <1>12 DEF TuneInv
<1>18. PassInv'
  BY <1>11 DEF PassInv
<1>19. SlotInv'
  <2>1. PlaceOf(0) = 1 /\ 0 + 0 = 0
    BY <1>3 DEF PlaceOf
  <2> QED
    BY <1>1, <1>7, <1>9, <1>10, <1>11, <2>1 DEF SlotInv
<1>20. FrameInv'
  <2>1. Current' = air.f
    BY <1>3, <1>10, <1>11 DEF Current
  <2>2. fl'.stream = IF chosen' \in FrameOf(p).valid THEN chosen' ELSE -1
    BY <1>11, <1>12
  <2>3. IsPart(<< >>, air.c, air.f, chosen', 0)
    BY DEF IsPart, Owed, SlotsOf
  <2>4. Carriers[air'.c].frames[Current'] = FrameOf(p)
    BY <1>1, <1>8, <2>1, Zenon
  <2>5. IsPart(fl'.frame, air'.c, Current', chosen', fl'.slot)
    BY <1>1, <1>11, <2>1, <2>3, Zenon
  <2>6. fl'.frame = << >>
    BY <1>11
  <2> QED
    BY <1>13, <2>2, <2>4, <2>5, <2>6, Zenon DEF FrameInv
<1>21. CleanInv'
  BY <1>7, <1>11 DEF CleanInv
<1>22. RejectsOnlyMpeg'
  <2> SUFFICES ASSUME fl'.tlv_rejected
               PROVE  chosen \in 0..14 /\ ~RealTlv(air.c, chosen)
    BY <1>1, <1>15 DEF RejectsOnlyMpeg
  <2>1. CASE fl.tlv_rejected
    BY <1>1, <2>1 DEF RejectsOnlyMpeg
  <2>2. CASE fl.slot = SlotNum /\ Other(fl.frame)
    BY <1>1, <1>14, <2>2, CompleteFrame
  <2> QED
    BY <1>11, <2>1, <2>2
<1>23. OutputSound'
  <2>1. CASE fl.slot # SlotNum
    BY <1>11, <2>1 DEF OutputSound
  <2>2. CASE fl.slot = SlotNum
    <3>1. /\ out'.kind = "ts" /\ out'.data # << >> =>
                \E f \in DOMAIN Carriers[air.c].frames : IsFrame(out'.data, air.c, f, chosen)
          /\ out'.kind = "ts" /\ out'.data # << >> => chosen \in 0..14
          /\ out'.kind # "pass"
      BY <1>1, <1>11, <1>14, <2>2, FlushedFrame
    <3> QED
      BY <1>1, <1>15, <3>1 DEF OutputSound
  <2> QED
    BY <2>1, <2>2
<1> QED
  BY <1>16, <1>17, <1>18, <1>19, <1>20, <1>21, <1>22, <1>23 DEF IInv

(* What every packet but a header leaves as it is.                         *)
LEMMA OtherKeeps ==
    ASSUME IInv, NEW p, Came(p), Put(p), Advance, fl.skip_packets = 0, ~tsmf_is_header(p),
           NEW r, r = tsmf_filter_packet(fl, p), SameButGuess(fl, r.fl)
    PROVE  /\ fl' = r.fl /\ out' = r.out /\ chosen' = chosen
           /\ lost' = IF fl'.slot < 0 THEN 0 ELSE lost
           /\ clean' <=> (clean /\ p.dam = "no")
           /\ air'.c = air.c /\ air' = Following(air)
           /\ p \in Packets /\ p.c = air.c /\ p.f = air.f /\ p.s = air.s
           /\ TuneInv'
           /\ fl'.slot \in -1..SlotNum /\ fl'.frame \in Seq(Packets)
                /\ fl'.tlv_rejected \in BOOLEAN => TypeInv'
<1>1. /\ TypeInv /\ TuneInv /\ AirInv' /\ air'.c = air.c /\ stale' \in Seq(Packets)
      /\ Incoming = air /\ air' = Following(air) /\ Len(stale') = 0
  BY SameCarrier
<1>2. /\ fl' = r.fl /\ out' = r.out /\ chosen' = chosen
      /\ lost' = IF r.fl.slot < 0 THEN 0 ELSE lost
      /\ clean' <=> (clean /\ p.dam = "no")
      /\ clean' \in BOOLEAN
  BY PutOther
<1>3. p \in Packets /\ p.c = air.c /\ p.f = air.f /\ p.s = air.s
  BY <1>1 DEF Came
<1>4. /\ IsFilter(fl') /\ fl'.skip_packets = 0 /\ fl'.passthrough \in BOOLEAN
      /\ fl'.header_found = fl.header_found /\ fl'.relative = fl.relative
  BY <1>2 DEF SameButGuess
<1>5. TuneInv'
  BY <1>1, <1>2, <1>4 DEF TuneInv
<1>6. lost' \in 0..MaxLost
  BY <1>1, <1>2, SizesAssumption DEF TypeInv
<1>7. ASSUME fl'.slot \in -1..SlotNum, fl'.frame \in Seq(Packets), fl'.tlv_rejected \in BOOLEAN
      PROVE  TypeInv'
  BY <1>1, <1>2, <1>4, <1>6, <1>7 DEF TypeInv
<1> QED
  BY <1>1, <1>2, <1>3, <1>5, <1>7

(* A packet handed on as one of a carrier without TSMF.                    *)
LEMMA PassedStep ==
    ASSUME IInv, NEW p, Came(p), Put(p), Advance, fl.skip_packets = 0, ~tsmf_is_header(p),
           NEW r, r = tsmf_filter_packet(fl, p), Passed(fl, p, r)
    PROVE  IInv'
<1>1. TypeInv /\ PassInv /\ CleanInv /\ RejectsOnlyMpeg
  BY DEF IInv
<1>2. SameButGuess(fl, r.fl)
  BY DEF Passed
<1>3. /\ fl' = r.fl /\ out' = r.out /\ chosen' = chosen
      /\ lost' = IF fl'.slot < 0 THEN 0 ELSE lost
      /\ clean' <=> (clean /\ p.dam = "no")
      /\ air'.c = air.c /\ p \in Packets /\ p.c = air.c
      /\ TuneInv'
      /\ fl'.slot \in -1..SlotNum /\ fl'.frame \in Seq(Packets)
           /\ fl'.tlv_rejected \in BOOLEAN => TypeInv'
  BY <1>2, OtherKeeps
<1>4. /\ ~fl.header_found /\ fl.stream_index = 0 /\ fl.slot = -1
      /\ \A n \in DOMAIN fl.frame : fl.frame[n].c = air.c
  <2>1. fl.passthrough \/ (~fl.header_found /\ fl.stream_index = 0)
    BY <1>2 DEF Passed, SameButGuess
  <2>2. ~fl.header_found /\ fl.stream_index = 0
    BY <1>1, <2>1 DEF PassInv
  <2> QED
    BY <1>1, <2>2 DEF PassInv
<1>5. PICK k : k = Kept(fl, p)
  OBVIOUS
<1>6. k \in Seq(Packets) /\ \A n \in DOMAIN k : k[n].c = air.c
  <2>1. fl.frame \in Seq(Packets)
    BY <1>1 DEF TypeInv
  <2>2. CASE k = fl.frame
    BY <1>4, <2>1, <2>2
  <2>3. CASE k = Append(fl.frame, p)
    BY <1>3, <1>4, <2>1, <2>3
  <2> QED
    BY <1>5, <2>2, <2>3 DEF Kept
<1>7. /\ fl'.passthrough /\ fl'.slot = -1 /\ fl'.tlv_rejected = fl.tlv_rejected
      /\ fl'.header_found = fl.header_found /\ fl'.stream_index = 0
      /\ \/ out'.kind = "none" /\ fl'.frame = k
         \/ out'.kind = "pass" /\ out'.data = k /\ fl'.frame = << >>
  BY <1>3, <1>4, <1>5 DEF Passed, SameButGuess
<1>8. fl'.frame \in Seq(Packets) /\ \A n \in DOMAIN fl'.frame : fl'.frame[n].c = air.c
  <2>1. CASE fl'.frame = k
    BY <1>6, <2>1
  <2>2. CASE fl'.frame = << >>
    BY <2>2, EmptySeq
  <2> QED
    BY <1>7, <2>1, <2>2
<1>9. TypeInv'
  <2>1. fl'.slot \in -1..SlotNum /\ fl'.tlv_rejected \in BOOLEAN
    BY <1>1, <1>7, SizesAssumption DEF TypeInv
  <2> QED
    BY <1>3, <1>8, <2>1
<1>10. PassInv'
  BY <1>3, <1>4, <1>7, <1>8 DEF PassInv
<1>11. SlotInv' /\ FrameInv'
  BY <1>7 DEF SlotInv, FrameInv
<1>12. CleanInv'
  BY <1>1, <1>3, <1>4 DEF CleanInv
<1>13. RejectsOnlyMpeg'
  BY <1>1, <1>3, <1>7 DEF RejectsOnlyMpeg
<1>14. OutputSound'
  BY <1>3, <1>4, <1>6, <1>7 DEF OutputSound
<1> QED
  BY <1>3, <1>9, <1>10, <1>11, <1>12, <1>13, <1>14 DEF IInv

(* A packet that the filter has no place for.                              *)
LEMMA IgnoredStep ==
    ASSUME IInv, NEW p, Came(p), Put(p), Advance, fl.skip_packets = 0, ~tsmf_is_header(p),
           NEW r, r = tsmf_filter_packet(fl, p), Ignored(fl, p, r)
    PROVE  IInv'
<1>1. TypeInv /\ PassInv /\ CleanInv /\ RejectsOnlyMpeg
  BY DEF IInv
<1>2. SameButGuess(fl, r.fl)
  BY DEF Ignored
<1>3. /\ fl' = r.fl /\ out' = r.out /\ chosen' = chosen
      /\ clean' <=> (clean /\ p.dam = "no")
      /\ air'.c = air.c /\ TuneInv'
      /\ fl'.slot \in -1..SlotNum /\ fl'.frame \in Seq(Packets)
           /\ fl'.tlv_rejected \in BOOLEAN => TypeInv'
  BY <1>2, OtherKeeps
<1>4. /\ ~fl'.passthrough /\ fl'.slot = fl.slot /\ fl.slot < 0 /\ fl'.frame = fl.frame
      /\ fl'.tlv_rejected = fl.tlv_rejected /\ fl'.header_found = fl.header_found
      /\ out'.kind = "none" /\ ~fl.passthrough
  BY <1>3 DEF Ignored, SameButGuess
<1>5. fl.slot \in Int
  BY <1>1 DEF TypeInv
<1>6. TypeInv'
  BY <1>1, <1>3, <1>4 DEF TypeInv
<1>7. PassInv'
  BY <1>1, <1>4 DEF PassInv
<1>8. SlotInv' /\ FrameInv'
  BY <1>4, <1>5 DEF SlotInv, FrameInv
<1>9. CleanInv'
  BY <1>1, <1>3, <1>4, <1>5 DEF CleanInv
<1>10. RejectsOnlyMpeg' /\ OutputSound'
  BY <1>1, <1>3, <1>4 DEF RejectsOnlyMpeg, OutputSound
<1> QED
  BY <1>3, <1>6, <1>7, <1>8, <1>9, <1>10 DEF IInv

(* Something else than a header came after the last slot: the slots are    *)
(* only right when it was a header that got damaged.                       *)
LEMMA MissedStep ==
    ASSUME IInv, NEW p, Came(p), Put(p), Advance, fl.skip_packets = 0, ~tsmf_is_header(p),
           NEW r, r = tsmf_filter_packet(fl, p), Missed(fl, p, r)
    PROVE  IInv'
<1>1. TypeInv /\ PassInv /\ SlotInv /\ FrameInv /\ CleanInv /\ RejectsOnlyMpeg
  BY DEF IInv
<1>2. SameButGuess(fl, r.fl)
  BY DEF Missed
<1>3. /\ fl' = r.fl /\ out' = r.out /\ chosen' = chosen
      /\ clean' <=> (clean /\ p.dam = "no")
      /\ air'.c = air.c /\ TuneInv'
      /\ p \in Packets /\ p.c = air.c /\ p.f = air.f /\ p.s = air.s
      /\ fl'.slot \in -1..SlotNum /\ fl'.frame \in Seq(Packets)
           /\ fl'.tlv_rejected \in BOOLEAN => TypeInv'
  BY <1>2, OtherKeeps
<1>4. SlotNum \in Nat /\ SlotNum > 0 /\ fl.slot \in Int /\ lost \in Nat /\ fl.slot = SlotNum
  BY <1>1, SizesAssumption DEF TypeInv, Missed
<1>5. air.s = lost /\ fl.header_found
  BY <1>1, <1>4 DEF SlotInv, PlaceOf
<1>6. /\ ~fl'.passthrough /\ fl'.slot = -1 /\ fl'.frame = fl.frame
      /\ fl'.header_found = fl.header_found
      /\ fl'.tlv_rejected \in BOOLEAN
      /\ fl'.tlv_rejected => fl.tlv_rejected \/ (Pid(p) = "header" /\ Other(fl.frame))
      /\ IF Pid(p) = "header" THEN Flushed(fl, out') ELSE out'.kind = "none"
  BY <1>3 DEF Missed, SameButGuess
<1>7. Pid(p) = "header" => lost = 0
  <2>1. p.f \in DOMAIN Carriers[p.c].frames
    BY <1>1, <1>3 DEF TypeInv, AirInv
  <2> QED
    BY <1>3, <1>5, <2>1, PidFacts
<1>8. TypeInv'
  BY <1>1, <1>3, <1>4, <1>6 DEF TypeInv
<1>9. PassInv'
  BY <1>5, <1>6 DEF PassInv
<1>10. SlotInv' /\ FrameInv'
  BY <1>6 DEF SlotInv, FrameInv
<1>11. CleanInv'
  BY <1>1, <1>3, <1>5 DEF CleanInv, tsmf_is_header
<1>12. RejectsOnlyMpeg'
  <2> SUFFICES ASSUME fl'.tlv_rejected
               PROVE  chosen \in 0..14 /\ ~RealTlv(air.c, chosen)
    BY <1>3 DEF RejectsOnlyMpeg
  <2>1. CASE fl.tlv_rejected
    BY <1>1, <2>1 DEF RejectsOnlyMpeg
  <2>2. CASE Pid(p) = "header" /\ Other(fl.frame)
    BY <1>1, <1>4, <1>7, <2>2, CompleteFrame
  <2> QED
    BY <1>6, <2>1, <2>2
<1>13. OutputSound'
  <2>1. CASE Pid(p) # "header"
    BY <1>6, <2>1 DEF OutputSound
  <2>2. CASE Pid(p) = "header"
    <3>1. /\ out'.kind = "ts" /\ out'.data # << >> =>
                \E f \in DOMAIN Carriers[air.c].frames : IsFrame(out'.data, air.c, f, chosen)
          /\ out'.kind # "pass"
      BY <1>1, <1>4, <1>6, <1>7, <2>2, FlushedFrame
    <3> QED
      BY <1>3, <3>1 DEF OutputSound
  <2> QED
    BY <2>1, <2>2
<1> QED
  BY <1>3, <1>8, <1>9, <1>10, <1>11, <1>12, <1>13 DEF IInv

(* One slot more of a frame.                                               *)
LEMMA PartStep ==
    ASSUME NEW data \in Seq(Packets), NEW c, NEW g, NEW ts, NEW n \in Nat,
           IsPart(data, c, g, ts, n),
           NEW p \in Packets, p.c = c, p.f = g, p.s = n + 1
    PROVE  /\ n + 1 \in SlotsOf(c, g, ts) => IsPart(Append(data, p), c, g, ts, n + 1)
           /\ n + 1 \notin Owed(c, g, ts) => IsPart(data, c, g, ts, n + 1)
<1>1. Len(data) \in Nat /\ DOMAIN data = 1..Len(data)
  OBVIOUS
<1>2. SlotNum \in Nat
  BY SizesAssumption
<1>3. \A s \in Owed(c, g, ts) : s \in Nat
  BY <1>2 DEF Owed, SlotsOf
<1>4. \A i \in DOMAIN data : data[i].s \in Nat /\ data[i].s <= n
  BY <1>2 DEF IsPart, SlotsOf
<1>5. ASSUME n + 1 \notin Owed(c, g, ts)
      PROVE  IsPart(data, c, g, ts, n + 1)
  <2>1. \A i \in DOMAIN data : data[i].s <= n + 1
    BY <1>4
  <2>2. \A s \in Owed(c, g, ts) : s <= n + 1 => s <= n
    BY <1>3, <1>5
  <2> QED
    BY <2>1, <2>2 DEF IsPart
<1>6. ASSUME n + 1 \in SlotsOf(c, g, ts)
      PROVE  IsPart(Append(data, p), c, g, ts, n + 1)
  <2>1. PICK d : d = Append(data, p)
    OBVIOUS
  <2>2. /\ DOMAIN d = 1..(Len(data) + 1)
        /\ \A i \in 1..Len(data) : d[i] = data[i]
        /\ d[Len(data) + 1] = p
    BY <2>1
  <2>3. \A i \in DOMAIN d : i \in DOMAIN data \/ i = Len(data) + 1
    BY <1>1, <2>2
  <2>4. \A i \in DOMAIN d : /\ d[i].c = c /\ d[i].f = g
                            /\ d[i].s \in SlotsOf(c, g, ts) /\ d[i].s <= n + 1
    BY <1>1, <1>4, <1>6, <2>2, <2>3 DEF IsPart
  <2>5. ASSUME NEW i \in DOMAIN d, NEW j \in DOMAIN d, i < j
        PROVE  d[i].s < d[j].s
    <3>1. i \in DOMAIN data
      BY <1>1, <2>2, <2>5
    <3>2. CASE j \in DOMAIN data
      BY <1>1, <2>2, <2>5, <3>1, <3>2 DEF IsPart
    <3>3. CASE j = Len(data) + 1
      <4>1. d[i].s \in Nat /\ d[i].s <= n /\ d[j].s = n + 1
        BY <1>1, <1>4, <2>2, <3>1, <3>3
      <4> QED
        BY <4>1
    <3> QED
      BY <2>3, <3>2, <3>3
  <2>6. ASSUME NEW s \in Owed(c, g, ts), s <= n + 1
        PROVE  \E i \in DOMAIN d : d[i].s = s
    <3>1. CASE s = n + 1
      <4>1. Len(data) + 1 \in DOMAIN d
        BY <1>1, <2>2
      <4> QED
        BY <2>2, <3>1, <4>1
    <3>2. CASE s # n + 1
      <4>1. s <= n
        BY <1>3, <2>6, <3>2
      <4>2. PICK i \in DOMAIN data : data[i].s = s
        BY <4>1 DEF IsPart
      <4>3. i \in DOMAIN d /\ d[i] = data[i]
        BY <1>1, <2>2
      <4> QED
        BY <4>2, <4>3
    <3> QED
      BY <3>1, <3>2
  <2>7. IsPart(d, c, g, ts, n + 1)
    BY <2>4, <2>5, <2>6 DEF IsPart
  <2> QED
    BY <2>1, <2>7
<1> QED
  BY <1>5, <1>6

(* A packet in a slot: it is collected when the slot is one of the TS.     *)
LEMMA SlottedStep ==
    ASSUME IInv, NEW p, Came(p), Put(p), Advance, fl.skip_packets = 0, ~tsmf_is_header(p),
           NEW r, r = tsmf_filter_packet(fl, p), Slotted(fl, p, r)
    PROVE  IInv'
<1>1. TypeInv /\ PassInv /\ SlotInv /\ FrameInv /\ CleanInv /\ RejectsOnlyMpeg
  BY DEF IInv
<1>2. SameButGuess(fl, r.fl)
  BY DEF Slotted
<1>3. /\ fl' = r.fl /\ out' = r.out /\ chosen' = chosen
      /\ lost' = IF fl'.slot < 0 THEN 0 ELSE lost
      /\ clean' <=> (clean /\ p.dam = "no")
      /\ air'.c = air.c /\ air' = Following(air) /\ TuneInv'
      /\ p \in Packets /\ p.c = air.c /\ p.f = air.f /\ p.s = air.s
      /\ fl'.slot \in -1..SlotNum /\ fl'.frame \in Seq(Packets)
           /\ fl'.tlv_rejected \in BOOLEAN => TypeInv'
  BY <1>2, OtherKeeps
<1>4. /\ SlotNum \in Nat /\ SlotNum > 0 /\ fl.slot \in Nat /\ fl.slot < SlotNum
      /\ lost \in Nat /\ lost <= SlotNum
  BY <1>1, SizesAssumption DEF TypeInv, Slotted
<1>5. /\ ~fl'.passthrough /\ fl'.slot = fl.slot + 1
      /\ fl'.frame = IF Mine(fl) THEN Kept(fl, p) ELSE fl.frame
      /\ fl'.header_found = fl.header_found /\ fl'.skip_packets = fl.skip_packets
      /\ fl'.tlv_rejected = fl.tlv_rejected
      /\ fl'.stream = fl.stream /\ fl'.slot_stream = fl.slot_stream
      /\ out'.kind = "none"
  BY <1>3 DEF Slotted, SameButGuess
<1>6. lost' = lost
  BY <1>3, <1>4, <1>5
<1>7. fl.header_found /\ Carriers[air.c].header /\ air.s = PlaceOf(fl.slot + lost)
  BY <1>1, <1>4 DEF SlotInv
<1>8. fl.frame \in Seq(Packets) /\ Kept(fl, p) \in Seq(Packets)
  BY <1>1, <1>3 DEF TypeInv, Kept
<1>9. TypeInv'
  <2>1. fl'.slot \in -1..SlotNum
    BY <1>4, <1>5
  <2>2. fl'.frame \in Seq(Packets) /\ fl'.tlv_rejected \in BOOLEAN
    BY <1>1, <1>5, <1>8 DEF TypeInv
  <2> QED
    BY <1>3, <2>1, <2>2
<1>10. PassInv'
  BY <1>5, <1>7 DEF PassInv
<1>11. SlotInv'
  <2>1. PICK d \in Nat : d = fl.slot + lost
    BY <1>4
  <2>2. d < 2 * SlotNum /\ fl'.slot + lost' = d + 1
    BY <1>4, <1>5, <1>6, <2>1
  <2>3. air'.s = PlaceOf(d + 1)
    BY <1>1, <1>3, <1>7, <2>1, <2>2, PlaceStep
  <2> QED
    BY <1>3, <1>5, <1>7, <2>2, <2>3 DEF SlotInv
<1>12. FrameInv'
  <2> SUFFICES ASSUME lost = 0 PROVE FrameInv'
    BY <1>6 DEF FrameInv
  <2> DEFINE x == Carriers[air.c].frames[air.f]
  <2>1. air.s = fl.slot + 1
    BY <1>4, <1>7 DEF PlaceOf
  <2>2. Current = air.f
    BY <1>4 DEF Current
  <2>3. Current' = air.f
    <3>1. AirInv
      BY <1>1 DEF TypeInv
    <3>2. /\ air.s < SlotNum => air'.f = air.f
          /\ air.s = SlotNum => Before(air') = air.f
      BY <1>3, <3>1, FollowingPlace
    <3>3. Current' = IF fl.slot + 1 < SlotNum THEN air'.f ELSE Before(air')
      BY <1>5 DEF Current, Before
    <3> QED
      BY <1>4, <2>1, <3>2, <3>3
  <2>4. /\ fl.slot_stream = [s \in 1..SlotNum |-> x.owner[s]]
        /\ fl.stream = IF chosen \in x.valid THEN chosen ELSE -1
        /\ fl.stream < 0 => fl.frame = << >>
        /\ fl.stream >= 0 => IsPart(fl.frame, air.c, air.f, chosen, fl.slot)
    BY <1>1, <1>4, <2>2 DEF FrameInv
  <2>5. air.f \in DOMAIN Carriers[air.c].frames /\ x.valid \subseteq 0..14
    BY <1>1, CarriersAssumption DEF TypeInv, AirInv, Packets
  <2>6. fl.stream < 0 => fl'.frame = << >>
    <3>1. fl.stream \in Int
      BY <2>4, <2>5
    <3>2. fl.stream < 0 => ~Mine(fl)
      BY <3>1 DEF Mine
    <3>3. ~Mine(fl) => fl'.frame = fl.frame
      BY <1>5, Zenon
    <3> QED
      BY <2>4, <3>2, <3>3
  <2>7. ASSUME fl.stream >= 0
        PROVE  IsPart(fl'.frame, air.c, air.f, chosen, fl.slot + 1)
    <3>1. fl.stream = chosen /\ chosen \in Nat
      <4>1. chosen \in x.valid
        <5> SUFFICES ASSUME chosen \notin x.valid PROVE FALSE
          OBVIOUS
        <5>1. fl.stream = -1
          BY <2>4, Zenon
        <5> QED
          BY <2>7, <5>1
      <4>2. fl.stream = chosen
        BY <2>4, <4>1, Zenon
      <4>3. \A v \in 0..14 : v \in Nat
        OBVIOUS
      <4> QED
        BY <2>5, <4>1, <4>2, <4>3, Zenon
    <3>2. Mine(fl) <=> fl.slot + 1 \in SlotsOf(air.c, air.f, chosen)
      BY <1>4, <2>4, <2>7, <3>1 DEF Mine, SlotsOf
    <3>3. /\ fl.slot + 1 \in SlotsOf(air.c, air.f, chosen) =>
                IsPart(Append(fl.frame, p), air.c, air.f, chosen, fl.slot + 1)
          /\ fl.slot + 1 \notin Owed(air.c, air.f, chosen) =>
                IsPart(fl.frame, air.c, air.f, chosen, fl.slot + 1)
      BY <1>3, <1>4, <1>8, <2>1, <2>4, <2>7, PartStep
    <3>4. CASE ~Mine(fl)
      BY <1>5, <3>2, <3>3, <3>4 DEF Owed
    <3>5. CASE Mine(fl) /\ ~tsmf_is_null_packet(p)
      BY <1>5, <3>2, <3>3, <3>5 DEF Kept
    <3>6. CASE Mine(fl) /\ tsmf_is_null_packet(p)
      <4>1. Pid(p) = "null"
        BY <3>6 DEF tsmf_is_null_packet
      <4>2. p.dam # "pid"
        BY <4>1 DEF Pid
      <4>3. Pid(p) = x.load[fl.slot + 1]
        BY <1>3, <1>4, <2>1, <2>5, <4>2, PidFacts
      <4>4. fl.slot + 1 \notin Owed(air.c, air.f, chosen)
        BY <4>1, <4>3 DEF Owed
      <4> QED
        BY <1>5, <3>3, <3>6, <4>4 DEF Kept
    <3> QED
      BY <3>4, <3>5, <3>6
  <2>8. /\ fl'.slot_stream = [s \in 1..SlotNum |-> x.owner[s]]
        /\ fl'.stream = IF chosen' \in x.valid THEN chosen' ELSE -1
        /\ fl'.stream < 0 => fl'.frame = << >>
        /\ fl'.stream >= 0 => IsPart(fl'.frame, air'.c, air.f, chosen', fl'.slot)
    BY <1>3, <1>5, <2>4, <2>6, <2>7
  <2>9. Carriers[air'.c].frames[Current'] = x
    BY <1>3, <2>3
  <2> HIDE DEF x
  <2> QED
    BY <2>3, <2>8, <2>9 DEF FrameInv
<1>13. CleanInv'
  <2> SUFFICES ASSUME clean, p.dam = "no"
               PROVE  /\ fl'.slot >= 0 /\ lost' = 0
                      /\ \A n \in DOMAIN fl'.frame : fl'.frame[n].dam = "no"
    BY <1>3 DEF CleanInv
  <2>1. lost' = 0 /\ \A n \in DOMAIN fl.frame : fl.frame[n].dam = "no"
    BY <1>1, <1>6 DEF CleanInv
  <2>2. fl'.slot >= 0
    BY <1>4, <1>5
  <2>3. CASE fl'.frame = fl.frame
    BY <2>1, <2>2, <2>3
  <2>4. CASE fl'.frame = Append(fl.frame, p)
    BY <1>8, <2>1, <2>2, <2>4
  <2> QED
    BY <1>5, <2>3, <2>4 DEF Kept
<1>14. RejectsOnlyMpeg' /\ OutputSound'
  BY <1>1, <1>3, <1>5 DEF RejectsOnlyMpeg, OutputSound
<1> QED
  BY <1>3, <1>9, <1>10, <1>11, <1>12, <1>13, <1>14 DEF IInv

(* ptx_chrdev_put_stream_tsmf() of a packet, damaged or not.               *)
LEMMA PutStep ==
    ASSUME IInv, NEW p, Came(p), Put(p), Advance
    PROVE  IInv'
<1>1. /\ fl.skip_packets \in Nat /\ IsFilter(fl) /\ fl.tlv_rejected \in BOOLEAN
      /\ fl.passthrough \in BOOLEAN /\ fl.slot \in Int
  BY SizesAssumption DEF IInv, TypeInv
<1>2. CASE fl.skip_packets > 0
  BY <1>2, SkipStep
<1>3. CASE fl.skip_packets = 0 /\ tsmf_is_header(p)
  BY <1>3, HeaderStep
<1>4. CASE fl.skip_packets = 0 /\ ~tsmf_is_header(p)
  <2>1. PICK r : r = tsmf_filter_packet(fl, p)
    OBVIOUS
  <2>2. Passed(fl, p, r) \/ Ignored(fl, p, r) \/ Missed(fl, p, r) \/ Slotted(fl, p, r)
    BY <1>1, <1>4, <2>1, OtherFields
  <2> QED
    BY <1>4, <2>1, <2>2, PassedStep, IgnoredStep, MissedStep, SlottedStep
<1> QED
  BY <1>1, <1>2, <1>3, <1>4

(* What comes is a packet.                                                 *)
LEMMA IncomingPacket ==
    ASSUME IInv
    PROVE  Incoming \in Packets
<1>1. air \in Packets /\ stale \in Seq(Packets)
  BY DEF IInv, TypeInv, AirInv
<1> QED
  BY <1>1 DEF Incoming

(* A step that changes nothing.                                            *)
LEMMA StutterStep ==
    ASSUME IInv, UNCHANGED vars
    PROVE  IInv'
BY DEF vars, IInv, TypeInv, AirInv, TuneInv, PassInv, SlotInv, FrameInv, CleanInv, Current,
       RejectsOnlyMpeg, OutputSound, Before

-----------------------------------------------------------------------------
(* IInv is an invariant, for every carrier and whatever is lost, damaged   *)
(* or left over from before.                                               *)
THEOREM Invariance == Spec => []IInv
<1>1. ASSUME IInv, [Next]_vars PROVE IInv'
  <2>1. CASE Tune
    BY <1>1, <2>1, TuneStep
  <2>2. CASE Restart
    BY <1>1, <2>2, RestartStep
  <2>3. CASE Receive
    <3>1. Came(Incoming) /\ Put(Incoming) /\ Advance
      BY <1>1, <2>3, IncomingPacket DEF Receive, Came
    <3> QED
      BY <1>1, <3>1, PutStep
  <2>4. CASE ReceiveDamaged
    <3>1. PICK d \in {"yes", "pid"} : Put([Incoming EXCEPT !.dam = d])
      BY <2>4 DEF ReceiveDamaged
    <3>2. PICK p : p = [Incoming EXCEPT !.dam = d]
      OBVIOUS
    <3>3. Put(p) /\ Advance
      BY <2>4, <3>1, <3>2, Zenon DEF ReceiveDamaged
    <3>4. Came(p)
      BY <1>1, <3>2, IncomingPacket DEF Came, Packets, Damages
    <3> QED
      BY <1>1, <3>3, <3>4, PutStep
  <2>5. CASE Lose
    BY <1>1, <2>5, LoseStep
  <2>6. CASE UNCHANGED vars
    BY <1>1, <2>6, StutterStep
  <2> QED
    BY <1>1, <2>1, <2>2, <2>3, <2>4, <2>5, <2>6 DEF Next
<1> QED
  BY <1>1, InitIInv, PTL DEF Spec

(* What tsmf_filter_packet() puts out is a whole frame of the selected TS  *)
(* of the carrier received, and a carrier is only passed on unfiltered     *)
(* under TS0 and before any header.                                        *)
THEOREM OutputIsSound == Spec => []OutputSound
<1>1. IInv => OutputSound
  BY DEF IInv
<1> QED
  BY <1>1, Invariance, PTL

(* A frame between two headers that all came intact is put out when the    *)
(* second header is taken.                                                 *)
THEOREM WholeFramesAreOutput == Spec => WholeFrameOutput
<1> DEFINE Intact == /\ clean /\ clean'
                     /\ air.s = 0 /\ air' = Following(air)
                     /\ chosen \in Carriers[air.c].frames[Before(air)].valid
           Output == \/ out'.kind = "ts" /\ IsFrame(out'.data, air.c, Before(air), chosen)
                     \/ out'.kind = "tlv" /\ FrameTlv(air.c, Before(air), chosen)
<1>1. ASSUME IInv, Next, Intact PROVE Output
  <2>1. TypeInv /\ PassInv /\ SlotInv /\ FrameInv /\ CleanInv /\ AirInv
    BY <1>1 DEF IInv, TypeInv
  <2>2. /\ clean /\ clean' /\ air.s = 0 /\ air' = Following(air)
        /\ chosen \in Carriers[air.c].frames[Before(air)].valid
    BY <1>1
  <2>3. PICK g : g = Before(air)
    OBVIOUS
  <2>4. SlotNum \in Nat /\ SlotNum > 0 /\ fl.slot \in Int /\ fl.slot >= 0 /\ fl.slot <= SlotNum
        /\ lost = 0
    BY <2>1, <2>2, SizesAssumption DEF TypeInv, CleanInv
  <2>5. fl.slot = SlotNum /\ fl.skip_packets = 0
    BY <2>1, <2>2, <2>4 DEF SlotInv, PlaceOf
  <2>6. stale = << >>
    BY <1>1, <2>5 DEF IInv, TuneInv, TypeInv
  <2>7. Incoming = air
    BY <2>6 DEF Incoming
  <2>8. Put(air)
    <3>1. ~Tune /\ ~Restart /\ ~Lose
      BY <2>2 DEF Tune, Forget, Restart, Lose
    <3>2. ~ReceiveDamaged
      <4> SUFFICES ASSUME ReceiveDamaged PROVE FALSE
        OBVIOUS
      <4>1. PICK d \in {"yes", "pid"} : Put([Incoming EXCEPT !.dam = d])
        BY DEF ReceiveDamaged
      <4>2. PICK p : p = [Incoming EXCEPT !.dam = d]
        OBVIOUS
      <4>3. Put(p) /\ p.dam # "no"
        <5>1. Put(p)
          BY <4>1, <4>2, Zenon
        <5>2. p.dam = d
          BY <2>1, <2>7, <4>2 DEF AirInv, Packets
        <5> QED
          BY <5>1, <5>2
      <4>4. ~(fl.skip_packets = 0 /\ tsmf_is_header(p))
        BY <4>3 DEF tsmf_is_header
      <4>5. PICK r : r = tsmf_filter_packet(fl, p)
        OBVIOUS
      <4>6. clean' <=> (clean /\ p.dam = "no")
        BY <4>3, <4>4, <4>5, PutOther
      <4> QED
        BY <2>2, <4>3, <4>6
    <3>3. Receive
      BY <1>1, <3>1, <3>2 DEF Next
    <3> QED
      BY <2>7, <3>3 DEF Receive
  <2>9. tsmf_is_header(air)
    BY <2>1, <2>2 DEF AirInv, tsmf_is_header
  <2>10. PICK r : r = tsmf_filter_packet(fl, air)
    OBVIOUS
  <2>11. HeaderTaken(fl, air, r)
    <3>1. /\ IsFilter(fl) /\ fl.tlv_rejected \in BOOLEAN /\ fl.passthrough \in BOOLEAN
          /\ fl.passthrough => fl.slot # SlotNum
      BY <2>1, <2>4 DEF TypeInv, PassInv
    <3> QED
      BY <2>5, <2>9, <2>10, <3>1, HeaderFields
  <2>12. out' = r.out
    BY <2>8, <2>10, Zenon DEF Put
  <2>13. Flushed(fl, out')
    BY <2>5, <2>11, <2>12 DEF HeaderTaken
  <2>14. /\ g \in DOMAIN Carriers[air.c].frames
         /\ IsFrame(fl.frame, air.c, g, chosen)
    BY <2>1, <2>2, <2>3, <2>4, <2>5, CompleteFrame
  <2>15. ASSUME ~Other(fl.frame) PROVE FrameTlv(air.c, g, chosen)
    <3> SUFFICES ASSUME NEW s \in Owed(air.c, g, chosen)
                 PROVE  Carriers[air.c].frames[g].load[s] \in TlvPids
      BY DEF FrameTlv
    <3>1. PICK n \in DOMAIN fl.frame : fl.frame[n].s = s
      BY <2>14 DEF IsFrame
    <3>2. PICK q : q = fl.frame[n]
      OBVIOUS
    <3>3. q \in Packets /\ q.c = air.c /\ q.f = g /\ q.s = s /\ q.dam = "no"
      BY <2>1, <2>2, <2>14, <3>1, <3>2 DEF TypeInv, CleanInv, IsFrame
    <3>4. s # 0 /\ Carriers[air.c].frames[g].load[s] # "null"
      BY DEF Owed, SlotsOf
    <3>5. Pid(q) = Carriers[air.c].frames[g].load[s]
      BY <2>14, <3>3, <3>4, PidFacts
    <3>6. Pid(q) \in TlvPids \cup {"null"}
      BY <2>15, <3>2, <3>3 DEF Other
    <3> QED
      BY <3>4, <3>5, <3>6
  <2> QED
    BY <2>3, <2>13, <2>14, <2>15 DEF Flushed
<1>2. IInv /\ [Next]_vars => [Intact => Output]_vars
  BY <1>1
<1> QED
  BY <1>2, Invariance, PTL DEF Spec, WholeFrameOutput
-----------------------------------------------------------------------------
(* Divided TLV                                                             *)

(* The fragments that a carrier sends of a TS, and the order of places.    *)
Fragments(c, ts) == {p \in Places(c) : p.s \in SlotsOf(c, p.f, ts) /\ Pid(p) \in TlvPids}
Earlier(p, q) == p.f < q.f \/ (p.f = q.f /\ p.s < q.s)

(* The fragments of a TLV packet as far as they came.                      *)
Chain(t, c, ts) ==
    /\ t \in Seq(Packets) /\ t # << >>
    /\ \A n \in DOMAIN t : /\ t[n] \in Fragments(c, ts)
                           /\ Pid(t[n]) = IF n = 1 THEN "start" ELSE "cont"
    /\ \A n \in 1..(Len(t) - 1) : t[n + 1] = NextFragment(t[n], ts)

(* From q until slot s of frame g has passed, no fragment is sent.         *)
UpToSlot(p, g, s) == p.f < g \/ (p.f = g /\ p.s <= s)
NoneUntil(q, g, s, c, ts) ==
    \A o \in Fragments(c, ts) :
        IF UpToSlot(q, g, s) THEN ~(Earlier(q, o) /\ UpToSlot(o, g, s))
        ELSE ~Earlier(q, o) /\ ~UpToSlot(o, g, s)

(* What tlv_buf holds when a frame begins.                                 *)
TlvInv ==
    fl.tlv_buf # << >> =>
        /\ fl.slot >= 0 /\ fl.output_tlv /\ fl.stream >= 0
        /\ lost = 0 => /\ Chain(fl.tlv_buf, air.c, chosen)
                       /\ NoneUntil(fl.tlv_buf[Len(fl.tlv_buf)], Current, 0, air.c, chosen)

(* Steps from 0 on reach every number up to n.                             *)
LEMMA UpTo ==
    ASSUME NEW n \in Nat, NEW S, 0 \in S, \A m \in 0..(n - 1) : m \in S => m + 1 \in S
    PROVE  0..n \subseteq S
<1> DEFINE T == {m \in 0..n : m \notin S}
           R == OpToRel(<, Nat)
<1> SUFFICES ASSUME T # {} PROVE FALSE
  OBVIOUS
<1>1. IsWellFoundedOn(R, Nat)
  BY NatLessThanWellFounded, Zenon
<1>2. \A a, b \in Nat : <<a, b>> \in R <=> a < b
  BY DEF OpToRel
<1>3. T \subseteq Nat
  OBVIOUS
<1> HIDE DEF R, T
<1>4. PICK x \in T : \A y \in T : ~(<<y, x>> \in R)
  BY <1>1, <1>3, WFMin
<1>5. x \in 0..n /\ x \notin S /\ x # 0
  BY DEF T
<1>6. PICK y \in Nat : y \in 0..(n - 1) /\ y \in 0..n /\ y + 1 = x /\ y < x /\ x \in Nat
  <2>1. x - 1 \in Nat /\ x - 1 \in 0..(n - 1) /\ x - 1 \in 0..n /\ (x - 1) + 1 = x /\ x - 1 < x
    BY <1>5
  <2> QED
    BY <1>5, <2>1
<1>7. <<y, x>> \in R
  BY <1>2, <1>6
<1>8. y \notin T
  BY <1>4, <1>7
<1> QED
  BY <1>5, <1>6, <1>8 DEF T

(* Extracted() is what it is defined to be.                                *)
LEMMA ExtractedSteps ==
    ASSUME NEW buf, NEW frame \in Seq(Packets)
    PROVE  LET acc == Extracted(buf, frame)
           IN  /\ acc[0] = [buf |-> buf, done |-> << >>]
               /\ \A n \in 0..(Len(frame) - 1) :
                     acc[n + 1] = tsmf_extract_tlv(acc[n], frame[n + 1])
<1> DEFINE a == [buf |-> buf, done |-> << >>]
           Step(h, m) == [n \in 0..m |-> IF n = 0 THEN a ELSE tsmf_extract_tlv(h[n - 1], frame[n])]
           S == {m \in 0..Len(frame) : \E h : h = Step(h, m)}
<1>1. Len(frame) \in Nat
  OBVIOUS
<1>2. 0 \in S
  <2>1. [n \in 0..0 |-> a] = Step([n \in 0..0 |-> a], 0)
    OBVIOUS
  <2>2. \E h : h = Step(h, 0)
    BY <2>1, Zenon
  <2> HIDE DEF Step
  <2> QED
    BY <1>1, <2>2
<1>3. ASSUME NEW m \in 0..(Len(frame) - 1), m \in S PROVE m + 1 \in S
  <2>1. PICK h : h = Step(h, m)
    BY <1>3
  <2>2. PICK e : e = tsmf_extract_tlv(h[m], frame[m + 1])
    OBVIOUS
  <2> DEFINE k == [n \in 0..(m + 1) |-> IF n = m + 1 THEN e ELSE h[n]]
  <2>3. ASSUME NEW n \in 0..(m + 1)
        PROVE  k[n] = IF n = 0 THEN a ELSE tsmf_extract_tlv(k[n - 1], frame[n])
    <3>1. CASE n = 0
      <4>1. h[0] = a
        BY <1>1, <2>1
      <4> QED
        BY <1>1, <3>1, <4>1
    <3>2. CASE n = m + 1
      <4>1. k[n] = e /\ k[n - 1] = h[m]
        BY <1>1, <3>2
      <4> HIDE DEF k
      <4> QED
        BY <1>1, <2>2, <3>2, <4>1
    <3>3. CASE n # 0 /\ n # m + 1
      <4>1. n \in 0..m /\ k[n] = h[n] /\ k[n - 1] = h[n - 1]
        BY <1>1, <3>3
      <4>2. h[n] = tsmf_extract_tlv(h[n - 1], frame[n])
        BY <2>1, <3>3, <4>1, Zenon
      <4> HIDE DEF k
      <4> QED
        BY <3>3, <4>1, <4>2
    <3> QED
      BY <3>1, <3>2, <3>3
  <2>4. k = Step(k, m + 1)
    BY <2>3, Zenon
  <2>5. m + 1 \in 0..Len(frame)
    BY <1>1
  <2> HIDE DEF k, Step
  <2> QED
    BY <2>4, <2>5
<1>4. Len(frame) \in S
  <2>1. \A m \in 0..(Len(frame) - 1) : m \in S => m + 1 \in S
    BY <1>3, Zenon
  <2> HIDE DEF S
  <2>2. 0..Len(frame) \subseteq S
    BY <1>1, <1>2, <2>1, UpTo
  <2> QED
    BY <1>1, <2>2
<1>5. PICK acc : acc = Extracted(buf, frame)
  OBVIOUS
<1>6. acc = Step(acc, Len(frame))
  BY <1>4, <1>5, Zenon DEF Extracted
<1>7. acc[0] = a
  BY <1>1, <1>6
<1>8. ASSUME NEW n \in 0..(Len(frame) - 1) PROVE acc[n + 1] = tsmf_extract_tlv(acc[n], frame[n + 1])
  <2>1. n + 1 \in 0..Len(frame) /\ n + 1 # 0 /\ (n + 1) - 1 = n
    BY <1>1
  <2>2. acc[n + 1] = tsmf_extract_tlv(acc[(n + 1) - 1], frame[n + 1])
    BY <1>6, <2>1, Zenon
  <2> QED
    BY <2>1, <2>2
<1> QED
  BY <1>5, <1>7, <1>8

(* A fragment, by its place.                                               *)
LEMMA FragmentFacts ==
    ASSUME NEW c \in DOMAIN Carriers, NEW ts, NEW p
    PROVE  /\ p \in Fragments(c, ts) =>
                 /\ p = [c |-> c, f |-> p.f, s |-> p.s, dam |-> "no"]
                 /\ p \in Packets /\ p.c = c /\ p.dam = "no"
                 /\ p.f \in DOMAIN Carriers[c].frames /\ p.f \in Nat /\ p.s \in 1..SlotNum
                 /\ p.s \in Owed(c, p.f, ts) /\ Pid(p) \in TlvPids
           /\ /\ p \in Packets /\ p.c = c /\ p.dam = "no" /\ p.f \in DOMAIN Carriers[c].frames
              /\ p.s \in SlotsOf(c, p.f, ts) /\ Pid(p) \in TlvPids
              => p \in Fragments(c, ts)
<1>1. /\ DOMAIN Carriers[c].frames \subseteq Nat /\ SlotNum \in Nat
      /\ Carriers[c].header \in BOOLEAN
  BY CarriersAssumption, SizesAssumption
<1>2. ASSUME p \in Fragments(c, ts)
      PROVE  /\ p = [c |-> c, f |-> p.f, s |-> p.s, dam |-> "no"]
             /\ p \in Packets /\ p.c = c /\ p.dam = "no"
             /\ p.f \in DOMAIN Carriers[c].frames /\ p.f \in Nat /\ p.s \in 1..SlotNum
             /\ p.s \in Owed(c, p.f, ts) /\ Pid(p) \in TlvPids
  <2>1. p \in Places(c) /\ p.s \in SlotsOf(c, p.f, ts) /\ Pid(p) \in TlvPids
    BY <1>2 DEF Fragments
  <2>2. /\ p = [c |-> c, f |-> p.f, s |-> p.s, dam |-> "no"]
        /\ p \in Packets /\ p.c = c /\ p.dam = "no"
        /\ p.f \in DOMAIN Carriers[c].frames /\ p.f \in Nat
    BY <1>1, <2>1 DEF Places, Packets, Damages
  <2>3. p.s \in 1..SlotNum
    BY <2>1 DEF SlotsOf
  <2>4. Pid(p) = Carriers[c].frames[p.f].load[p.s]
    BY <1>1, <2>2, <2>3, PidFacts
  <2> QED
    BY <2>1, <2>2, <2>3, <2>4 DEF Owed, TlvPids
<1>3. ASSUME p \in Packets, p.c = c, p.dam = "no", p.f \in DOMAIN Carriers[c].frames,
             p.s \in SlotsOf(c, p.f, ts), Pid(p) \in TlvPids
      PROVE  p \in Fragments(c, ts)
  <2>1. p.s \in 1..SlotNum /\ p = [c |-> c, f |-> p.f, s |-> p.s, dam |-> "no"]
    BY <1>3 DEF SlotsOf, Packets
  <2>2. p.s \in (IF Carriers[c].header THEN 0 ELSE 1)..SlotNum
    BY <1>1, <2>1
  <2>3. p \in Places(c)
    BY <1>3, <2>1, <2>2 DEF Places
  <2> QED
    BY <1>3, <2>3 DEF Fragments
<1> QED
  BY <1>2, <1>3

(* Rank() orders places as they are sent.                                  *)
LEMMA RankOrder ==
    ASSUME NEW p \in Packets, NEW q \in Packets
    PROVE  /\ Rank(p) \in Nat /\ Rank(q) \in Nat
           /\ Rank(p) < Rank(q) <=> Earlier(p, q)
<1>1. /\ p.f \in Nat /\ q.f \in Nat /\ p.s \in 0..SlotNum /\ q.s \in 0..SlotNum /\ SlotNum \in Nat
  BY SizesAssumption DEF Packets
<1>2. ASSUME NEW a \in Nat, NEW b \in Nat
      PROVE  /\ a * (SlotNum + 1) \in Nat /\ b * (SlotNum + 1) \in Nat
             /\ a < b => a * (SlotNum + 1) + (SlotNum + 1) <= b * (SlotNum + 1)
  <2>1. a * (SlotNum + 1) \in Nat /\ b * (SlotNum + 1) \in Nat
    BY <1>1
  <2>2. ASSUME a < b PROVE a * (SlotNum + 1) + (SlotNum + 1) <= b * (SlotNum + 1)
    <3>1. PICK d \in Nat : b = a + 1 + d
      BY <2>2, b - a - 1 \in Nat
    <3>2. b * (SlotNum + 1) = a * (SlotNum + 1) + (SlotNum + 1) + d * (SlotNum + 1)
      BY <1>1, <3>1
    <3>3. d * (SlotNum + 1) \in Nat
      BY <1>1
    <3> QED
      BY <1>1, <2>1, <3>2, <3>3
  <2> QED
    BY <2>1, <2>2
<1>3. PICK x \in Nat, y \in Nat : x = p.f * (SlotNum + 1) /\ y = q.f * (SlotNum + 1)
  BY <1>1, <1>2
<1>4. /\ p.f < q.f => x + (SlotNum + 1) <= y
      /\ q.f < p.f => y + (SlotNum + 1) <= x
      /\ p.f = q.f => x = y
  BY <1>1, <1>2, <1>3
<1>5. Rank(p) = x + p.s /\ Rank(q) = y + q.s
  BY <1>3 DEF Rank
<1> QED
  BY <1>1, <1>4, <1>5 DEF Earlier

(* What comes after a fragment: the next later one, or else the first.     *)
LEMMA NextIs ==
    ASSUME NEW c \in DOMAIN Carriers, NEW ts,
           NEW q \in Fragments(c, ts), NEW p \in Fragments(c, ts),
           \/ /\ Earlier(q, p)
              /\ \A o \in Fragments(c, ts) : Earlier(q, o) => ~Earlier(o, p)
           \/ \A o \in Fragments(c, ts) : ~Earlier(q, o) /\ ~Earlier(o, p)
    PROVE  NextFragment(q, ts) = p
<1> DEFINE all == Fragments(c, ts)
           later == {o \in all : Rank(o) > Rank(q)}
           from == IF later = {} THEN all ELSE later
           Low(o) == \A v \in from : Rank(o) <= Rank(v)
<1>1. q.c = c
  BY FragmentFacts
<1>2. NextFragment(q, ts) = CHOOSE o \in from : Low(o)
  BY <1>1, Zenon DEF NextFragment, Fragments
<1>3. \A o \in all : o \in Packets /\ o = [c |-> c, f |-> o.f, s |-> o.s, dam |-> "no"]
  BY FragmentFacts
<1>4. \A o, v \in all : /\ Rank(o) \in Nat
                        /\ Rank(o) < Rank(v) <=> Earlier(o, v)
  BY <1>3, RankOrder
<1>5. p \in from /\ \A v \in from : ~Earlier(v, p)
  <2>1. \A o \in all : o \in later <=> Earlier(q, o)
    BY <1>4
  <2> QED
    BY <2>1
<1>6. Low(p)
  BY <1>4, <1>5
<1>7. ASSUME NEW o \in from, Low(o) PROVE o = p
  <2>1. o \in all /\ p \in all /\ Rank(o) <= Rank(p) /\ Rank(p) <= Rank(o)
    BY <1>5, <1>6, <1>7
  <2>2. ~Earlier(o, p) /\ ~Earlier(p, o)
    BY <1>4, <2>1
  <2>3. o.f = p.f /\ o.s = p.s
    <3>1. o.f \in Nat /\ p.f \in Nat /\ o.s \in 1..SlotNum /\ p.s \in 1..SlotNum /\ SlotNum \in Nat
      BY <2>1, FragmentFacts, SizesAssumption
    <3> QED
      BY <2>2, <3>1 DEF Earlier
  <2> QED
    BY <1>3, <2>1, <2>3
<1> HIDE DEF all, later, from, Low
<1> QED
  BY <1>2, <1>5, <1>6, <1>7

(* How NoneUntil passes over slots without a fragment, what the next one   *)
(* is, that nothing is missing behind the last one, and the next frame.    *)
LEMMA NoneUntilSteps ==
    ASSUME NEW c \in DOMAIN Carriers, NEW ts, NEW q \in Fragments(c, ts),
           NEW g \in DOMAIN Carriers[c].frames, NEW s \in 0..SlotNum
    PROVE  /\ \A t \in 0..SlotNum :
                 /\ NoneUntil(q, g, s, c, ts) /\ s <= t
                 /\ \A o \in Fragments(c, ts) : ~(o.f = g /\ s < o.s /\ o.s <= t)
                 => NoneUntil(q, g, t, c, ts)
           /\ \A p \in Fragments(c, ts) :
                 /\ NoneUntil(q, g, s, c, ts) /\ p.f = g /\ s < p.s
                 /\ \A o \in Fragments(c, ts) : ~(o.f = g /\ s < o.s /\ o.s < p.s)
                 => NextFragment(q, ts) = p
           /\ NoneUntil(q, q.f, q.s, c, ts)
           /\ \A h \in DOMAIN Carriers[c].frames :
                 /\ NoneUntil(q, g, SlotNum, c, ts)
                 /\ g = IF h = 1 THEN Len(Carriers[c].frames) ELSE h - 1
                 => NoneUntil(q, h, 0, c, ts)
<1>1. /\ SlotNum \in Nat /\ g \in Nat /\ q.f \in Nat /\ q.s \in 1..SlotNum
      /\ DOMAIN Carriers[c].frames = 1..Len(Carriers[c].frames)
      /\ Len(Carriers[c].frames) \in Nat
  BY SizesAssumption, CarriersAssumption, FragmentFacts
<1>2. \A o \in Fragments(c, ts) :
         o.f \in Nat /\ o.s \in 1..SlotNum /\ o.f \in DOMAIN Carriers[c].frames
  BY FragmentFacts
<1>3. ASSUME NEW t \in 0..SlotNum, NoneUntil(q, g, s, c, ts), s <= t,
             \A o \in Fragments(c, ts) : ~(o.f = g /\ s < o.s /\ o.s <= t)
      PROVE  NoneUntil(q, g, t, c, ts)
  <2>1. \A o \in Fragments(c, ts) : UpToSlot(o, g, t) <=> UpToSlot(o, g, s)
    BY <1>1, <1>2, <1>3 DEF UpToSlot
  <2> QED
    BY <1>3, <2>1, Zenon DEF NoneUntil
<1>4. ASSUME NEW p \in Fragments(c, ts), NoneUntil(q, g, s, c, ts), p.f = g, s < p.s,
             \A o \in Fragments(c, ts) : ~(o.f = g /\ s < o.s /\ o.s < p.s)
      PROVE  NextFragment(q, ts) = p
  <2>1. \A o \in Fragments(c, ts) : Earlier(o, p) => UpToSlot(o, g, s)
    BY <1>1, <1>2, <1>4 DEF Earlier, UpToSlot
  <2>2. CASE UpToSlot(q, g, s)
    <3>1. Earlier(q, p)
      BY <1>1, <1>2, <1>4, <2>2 DEF Earlier, UpToSlot
    <3>2. \A o \in Fragments(c, ts) : Earlier(q, o) => ~Earlier(o, p)
      BY <1>4, <2>1, <2>2 DEF NoneUntil
    <3> QED
      BY <3>1, <3>2, NextIs
  <2>3. CASE ~UpToSlot(q, g, s)
    <3>1. \A o \in Fragments(c, ts) : ~Earlier(q, o) /\ ~Earlier(o, p)
      BY <1>4, <2>1, <2>3 DEF NoneUntil
    <3> QED
      BY <3>1, NextIs
  <2> QED
    BY <2>2, <2>3
<1>5. NoneUntil(q, q.f, q.s, c, ts)
  BY <1>1, <1>2 DEF NoneUntil, UpToSlot, Earlier
<1>6. ASSUME NEW h \in DOMAIN Carriers[c].frames, NoneUntil(q, g, SlotNum, c, ts),
             g = IF h = 1 THEN Len(Carriers[c].frames) ELSE h - 1
      PROVE  NoneUntil(q, h, 0, c, ts)
  <2>1. CASE h = 1
    <3>1. \A o \in Fragments(c, ts) : UpToSlot(o, g, SlotNum) /\ ~UpToSlot(o, h, 0)
      BY <1>1, <1>2, <1>6, <2>1 DEF UpToSlot
    <3> QED
      BY <1>6, <3>1, Zenon DEF NoneUntil
  <2>2. CASE h # 1
    <3>1. \A o \in Fragments(c, ts) : UpToSlot(o, g, SlotNum) <=> UpToSlot(o, h, 0)
      BY <1>1, <1>2, <1>6, <2>2 DEF UpToSlot
    <3> QED
      BY <1>6, <3>1, Zenon DEF NoneUntil
  <2> QED
    BY <2>1, <2>2
<1> QED
  BY <1>3, <1>4, <1>5, <1>6

(* A TLV packet with all of its fragments, the start of the next included. *)
Whole(t, ts) ==
    /\ Len(t) > 1
    /\ \A n \in DOMAIN t : Pid(t[n]) = IF n \in {1, Len(t)} THEN "start" ELSE "cont"
    /\ \A n \in 1..(Len(t) - 1) : t[n + 1] = NextFragment(t[n], ts)

(* One fragment more.                                                      *)
LEMMA ChainAppend ==
    ASSUME NEW c \in DOMAIN Carriers, NEW ts, NEW t, Chain(t, c, ts),
           NEW p \in Fragments(c, ts), NextFragment(t[Len(t)], ts) = p
    PROVE  /\ Append(t, p) \in Seq(Packets) /\ Append(t, p) # << >>
           /\ Append(t, p)[Len(Append(t, p))] = p
           /\ Pid(p) = "cont" => Chain(Append(t, p), c, ts)
           /\ Pid(p) = "start" => Whole(Append(t, p), ts)
<1> DEFINE u == Append(t, p)
<1>1. t \in Seq(Packets) /\ Len(t) \in Nat /\ Len(t) > 0 /\ p \in Packets
  BY FragmentFacts DEF Chain
<1>2. /\ u \in Seq(Packets) /\ Len(u) = Len(t) + 1 /\ DOMAIN u = 1..(Len(t) + 1)
      /\ DOMAIN t = 1..Len(t)
      /\ u[Len(t) + 1] = p /\ \A n \in 1..Len(t) : u[n] = t[n]
  BY <1>1
<1> HIDE DEF u
<1>3. \A n \in 1..(Len(u) - 1) : u[n + 1] = NextFragment(u[n], ts)
  <2> SUFFICES ASSUME NEW n \in 1..(Len(u) - 1) PROVE u[n + 1] = NextFragment(u[n], ts)
    OBVIOUS
  <2>1. CASE n = Len(t)
    BY <1>1, <1>2, <2>1
  <2>2. CASE n # Len(t)
    <3>1. n \in 1..(Len(t) - 1) /\ u[n] = t[n] /\ u[n + 1] = t[n + 1]
      BY <1>1, <1>2, <2>2
    <3> QED
      BY <3>1 DEF Chain
  <2> QED
    BY <2>1, <2>2
<1>4. \A n \in 1..Len(t) : /\ u[n] \in Fragments(c, ts)
                           /\ Pid(u[n]) = IF n = 1 THEN "start" ELSE "cont"
  BY <1>2 DEF Chain
<1>5. ASSUME Pid(p) = "cont" PROVE Chain(u, c, ts)
  <2>1. \A n \in DOMAIN u : /\ u[n] \in Fragments(c, ts)
                            /\ Pid(u[n]) = IF n = 1 THEN "start" ELSE "cont"
    <3> SUFFICES ASSUME NEW n \in DOMAIN u
                 PROVE  /\ u[n] \in Fragments(c, ts)
                        /\ Pid(u[n]) = IF n = 1 THEN "start" ELSE "cont"
      OBVIOUS
    <3>1. n \in 1..Len(t) \/ n = Len(t) + 1
      BY <1>1, <1>2
    <3> QED
      BY <1>1, <1>2, <1>4, <1>5, <3>1
  <2> QED
    BY <1>1, <1>2, <1>3, <2>1 DEF Chain
<1>6. ASSUME Pid(p) = "start" PROVE Whole(u, ts)
  <2>1. \A n \in DOMAIN u : Pid(u[n]) = IF n \in {1, Len(u)} THEN "start" ELSE "cont"
    <3> SUFFICES ASSUME NEW n \in DOMAIN u
                 PROVE  Pid(u[n]) = IF n \in {1, Len(u)} THEN "start" ELSE "cont"
      OBVIOUS
    <3>1. n \in 1..Len(t) \/ n = Len(t) + 1
      BY <1>1, <1>2
    <3> QED
      BY <1>1, <1>2, <1>4, <1>6, <3>1
  <2> QED
    BY <1>1, <1>2, <1>3, <2>1 DEF Whole
<1> QED
  BY <1>1, <1>2, <1>5, <1>6 DEF u

(* What tsmf_flush_frame() has extracted when slot s of frame g is done.   *)
Extraction(a, g, s, c, ts) ==
    /\ a = [buf |-> a.buf, done |-> a.done]
    /\ a.done \in Seq(Seq(Packets)) /\ \A k \in DOMAIN a.done : Whole(a.done[k], ts)
    /\ a.buf \in Seq(Packets)
    /\ a.buf # << >> => /\ Chain(a.buf, c, ts)
                        /\ NoneUntil(a.buf[Len(a.buf)], g, s, c, ts)

(* tsmf_extract_tlv() of the next packet collected.                        *)
LEMMA ExtractStep ==
    ASSUME NEW c \in DOMAIN Carriers, NEW ts, NEW g \in DOMAIN Carriers[c].frames,
           NEW s \in 0..SlotNum, NEW a, Extraction(a, g, s, c, ts),
           NEW p \in Packets, p.c = c, p.f = g, p.s \in SlotsOf(c, g, ts), s < p.s,
           p.dam = "no" => Pid(p) \in TlvPids \cup {"null"},
           \A o \in Fragments(c, ts) : ~(o.f = g /\ s < o.s /\ o.s < p.s)
    PROVE  Extraction(tsmf_extract_tlv(a, p), g, p.s, c, ts)
<1>1. PICK e : e = tsmf_extract_tlv(a, p)
  OBVIOUS
<1>2. /\ a = [buf |-> a.buf, done |-> a.done] /\ a.buf \in Seq(Packets)
      /\ a.done \in Seq(Seq(Packets)) /\ \A k \in DOMAIN a.done : Whole(a.done[k], ts)
      /\ << >> \in Seq(Packets)
  BY EmptySeq DEF Extraction
<1>3. SlotNum \in Nat /\ p.s \in 1..SlotNum /\ p.s \in 0..SlotNum
  BY SizesAssumption DEF SlotsOf
<1>4. ASSUME e = [buf |-> << >>, done |-> a.done] PROVE Extraction(e, g, p.s, c, ts)
  BY <1>2, <1>4 DEF Extraction
<1>5. PICK buf : buf = tsmf_append_tlv(a.buf, p)
  OBVIOUS
<1>6. buf = << >> \/ buf = Append(a.buf, p)
  BY <1>5 DEF tsmf_append_tlv
<1>7. CASE p.dam # "no" \/ Pid(p) = "startbad"
  <2>1. e = [a EXCEPT !.buf = << >>]
    BY <1>1, <1>7 DEF tsmf_extract_tlv
  <2> QED
    BY <1>1, <1>2, <1>4, <2>1
<1>8. ASSUME p.dam = "no", Pid(p) \in TlvPids
      PROVE  /\ p \in Fragments(c, ts) /\ NoneUntil(p, g, p.s, c, ts)
             /\ a.buf # << >> => NextFragment(a.buf[Len(a.buf)], ts) = p
  <2>1. p \in Fragments(c, ts)
    BY <1>8, FragmentFacts
  <2>2. NoneUntil(p, g, p.s, c, ts)
    BY <2>1, NoneUntilSteps
  <2>3. ASSUME a.buf # << >> PROVE NextFragment(a.buf[Len(a.buf)], ts) = p
    <3>1. /\ a.buf[Len(a.buf)] \in Fragments(c, ts)
          /\ NoneUntil(a.buf[Len(a.buf)], g, s, c, ts)
      BY <1>2, <2>3 DEF Extraction, Chain
    <3> QED
      BY <2>1, <3>1, NoneUntilSteps
  <2> QED
    BY <2>1, <2>2, <2>3
<1>9. CASE p.dam = "no" /\ Pid(p) = "cont"
  <2>1. e = IF a.buf = << >> THEN a ELSE [a EXCEPT !.buf = buf]
    BY <1>1, <1>5, <1>9 DEF tsmf_extract_tlv
  <2>2. CASE a.buf = << >>
    BY <1>1, <1>2, <1>4, <2>1, <2>2
  <2>3. CASE a.buf # << >>
    <3>1. e = [buf |-> buf, done |-> a.done]
      BY <1>2, <2>1, <2>3
    <3>2. CASE buf = << >>
      BY <1>1, <1>4, <3>1, <3>2
    <3>3. CASE buf = Append(a.buf, p)
      <4>1. /\ buf \in Seq(Packets) /\ buf[Len(buf)] = p /\ Chain(buf, c, ts)
            /\ NoneUntil(p, g, p.s, c, ts)
        BY <1>8, <1>9, <2>3, <3>3, ChainAppend DEF Extraction, TlvPids
      <4>2. e.buf = buf /\ e.done = a.done
        BY <3>1
      <4> QED
        BY <1>1, <1>2, <3>1, <4>1, <4>2 DEF Extraction
    <3> QED
      BY <1>6, <3>2, <3>3
  <2> QED
    BY <2>2, <2>3
<1>10. CASE p.dam = "no" /\ Pid(p) = "start"
  <2>1. e = [buf |-> <<p>>, done |-> IF a.buf # << >> /\ buf # << >> THEN Append(a.done, buf)
                                     ELSE a.done]
    BY <1>1, <1>5, <1>10 DEF tsmf_extract_tlv
  <2>2. p \in Fragments(c, ts) /\ NoneUntil(p, g, p.s, c, ts)
    BY <1>8, <1>10 DEF TlvPids
  <2>3. /\ <<p>> \in Seq(Packets) /\ <<p>>[Len(<<p>>)] = p /\ <<p>> # << >>
        /\ Chain(<<p>>, c, ts)
    <3>1. /\ <<p>> \in Seq(Packets) /\ <<p>>[Len(<<p>>)] = p /\ <<p>> # << >>
          /\ Len(<<p>>) = 1 /\ DOMAIN <<p>> = {1} /\ <<p>>[1] = p
      OBVIOUS
    <3>2. 1..(Len(<<p>>) - 1) = {}
      BY <3>1
    <3> QED
      BY <1>10, <2>2, <3>1, <3>2 DEF Chain
  <2>4. e.done \in Seq(Seq(Packets)) /\ \A k \in DOMAIN e.done : Whole(e.done[k], ts)
    <3>1. CASE a.buf # << >> /\ buf # << >>
      <4>1. buf = Append(a.buf, p) /\ buf \in Seq(Packets) /\ Whole(buf, ts)
        <5>1. buf = Append(a.buf, p) /\ Chain(a.buf, c, ts)
          BY <1>6, <3>1 DEF Extraction
        <5>2. NextFragment(a.buf[Len(a.buf)], ts) = p
          BY <1>8, <1>10, <3>1 DEF TlvPids
        <5>3. Append(a.buf, p) \in Seq(Packets) /\ Whole(Append(a.buf, p), ts)
          BY <1>10, <2>2, <5>1, <5>2, ChainAppend
        <5> QED
          BY <5>1, <5>3
      <4>2. e.done = Append(a.done, buf)
        BY <2>1, <3>1
      <4>3. /\ e.done \in Seq(Seq(Packets)) /\ DOMAIN e.done = 1..(Len(a.done) + 1)
            /\ e.done[Len(a.done) + 1] = buf /\ DOMAIN a.done = 1..Len(a.done)
            /\ \A k \in 1..Len(a.done) : e.done[k] = a.done[k]
        BY <1>2, <4>1, <4>2
      <4>4. \A k \in DOMAIN e.done : k \in 1..Len(a.done) \/ k = Len(a.done) + 1
        BY <1>2, <4>3
      <4> QED
        BY <1>2, <4>1, <4>3, <4>4
    <3>2. CASE ~(a.buf # << >> /\ buf # << >>)
      BY <1>2, <2>1, <3>2
    <3> QED
      BY <3>1, <3>2
  <2>5. e.buf = <<p>> /\ e = [buf |-> e.buf, done |-> e.done]
    BY <2>1
  <2> QED
    BY <1>1, <2>2, <2>3, <2>4, <2>5 DEF Extraction
<1>11. CASE p.dam = "no" /\ Pid(p) = "null"
  <2>1. e = a
    BY <1>1, <1>11 DEF tsmf_extract_tlv
  <2>2. ASSUME a.buf # << >> PROVE NoneUntil(a.buf[Len(a.buf)], g, p.s, c, ts)
    <3>1. /\ a.buf[Len(a.buf)] \in Fragments(c, ts)
          /\ NoneUntil(a.buf[Len(a.buf)], g, s, c, ts)
      BY <1>2, <2>2 DEF Extraction, Chain
    <3>2. ASSUME NEW o \in Fragments(c, ts), o.f = g, o.s = p.s PROVE FALSE
      <4>1. o \in Packets /\ o.c = c /\ o.dam = "no" /\ Pid(o) \in TlvPids
        BY FragmentFacts
      <4>2. Pid(o) = Carriers[c].frames[g].load[p.s] /\ Pid(p) = Carriers[c].frames[g].load[p.s]
        BY <1>3, <1>11, <3>2, <4>1, PidFacts
      <4> QED
        BY <1>11, <4>1, <4>2 DEF TlvPids
    <3>3. \A o \in Fragments(c, ts) : ~(o.f = g /\ s < o.s /\ o.s <= p.s)
      <4>1. \A o \in Fragments(c, ts) : o.s \in Nat
        BY FragmentFacts, SizesAssumption
      <4> QED
        BY <1>3, <3>2, <4>1
    <3> QED
      BY <1>3, <3>1, <3>3, NoneUntilSteps
  <2> QED
    BY <1>1, <1>2, <2>1, <2>2 DEF Extraction
<1> QED
  BY <1>7, <1>9, <1>10, <1>11 DEF TlvPids

(* tsmf_extract_tlv() of all packets of a frame.                           *)
LEMMA ExtractedRight ==
    ASSUME NEW c \in DOMAIN Carriers, NEW ts, NEW g \in DOMAIN Carriers[c].frames,
           NEW frame \in Seq(Packets), IsFrame(frame, c, g, ts), ~Other(frame),
           NEW buf \in Seq(Packets),
           buf # << >> => Chain(buf, c, ts) /\ NoneUntil(buf[Len(buf)], g, 0, c, ts)
    PROVE  Extraction(Extracted(buf, frame)[Len(frame)], g, SlotNum, c, ts)
<1> DEFINE At(n) == IF n = 0 THEN 0 ELSE frame[n].s
           S == {n \in 0..Len(frame) : Extraction(Extracted(buf, frame)[n], g, At(n), c, ts)}
<1>1. Len(frame) \in Nat /\ DOMAIN frame = 1..Len(frame) /\ SlotNum \in Nat
  BY SizesAssumption
<1>2. \A n \in 1..Len(frame) : /\ frame[n] \in Packets /\ frame[n].c = c /\ frame[n].f = g
                               /\ frame[n].s \in SlotsOf(c, g, ts) /\ frame[n].s \in 1..SlotNum
  BY <1>1 DEF IsFrame, SlotsOf
<1>3. PICK acc : acc = Extracted(buf, frame)
  OBVIOUS
<1>4. /\ acc[0] = [buf |-> buf, done |-> << >>]
      /\ \A n \in 0..(Len(frame) - 1) : acc[n + 1] = tsmf_extract_tlv(acc[n], frame[n + 1])
  BY <1>3, ExtractedSteps
<1>5. ASSUME NEW o \in Fragments(c, ts), o.f = g, NEW n \in 0..Len(frame), At(n) < o.s,
             n < Len(frame) => o.s < frame[n + 1].s
      PROVE  FALSE
  <2>1. o.s \in Owed(c, g, ts) /\ o.s \in Nat
    BY <1>5, FragmentFacts, SizesAssumption
  <2>2. PICK m \in 1..Len(frame) : frame[m].s = o.s
    BY <1>1, <2>1 DEF IsFrame
  <2>3. CASE m <= n
    <3>1. n # 0 /\ n \in 1..Len(frame) /\ At(n) = frame[n].s
      BY <1>1, <2>3
    <3>2. frame[m].s <= frame[n].s
      <4>1. CASE m = n
        BY <1>2, <3>1, <4>1
      <4>2. CASE m < n
        BY <1>1, <1>2, <3>1, <4>2 DEF IsFrame
      <4> QED
        BY <1>1, <2>3, <4>1, <4>2
    <3> QED
      BY <1>2, <1>5, <2>1, <2>2, <3>1, <3>2
  <2>4. CASE ~(m <= n)
    <3>1. n < Len(frame) /\ n + 1 \in 1..Len(frame) /\ (m = n + 1 \/ n + 1 < m)
      BY <1>1, <2>4
    <3>2. frame[n + 1].s <= frame[m].s
      <4>1. CASE m = n + 1
        BY <1>2, <3>1, <4>1
      <4>2. CASE n + 1 < m
        <5>1. frame[n + 1].s < frame[m].s
          BY <1>1, <3>1, <4>2 DEF IsFrame
        <5>2. frame[n + 1].s \in Nat /\ frame[m].s \in Nat
          BY <1>1, <1>2, <3>1
        <5> QED
          BY <5>1, <5>2
      <4> QED
        BY <3>1, <4>1, <4>2
    <3> QED
      BY <1>2, <1>5, <2>1, <2>2, <3>1, <3>2
  <2> QED
    BY <2>3, <2>4
<1>6. 0 \in S
  <2>1. acc[0].buf = buf /\ acc[0].done = << >> /\ << >> \in Seq(Seq(Packets))
    BY <1>4, EmptySeq
  <2>2. Extraction(acc[0], g, 0, c, ts)
    BY <1>4, <2>1 DEF Extraction
  <2> QED
    BY <1>1, <1>3, <2>2
<1>7. ASSUME NEW n \in 0..(Len(frame) - 1), n \in S PROVE n + 1 \in S
  <2>1. PICK p : p = frame[n + 1]
    OBVIOUS
  <2>2. n + 1 \in 1..Len(frame) /\ n \in 0..Len(frame) /\ n + 1 # 0
    BY <1>1
  <2>3. /\ p \in Packets /\ p.c = c /\ p.f = g /\ p.s \in SlotsOf(c, g, ts) /\ p.s \in 1..SlotNum
    BY <1>2, <2>1, <2>2
  <2>4. At(n) \in 0..SlotNum /\ At(n) < p.s
    <3>1. CASE n = 0
      BY <1>1, <2>3, <3>1
    <3>2. CASE n # 0
      <4>1. n \in 1..Len(frame) /\ n < n + 1
        BY <1>1, <3>2
      <4>2. frame[n].s < frame[n + 1].s
        BY <1>1, <2>2, <4>1 DEF IsFrame
      <4> QED
        BY <1>1, <1>2, <2>1, <3>2, <4>1, <4>2
    <3> QED
      BY <3>1, <3>2
  <2>5. p.dam = "no" => Pid(p) \in TlvPids \cup {"null"}
    BY <1>1, <2>1, <2>2 DEF Other
  <2>6. \A o \in Fragments(c, ts) : ~(o.f = g /\ At(n) < o.s /\ o.s < p.s)
    BY <1>5, <2>1, <2>2
  <2>7. Extraction(acc[n], g, At(n), c, ts)
    BY <1>3, <1>7
  <2> HIDE DEF At
  <2>8. Extraction(tsmf_extract_tlv(acc[n], p), g, p.s, c, ts)
    BY <2>3, <2>4, <2>5, <2>6, <2>7, ExtractStep
  <2>9. acc[n + 1] = tsmf_extract_tlv(acc[n], p) /\ At(n + 1) = p.s
    BY <1>4, <2>1, <2>2 DEF At
  <2>10. Extraction(acc[n + 1], g, At(n + 1), c, ts)
    BY <2>8, <2>9
  <2>11. n + 1 \in 0..Len(frame)
    BY <1>1
  <2> QED
    BY <1>3, <2>10, <2>11
<1>8. Len(frame) \in S
  <2>1. \A n \in 0..(Len(frame) - 1) : n \in S => n + 1 \in S
    BY <1>7, Zenon
  <2> HIDE DEF S
  <2>2. 0..Len(frame) \subseteq S
    BY <1>1, <1>6, <2>1, UpTo
  <2> QED
    BY <1>1, <2>2
<1>9. PICK a : a = acc[Len(frame)]
  OBVIOUS
<1>10. Extraction(a, g, At(Len(frame)), c, ts)
  BY <1>3, <1>8, <1>9
<1>11. ASSUME a.buf # << >> PROVE NoneUntil(a.buf[Len(a.buf)], g, SlotNum, c, ts)
  <2>1. /\ a.buf[Len(a.buf)] \in Fragments(c, ts)
        /\ NoneUntil(a.buf[Len(a.buf)], g, At(Len(frame)), c, ts)
    BY <1>10, <1>11 DEF Extraction, Chain
  <2>2. At(Len(frame)) \in 0..SlotNum /\ SlotNum \in 0..SlotNum
    BY <1>1, <1>2
  <2>3. \A o \in Fragments(c, ts) : ~(o.f = g /\ At(Len(frame)) < o.s /\ o.s <= SlotNum)
    BY <1>1, <1>5
  <2> HIDE DEF At
  <2>4. At(Len(frame)) <= SlotNum
    BY <1>1, <2>2
  <2> QED
    BY <2>1, <2>2, <2>3, <2>4, NoneUntilSteps
<1> QED
  BY <1>3, <1>9, <1>10, <1>11 DEF Extraction

(* tsmf_flush_frame() and divided TLV.                                     *)
LEMMA FlushTlv ==
    ASSUME NEW f, IsFilter(f)
    PROVE  LET r == tsmf_flush_frame(f)
               acc == Extracted(f.tlv_buf, f.frame)[Len(f.frame)]
           IN  /\ r.out.kind = "tlv" =>
                     f.output_tlv /\ ~Other(f.frame) /\ r.out.data = acc.done
               /\ r.fl.tlv_buf # << >> =>
                     \/ ~f.output_tlv /\ r.fl.tlv_buf = f.tlv_buf
                     \/ f.output_tlv /\ ~Other(f.frame) /\ r.fl.tlv_buf = acc.buf
               /\ ~f.output_tlv \/ ~Other(f.frame) => r.fl.output_tlv = f.output_tlv
               /\ r.fl.stream = f.stream /\ IsFilter(r.fl)
<1>1. PICK acc : acc = Extracted(f.tlv_buf, f.frame)[Len(f.frame)]
  OBVIOUS
<1>2. tsmf_flush_frame(f) =
        IF ~f.output_tlv THEN Result(f, [kind |-> "ts", data |-> f.frame])
        ELSE IF Other(f.frame)
        THEN Result([f EXCEPT !.tlv_rejected = TRUE, !.output_tlv = FALSE, !.tlv_buf = << >>],
                    [kind |-> "ts", data |-> f.frame])
        ELSE Result([f EXCEPT !.tlv_buf = acc.buf], [kind |-> "tlv", data |-> acc.done])
  BY <1>1, Zenon DEF tsmf_flush_frame, Other
<1>3. CASE ~f.output_tlv
  BY <1>2, <1>3 DEF Result, IsFilter
<1>4. CASE f.output_tlv /\ Other(f.frame)
  <2>1. PICK e : e = [f EXCEPT !.tlv_rejected = TRUE, !.output_tlv = FALSE, !.tlv_buf = << >>]
    OBVIOUS
  <2>2. tsmf_flush_frame(f) = Result(e, [kind |-> "ts", data |-> f.frame])
    BY <1>2, <1>4, <2>1, Zenon
  <2>3. e.tlv_buf = << >> /\ e.stream = f.stream /\ IsFilter(e)
    BY <2>1 DEF IsFilter
  <2>4. tsmf_flush_frame(f).fl = e /\ tsmf_flush_frame(f).out.kind = "ts"
    BY <2>2 DEF Result
  <2> QED
    BY <1>4, <2>3, <2>4
<1>5. CASE f.output_tlv /\ ~Other(f.frame)
  <2>1. PICK e : e = [f EXCEPT !.tlv_buf = acc.buf]
    OBVIOUS
  <2>2. tsmf_flush_frame(f) = Result(e, [kind |-> "tlv", data |-> acc.done])
    BY <1>2, <1>5, <2>1, Zenon
  <2>3. /\ e.tlv_buf = acc.buf /\ e.stream = f.stream /\ e.output_tlv = f.output_tlv
        /\ IsFilter(e)
    BY <2>1 DEF IsFilter
  <2>4. /\ tsmf_flush_frame(f).fl = e
        /\ tsmf_flush_frame(f).out.kind = "tlv" /\ tsmf_flush_frame(f).out.data = acc.done
    BY <2>2 DEF Result
  <2> QED
    BY <1>1, <1>5, <2>3, <2>4
<1> QED
  BY <1>3, <1>4, <1>5

(* A header and divided TLV: what is left of a TLV packet is kept only     *)
(* behind a frame that was flushed as TLV.                                 *)
LEMMA HeaderTlv ==
    ASSUME NEW f, IsFilter(f), f.passthrough \in BOOLEAN,
           f.passthrough => f.slot # SlotNum,
           NEW p, f.skip_packets = 0, tsmf_is_header(p),
           f.tlv_buf # << >> => f.output_tlv
    PROVE  LET r == tsmf_filter_packet(f, p)
               acc == Extracted(f.tlv_buf, f.frame)[Len(f.frame)]
           IN  /\ r.out.kind = "tlv" =>
                     f.slot = SlotNum /\ ~Other(f.frame) /\ r.out.data = acc.done
               /\ r.fl.tlv_buf # << >> =>
                     /\ f.slot = SlotNum /\ ~Other(f.frame) /\ r.fl.tlv_buf = acc.buf
                     /\ r.fl.output_tlv /\ r.fl.stream = f.stream
<1> DEFINE g == IF f.passthrough THEN [f EXCEPT !.passthrough = FALSE, !.frame = << >>] ELSE f
           h == IF g.slot = SlotNum THEN tsmf_flush_frame(g)
                ELSE Result([g EXCEPT !.tlv_buf = << >>], Nothing)
           x == FrameOf(p)
<1>1. PICK acc : acc = Extracted(f.tlv_buf, f.frame)[Len(f.frame)]
  OBVIOUS
<1>2. PICK r : r = tsmf_filter_packet(f, p)
  OBVIOUS
<1>3. r = TakeHeader(f, p)
  BY <1>2 DEF tsmf_filter_packet
<1>4. TakeHeader(f, p) = Result(tsmf_parse_header(h.fl, p), h.out)
  BY Zenon DEF TakeHeader
<1>5. IsFilter(g) /\ g.slot = f.slot /\ (f.slot = SlotNum => g = f)
  BY DEF IsFilter
<1> HIDE DEF g
<1>6. /\ IsFilter(h.fl)
      /\ h.out.kind = "tlv" => f.slot = SlotNum /\ ~Other(f.frame) /\ h.out.data = acc.done
      /\ h.fl.tlv_buf # << >> =>
            /\ f.slot = SlotNum /\ ~Other(f.frame) /\ h.fl.tlv_buf = acc.buf
            /\ h.fl.output_tlv /\ h.fl.stream = f.stream
  <2>1. CASE f.slot = SlotNum
    <3>1. h = tsmf_flush_frame(f)
      BY <1>5, <2>1
    <3> HIDE DEF h
    <3> QED
      BY <1>1, <2>1, <3>1, FlushTlv
  <2>2. CASE f.slot # SlotNum
    <3>1. h = Result([g EXCEPT !.tlv_buf = << >>], Nothing)
      BY <1>5, <2>2
    <3> HIDE DEF h
    <3> QED
      BY <1>5, <2>2, <3>1 DEF Result, Nothing, IsFilter
  <2> QED
    BY <2>1, <2>2
<1> HIDE DEF h
<1>7. PICK k : k = h.fl
  OBVIOUS
<1>8. r.fl = tsmf_parse_header(k, p) /\ r.out = h.out
  BY <1>3, <1>4, <1>7 DEF Result
<1>9. PICK rel : rel = IF k.relative < 0 THEN NumberOf(x.valid, k.stream_index) ELSE k.relative
  OBVIOUS
<1>10. PICK st : st = IF rel \in x.valid THEN rel ELSE -1
  OBVIOUS
<1>11. PICK tlv : tlv = (st \in x.tlv /\ ~k.tlv_rejected)
  OBVIOUS
<1>12. PICK buf : buf = IF st # k.stream \/ tlv # k.output_tlv THEN << >> ELSE k.tlv_buf
  OBVIOUS
<1>13. PICK own, none : own = [s \in 1..SlotNum |-> x.owner[s]] /\ none = (st < 0)
  OBVIOUS
<1>14. tsmf_parse_header(k, p) =
        [k EXCEPT !.relative = rel, !.stream = st, !.output_tlv = tlv, !.tlv_buf = buf,
                  !.slot_stream = own, !.header_found = TRUE, !.not_found = none,
                  !.slot = 0, !.frame = << >>]
  BY <1>9, <1>10, <1>11, <1>12, <1>13, Zenon DEF tsmf_parse_header
<1>15. r.fl.tlv_buf = buf /\ r.fl.stream = st /\ r.fl.output_tlv = tlv
  BY <1>6, <1>7, <1>8, <1>14 DEF IsFilter
<1>16. buf # << >> => buf = k.tlv_buf /\ st = k.stream /\ tlv = k.output_tlv
  BY <1>12, Zenon
<1> QED
  BY <1>1, <1>2, <1>6, <1>7, <1>8, <1>15, <1>16

(* Any other packet and divided TLV: what is left of a TLV packet stays as *)
(* it is or is dropped, and is dropped when a header is due.               *)
LEMMA OtherTlv ==
    ASSUME NEW f, IsFilter(f), f.passthrough \in BOOLEAN, f.slot \in Int,
           NEW p, f.skip_packets = 0, ~tsmf_is_header(p)
    PROVE  LET r == tsmf_filter_packet(f, p)
               acc == Extracted(f.tlv_buf, f.frame)[Len(f.frame)]
           IN  /\ r.out.kind = "tlv" =>
                     /\ f.slot >= SlotNum /\ Pid(p) = "header"
                     /\ ~Other(f.frame) /\ r.out.data = acc.done
               /\ r.fl.tlv_buf # << >> =>
                     /\ r.fl.tlv_buf = f.tlv_buf /\ r.fl.output_tlv = f.output_tlv
                     /\ r.fl.stream = f.stream
                     /\ r.fl.passthrough \/ f.slot < SlotNum
<1>1. PICK g : g = Detect(f)
  OBVIOUS
<1>2. PICK r : r = tsmf_filter_packet(f, p)
  OBVIOUS
<1>3. r = IF g.passthrough THEN tsmf_passthrough_packet(g, p)
          ELSE IF g.slot < 0 THEN Result(g, Nothing)
          ELSE IF g.slot >= SlotNum THEN MissedHeader(g, p)
          ELSE TakeSlot(g, p)
  BY <1>1, <1>2 DEF tsmf_filter_packet
<1>4. PICK acc : acc = Extracted(f.tlv_buf, f.frame)[Len(f.frame)]
  OBVIOUS
<1>5. SameButGuess(f, g) /\ g.slot = f.slot /\ g.frame = f.frame
  BY <1>1, DetectFields
<1>6. g.tlv_buf = f.tlv_buf /\ g.output_tlv = f.output_tlv
  <2>1. \A d, a, b : LET e == [f EXCEPT !.detect_packets = d, !.passthrough = a, !.not_found = b]
                     IN  e.tlv_buf = f.tlv_buf /\ e.output_tlv = f.output_tlv
    BY DEF IsFilter
  <2>2. \A d : LET e == [f EXCEPT !.detect_packets = d]
               IN  e.tlv_buf = f.tlv_buf /\ e.output_tlv = f.output_tlv
    BY DEF IsFilter
  <2>3. CASE f.header_found \/ f.detect_packets = DetectPackets
    BY <1>1, <2>3 DEF Detect
  <2>4. CASE ~(f.header_found \/ f.detect_packets = DetectPackets)
    <3>1. CASE f.detect_packets + 1 < DetectPackets
      <4>1. g = [f EXCEPT !.detect_packets = f.detect_packets + 1]
        BY <1>1, <2>4, <3>1 DEF Detect
      <4> QED
        BY <2>2, <4>1
    <3>2. CASE ~(f.detect_packets + 1 < DetectPackets)
      <4>1. g = [f EXCEPT !.detect_packets = f.detect_packets + 1,
                          !.passthrough = f.passthrough \/ f.stream_index = 0,
                          !.not_found = f.not_found \/ f.stream_index # 0]
        BY <1>1, <2>4, <3>2 DEF Detect
      <4>2. PICK d, a, b : /\ d = f.detect_packets + 1
                           /\ a = (f.passthrough \/ f.stream_index = 0)
                           /\ b = (f.not_found \/ f.stream_index # 0)
        OBVIOUS
      <4>3. g = [f EXCEPT !.detect_packets = d, !.passthrough = a, !.not_found = b]
        BY <4>1, <4>2, Zenon
      <4> QED
        BY <2>1, <4>3
    <3> QED
      BY <3>1, <3>2
  <2> QED
    BY <2>3, <2>4
<1>7. /\ IsFilter(g) /\ g.passthrough \in BOOLEAN /\ g.stream = f.stream
      /\ g.slot \in Int /\ SlotNum \in Nat
  BY <1>5, SizesAssumption DEF SameButGuess
<1>8. \A k, q : IsFilter(k) => /\ Collect(k, q).tlv_buf = k.tlv_buf
                               /\ Collect(k, q).output_tlv = k.output_tlv
                               /\ Collect(k, q).stream = k.stream
                               /\ Collect(k, q).passthrough = k.passthrough
                               /\ IsFilter(Collect(k, q))
  <2> SUFFICES ASSUME NEW k, NEW q, IsFilter(k)
               PROVE  /\ Collect(k, q).tlv_buf = k.tlv_buf
                      /\ Collect(k, q).output_tlv = k.output_tlv
                      /\ Collect(k, q).stream = k.stream
                      /\ Collect(k, q).passthrough = k.passthrough
                      /\ IsFilter(Collect(k, q))
    OBVIOUS
  <2>1. CASE tsmf_is_null_packet(q)
    BY <2>1 DEF Collect
  <2>2. CASE ~tsmf_is_null_packet(q)
    BY <2>2 DEF Collect, IsFilter
  <2> QED
    BY <2>1, <2>2
<1>9. CASE g.passthrough
  <2>1. PICK k : k = Collect(g, p)
    OBVIOUS
  <2>2. /\ IsFilter(k) /\ k.tlv_buf = f.tlv_buf /\ k.output_tlv = f.output_tlv
        /\ k.stream = f.stream /\ k.passthrough
    BY <1>6, <1>7, <1>8, <1>9, <2>1
  <2>3. r = IF Len(k.frame) < SlotNum THEN Result(k, Nothing)
            ELSE Result([k EXCEPT !.frame = << >>], [kind |-> "pass", data |-> k.frame])
    BY <1>3, <1>9, <2>1 DEF tsmf_passthrough_packet
  <2>4. CASE Len(k.frame) < SlotNum
    BY <1>2, <2>2, <2>3, <2>4 DEF Result, Nothing
  <2>5. CASE ~(Len(k.frame) < SlotNum)
    <3>1. PICK e : e = [k EXCEPT !.frame = << >>]
      OBVIOUS
    <3>2. r.fl = e /\ r.out.kind = "pass"
      BY <2>3, <2>5, <3>1 DEF Result
    <3>3. /\ e.tlv_buf = f.tlv_buf /\ e.output_tlv = f.output_tlv
          /\ e.stream = f.stream /\ e.passthrough
      BY <2>2, <3>1 DEF IsFilter
    <3> QED
      BY <1>2, <3>2, <3>3
  <2> QED
    BY <2>4, <2>5
<1>10. CASE ~g.passthrough /\ g.slot < 0
  <2>1. r.fl = g /\ r.out.kind = "none"
    BY <1>3, <1>10 DEF Result, Nothing
  <2>2. f.slot < SlotNum
    BY <1>5, <1>7, <1>10
  <2> QED
    BY <1>2, <1>6, <1>7, <2>1, <2>2
<1>11. CASE ~g.passthrough /\ ~(g.slot < 0) /\ g.slot >= SlotNum
  <2>1. PICK h : h = IF Pid(p) = "header" THEN tsmf_flush_frame(g) ELSE Result(g, Nothing)
    OBVIOUS
  <2>2. r = Result([h.fl EXCEPT !.slot = -1, !.tlv_buf = << >>], h.out)
    BY <1>3, <1>11, <2>1 DEF MissedHeader
  <2>3. IsFilter(h.fl)
    <3>1. CASE Pid(p) = "header"
      <4>1. h = tsmf_flush_frame(g)
        BY <2>1, <3>1
      <4> QED
        BY <1>7, <4>1, FlushTlv
    <3>2. CASE Pid(p) # "header"
      BY <1>7, <2>1, <3>2 DEF Result
    <3> QED
      BY <3>1, <3>2
  <2>4. PICK e : e = [h.fl EXCEPT !.slot = -1, !.tlv_buf = << >>]
    OBVIOUS
  <2>5. r.fl = e /\ r.out = h.out /\ e.tlv_buf = << >>
    <3>1. r.fl = e /\ r.out = h.out
      BY <2>2, <2>4 DEF Result
    <3>2. e.tlv_buf = << >>
      BY <2>3, <2>4 DEF IsFilter
    <3> QED
      BY <3>1, <3>2
  <2>6. h.out.kind = "tlv" => Pid(p) = "header" /\ ~Other(f.frame) /\ h.out.data = acc.done
    <3>1. CASE Pid(p) = "header"
      <4>1. h = tsmf_flush_frame(g)
        BY <2>1, <3>1
      <4> QED
        BY <1>4, <1>5, <1>6, <1>7, <3>1, <4>1, FlushTlv
    <3>2. CASE Pid(p) # "header"
      BY <2>1, <3>2 DEF Result, Nothing
    <3> QED
      BY <3>1, <3>2
  <2> QED
    BY <1>2, <1>4, <1>5, <1>11, <2>5, <2>6
<1>12. CASE ~g.passthrough /\ ~(g.slot < 0) /\ ~(g.slot >= SlotNum)
  <2>1. PICK k : k = [g EXCEPT !.slot = @ + 1]
    OBVIOUS
  <2>2. IsFilter(k) /\ k.tlv_buf = f.tlv_buf /\ k.output_tlv = f.output_tlv /\ k.stream = f.stream
    BY <1>6, <1>7, <2>1 DEF IsFilter
  <2>3. r = Result(IF Mine(g) THEN Collect(k, p) ELSE k, Nothing)
    BY <1>3, <1>12, <2>1 DEF TakeSlot, Mine
  <2>4. (r.fl = k \/ r.fl = Collect(k, p)) /\ r.out.kind = "none"
    BY <2>3 DEF Result, Nothing
  <2>5. r.fl.tlv_buf = f.tlv_buf /\ r.fl.output_tlv = f.output_tlv /\ r.fl.stream = f.stream
    BY <1>8, <2>2, <2>4
  <2>6. f.slot < SlotNum
    BY <1>5, <1>7, <1>12
  <2> QED
    BY <1>2, <2>4, <2>5, <2>6
<1> QED
  BY <1>9, <1>10, <1>11, <1>12

(* What comes out of a frame that was counted to its end without a loss,   *)
(* and what is left of a TLV packet behind it.                             *)
LEMMA FlushedTlv ==
    ASSUME TypeInv, FrameInv, TlvInv, fl.slot = SlotNum, lost = 0, ~Other(fl.frame),
           NEW acc, acc = Extracted(fl.tlv_buf, fl.frame)[Len(fl.frame)]
    PROVE  /\ \A k \in DOMAIN acc.done : Whole(acc.done[k], chosen)
           /\ acc.done # << >> \/ acc.buf # << >> => fl.stream >= 0 /\ chosen \in 0..14
           /\ acc.buf # << >> =>
                 /\ Chain(acc.buf, air.c, chosen)
                 /\ NoneUntil(acc.buf[Len(acc.buf)], air.f, 0, air.c, chosen)
<1>1. PICK g : g = Before(air)
  OBVIOUS
<1>2. /\ g \in DOMAIN Carriers[air.c].frames
      /\ fl.stream = IF chosen \in Carriers[air.c].frames[g].valid THEN chosen ELSE -1
      /\ chosen \in Carriers[air.c].frames[g].valid => IsFrame(fl.frame, air.c, g, chosen)
  BY <1>1, CompleteFrame
<1>3. /\ SlotNum \in Nat /\ air.c \in DOMAIN Carriers /\ fl.frame \in Seq(Packets)
      /\ air.f \in DOMAIN Carriers[air.c].frames
  BY SizesAssumption DEF TypeInv, AirInv, Packets
<1>4. Carriers[air.c].frames[g].valid \subseteq 0..14
  BY <1>2, <1>3, CarriersAssumption
<1>5. Current = g
  BY <1>1, <1>3 DEF Current
<1>6. CASE chosen \notin Carriers[air.c].frames[g].valid
  <2>1. fl.stream = -1
    BY <1>2, <1>6
  <2>2. fl.frame = << >> /\ fl.tlv_buf = << >>
    BY <1>3, <2>1 DEF FrameInv, TlvInv
  <2>3. acc = [buf |-> << >>, done |-> << >>]
    <3>1. Len(fl.frame) = 0
      BY <2>2
    <3> QED
      BY <1>3, <2>2, <3>1, ExtractedSteps
  <2> QED
    BY <2>3
<1>7. CASE chosen \in Carriers[air.c].frames[g].valid
  <2>1. chosen \in 0..14 /\ fl.stream = chosen /\ fl.stream >= 0
    BY <1>2, <1>4, <1>7
  <2>2. /\ fl.tlv_buf \in Seq(Packets)
        /\ fl.tlv_buf # << >> =>
              /\ Chain(fl.tlv_buf, air.c, chosen)
              /\ NoneUntil(fl.tlv_buf[Len(fl.tlv_buf)], g, 0, air.c, chosen)
    <3>1. CASE fl.tlv_buf = << >>
      BY <3>1, EmptySeq
    <3>2. CASE fl.tlv_buf # << >>
      BY <1>5, <3>2 DEF TlvInv, Chain
    <3> QED
      BY <3>1, <3>2
  <2>3. Extraction(acc, g, SlotNum, air.c, chosen)
    BY <1>2, <1>3, <1>7, <2>2, ExtractedRight
  <2>4. ASSUME acc.buf # << >>
        PROVE  /\ Chain(acc.buf, air.c, chosen)
               /\ NoneUntil(acc.buf[Len(acc.buf)], air.f, 0, air.c, chosen)
    <3>1. PICK q : q = acc.buf[Len(acc.buf)]
      OBVIOUS
    <3>2. /\ acc.buf \in Seq(Packets) /\ Chain(acc.buf, air.c, chosen)
          /\ NoneUntil(q, g, SlotNum, air.c, chosen)
      BY <2>3, <2>4, <3>1 DEF Extraction
    <3>3. q \in Fragments(air.c, chosen)
      BY <2>4, <3>1, <3>2 DEF Chain
    <3>4. g = IF air.f = 1 THEN Len(Carriers[air.c].frames) ELSE air.f - 1
      BY <1>1 DEF Before
    <3>5. 0 \in 0..SlotNum
      BY <1>3
    <3>6. NoneUntil(q, air.f, 0, air.c, chosen)
      BY <1>2, <1>3, <3>2, <3>3, <3>4, <3>5, NoneUntilSteps
    <3> QED
      BY <3>1, <3>2, <3>6
  <2> QED
    BY <2>1, <2>3, <2>4 DEF Extraction
<1> QED
  BY <1>6, <1>7

(* The TLV packets put out are whole.                                      *)
TlvWhole == out.kind = "tlv" => \A n \in DOMAIN out.data : Whole(out.data[n], chosen)

(* A header, and what divided TLV it completes.                            *)
LEMMA HeaderTlvStep ==
    ASSUME IInv, TlvInv, NEW p, Came(p), Put(p), Advance,
           fl.skip_packets = 0, tsmf_is_header(p)
    PROVE  TlvInv' /\ TlvWhole'
<1>1. /\ TypeInv /\ TuneInv /\ PassInv /\ SlotInv /\ FrameInv
      /\ air'.c = air.c /\ Incoming = air /\ air' = Following(air)
  BY SameCarrier
<1>2. /\ AirInv /\ IsFilter(fl) /\ fl.tlv_rejected \in BOOLEAN /\ fl.passthrough \in BOOLEAN
      /\ fl.slot \in Int /\ lost \in Nat
      /\ SlotNum \in Nat /\ SlotNum > 0
  BY <1>1, SizesAssumption DEF TypeInv
<1>3. fl.passthrough => fl.slot # SlotNum
  BY <1>1, <1>2 DEF PassInv
<1>4. PICK r, acc : /\ r = tsmf_filter_packet(fl, p)
                    /\ acc = Extracted(fl.tlv_buf, fl.frame)[Len(fl.frame)]
  OBVIOUS
<1>5. /\ fl' = r.fl /\ out' = r.out /\ lost' = 0
      /\ chosen' = IF chosen < 0 THEN NumberOf(FrameOf(p).valid, fl.stream_index) ELSE chosen
  BY <1>4, Zenon DEF Put
<1>6. fl'.slot = 0
  <2>1. HeaderTaken(fl, p, r)
    BY <1>2, <1>3, <1>4, HeaderFields
  <2> QED
    BY <1>5, <2>1 DEF HeaderTaken
<1>7. air.s = 0 /\ (fl.slot = SlotNum => lost = 0)
  <2>1. air.s = 0
    BY <1>1 DEF tsmf_is_header, Came
  <2> QED
    BY <1>1, <1>2, <2>1 DEF SlotInv, PlaceOf
<1>8. Current' = air.f
  <2>1. air'.f = air.f
    BY <1>1, <1>2, <1>7, FollowingPlace
  <2> QED
    BY <1>2, <1>6, <2>1 DEF Current
<1>9. fl.tlv_buf # << >> => fl.output_tlv
  BY DEF TlvInv
<1>10. /\ out'.kind = "tlv" =>
             fl.slot = SlotNum /\ ~Other(fl.frame) /\ out'.data = acc.done
       /\ fl'.tlv_buf # << >> =>
             /\ fl.slot = SlotNum /\ ~Other(fl.frame) /\ fl'.tlv_buf = acc.buf
             /\ fl'.output_tlv /\ fl'.stream = fl.stream
  BY <1>2, <1>3, <1>4, <1>5, <1>9, HeaderTlv
<1>11. ASSUME fl.slot = SlotNum, ~Other(fl.frame)
       PROVE  /\ \A k \in DOMAIN acc.done : Whole(acc.done[k], chosen)
              /\ acc.done # << >> \/ acc.buf # << >> => fl.stream >= 0 /\ chosen \in 0..14
              /\ acc.buf # << >> =>
                    /\ Chain(acc.buf, air.c, chosen)
                    /\ NoneUntil(acc.buf[Len(acc.buf)], air.f, 0, air.c, chosen)
  BY <1>1, <1>4, <1>7, <1>11, FlushedTlv
<1>12. chosen \in 0..14 => chosen' = chosen
  BY <1>5
<1>13. TlvInv'
  <2> SUFFICES ASSUME fl'.tlv_buf # << >>
               PROVE  /\ fl'.slot >= 0 /\ fl'.output_tlv /\ fl'.stream >= 0
                      /\ Chain(fl'.tlv_buf, air'.c, chosen')
                      /\ NoneUntil(fl'.tlv_buf[Len(fl'.tlv_buf)], Current', 0, air'.c, chosen')
    BY DEF TlvInv
  <2>1. /\ fl.slot = SlotNum /\ ~Other(fl.frame) /\ fl'.tlv_buf = acc.buf /\ acc.buf # << >>
        /\ fl'.output_tlv /\ fl'.stream = fl.stream
    BY <1>10
  <2> QED
    BY <1>1, <1>6, <1>8, <1>11, <1>12, <2>1
<1>14. TlvWhole'
  <2> SUFFICES ASSUME out'.kind = "tlv", NEW n \in DOMAIN out'.data
               PROVE  Whole(out'.data[n], chosen')
    BY DEF TlvWhole
  <2>1. fl.slot = SlotNum /\ ~Other(fl.frame) /\ out'.data = acc.done
    BY <1>10
  <2>2. acc.done # << >>
    BY <2>1
  <2> QED
    BY <1>11, <1>12, <2>1, <2>2
<1> QED
  BY <1>13, <1>14

(* Any other packet.                                                       *)
LEMMA OtherTlvStep ==
    ASSUME IInv, TlvInv, NEW p, Came(p), Put(p), Advance,
           fl.skip_packets = 0, ~tsmf_is_header(p)
    PROVE  TlvInv' /\ TlvWhole'
<1>1. /\ TypeInv /\ TuneInv /\ PassInv /\ SlotInv /\ FrameInv
      /\ air'.c = air.c /\ Incoming = air /\ air' = Following(air)
  BY SameCarrier
<1>2. /\ AirInv /\ IsFilter(fl) /\ fl.tlv_rejected \in BOOLEAN /\ fl.passthrough \in BOOLEAN
      /\ fl.slot \in Int /\ fl.slot <= SlotNum /\ lost \in Nat
      /\ SlotNum \in Nat /\ SlotNum > 0
  BY <1>1, SizesAssumption DEF TypeInv
<1>3. PICK r, acc : /\ r = tsmf_filter_packet(fl, p)
                    /\ acc = Extracted(fl.tlv_buf, fl.frame)[Len(fl.frame)]
  OBVIOUS
<1>4. /\ fl' = r.fl /\ out' = r.out /\ chosen' = chosen
      /\ lost' = IF r.fl.slot < 0 THEN 0 ELSE lost
  BY <1>3, PutOther
<1>5. p \in Packets /\ p.c = air.c /\ p.f = air.f /\ p.s = air.s
  BY <1>1 DEF Came
<1>6. /\ out'.kind = "tlv" =>
            /\ fl.slot >= SlotNum /\ Pid(p) = "header"
            /\ ~Other(fl.frame) /\ out'.data = acc.done
      /\ fl'.tlv_buf # << >> =>
            /\ fl'.tlv_buf = fl.tlv_buf /\ fl'.output_tlv = fl.output_tlv
            /\ fl'.stream = fl.stream
            /\ fl'.passthrough \/ fl.slot < SlotNum
  BY <1>2, <1>3, <1>4, OtherTlv
<1>7. TlvWhole'
  <2> SUFFICES ASSUME out'.kind = "tlv" PROVE \A n \in DOMAIN out'.data : Whole(out'.data[n], chosen)
    BY <1>4 DEF TlvWhole
  <2>1. fl.slot = SlotNum /\ Pid(p) = "header" /\ ~Other(fl.frame) /\ out'.data = acc.done
    BY <1>2, <1>6
  <2>2. p.s = 0
    <3>1. p.f \in DOMAIN Carriers[p.c].frames
      BY <1>2, <1>5 DEF AirInv
    <3> QED
      BY <1>5, <2>1, <3>1, PidFacts
  <2>3. lost = 0
    BY <1>1, <1>2, <1>5, <2>1, <2>2 DEF SlotInv, PlaceOf
  <2> QED
    BY <1>1, <1>3, <2>1, <2>3, FlushedTlv
<1>8. TlvInv'
  <2> SUFFICES ASSUME fl'.tlv_buf # << >> PROVE TlvInv'
    BY DEF TlvInv
  <2>1. /\ fl'.tlv_buf = fl.tlv_buf /\ fl'.output_tlv = fl.output_tlv
        /\ fl'.stream = fl.stream /\ (fl'.passthrough \/ fl.slot < SlotNum)
        /\ fl.tlv_buf # << >>
    BY <1>6
  <2>2. /\ fl.slot >= 0 /\ fl.output_tlv /\ fl.stream >= 0
        /\ lost = 0 => /\ Chain(fl.tlv_buf, air.c, chosen)
                       /\ NoneUntil(fl.tlv_buf[Len(fl.tlv_buf)], Current, 0, air.c, chosen)
    BY <2>1 DEF TlvInv
  <2>3. fl.header_found
    BY <1>1, <2>2 DEF SlotInv
  <2>4. Slotted(fl, p, r)
    <3>1. Passed(fl, p, r) \/ Ignored(fl, p, r) \/ Missed(fl, p, r) \/ Slotted(fl, p, r)
      BY <1>2, <1>3, OtherFields
    <3>2. ~r.fl.passthrough /\ fl.slot < SlotNum
      <4>1. SameButGuess(fl, r.fl)
        BY <3>1 DEF Passed, Ignored, Missed, Slotted
      <4>2. ~r.fl.passthrough
        BY <1>1, <2>3, <4>1 DEF SameButGuess, PassInv
      <4> QED
        BY <1>4, <2>1, <4>2
    <3>3. ~Passed(fl, p, r)
      BY <3>2 DEF Passed
    <3>4. ~Ignored(fl, p, r)
      BY <1>2, <2>2 DEF Ignored
    <3>5. ~Missed(fl, p, r)
      BY <1>2, <3>2 DEF Missed
    <3> QED
      BY <3>1, <3>3, <3>4, <3>5
  <2>5. fl'.slot = fl.slot + 1 /\ fl.slot < SlotNum
    BY <1>4, <2>4 DEF Slotted
  <2>6. fl'.slot >= 0 /\ lost' = lost
    BY <1>2, <1>4, <2>2, <2>5
  <2>7. ASSUME lost = 0 PROVE Current' = Current
    <3>1. air.s = fl.slot + 1
      BY <1>1, <1>2, <2>2, <2>5, <2>7 DEF SlotInv, PlaceOf
    <3>2. Current = air.f
      BY <2>5 DEF Current
    <3>3. /\ air.s < SlotNum => air'.f = air.f
          /\ air.s = SlotNum => Before(air') = air.f
      BY <1>1, <1>2, FollowingPlace
    <3>4. Current' = IF fl.slot + 1 < SlotNum THEN air'.f ELSE Before(air')
      BY <2>5 DEF Current, Before
    <3> QED
      BY <1>2, <2>5, <3>1, <3>2, <3>3, <3>4
  <2>8. lost' = 0 => /\ Chain(fl'.tlv_buf, air'.c, chosen')
                     /\ NoneUntil(fl'.tlv_buf[Len(fl'.tlv_buf)], Current', 0, air'.c, chosen')
    BY <1>1, <1>4, <2>1, <2>2, <2>6, <2>7
  <2> QED
    BY <2>1, <2>2, <2>6, <2>8 DEF TlvInv
<1> QED
  BY <1>7, <1>8

(* A TLV packet is put out only with all of its fragments in order, over   *)
(* the bounds of frames and whatever is lost, damaged or left over; and a  *)
(* TS of divided TLV is never taken for an MPEG-2 TS.                      *)
THEOREM TlvIsSound == Spec => []TlvSound
<1>1. Init => TlvInv /\ TlvWhole
  <2> SUFFICES ASSUME Init PROVE TlvInv /\ TlvWhole
    OBVIOUS
  <2>1. fl.tlv_buf = << >> /\ out.kind = "none"
    BY DEF Init, tsmf_filter_init, Nothing
  <2> QED
    BY <2>1 DEF TlvInv, TlvWhole
<1>2. ASSUME IInv, TlvInv, TlvWhole, [Next]_vars PROVE TlvInv' /\ TlvWhole'
  <2>1. /\ TypeInv /\ SlotInv /\ fl.slot \in Int /\ fl.skip_packets \in Nat
        /\ IsFilter(fl) /\ lost \in Nat
    BY <1>2, SizesAssumption DEF IInv, TypeInv
  <2>2. CASE Tune
    <3>1. fl'.tlv_buf = << >> /\ out'.kind = "none"
      BY <2>2 DEF Tune, tsmf_filter_init, Nothing
    <3> QED
      BY <3>1 DEF TlvInv, TlvWhole
  <2>3. CASE Restart
    <3>1. fl'.tlv_buf = << >> /\ out'.kind = "none"
      BY <2>1, <2>3 DEF Restart, tsmf_filter_resync, IsFilter, Nothing
    <3> QED
      BY <3>1 DEF TlvInv, TlvWhole
  <2>4. ASSUME NEW p, Came(p), Put(p), Advance PROVE TlvInv' /\ TlvWhole'
    <3>1. CASE fl.skip_packets > 0
      <4>1. fl.tlv_buf = << >>
        BY <1>2, <2>1, <3>1 DEF TlvInv, SlotInv
      <4>2. PICK r : r = tsmf_filter_packet(fl, p)
        OBVIOUS
      <4>3. r.fl = [fl EXCEPT !.skip_packets = @ - 1] /\ r.out = Nothing
        BY <2>1, <3>1, <4>2, SkipFields
      <4>4. fl' = r.fl /\ out' = r.out
        BY <4>2, Zenon, <2>4 DEF Put
      <4>5. fl'.tlv_buf = << >> /\ out'.kind = "none"
        BY <2>1, <4>1, <4>3, <4>4 DEF IsFilter, Nothing
      <4> QED
        BY <4>5 DEF TlvInv, TlvWhole
    <3>2. CASE fl.skip_packets = 0 /\ tsmf_is_header(p)
      BY <1>2, <2>4, <3>2, HeaderTlvStep
    <3>3. CASE fl.skip_packets = 0 /\ ~tsmf_is_header(p)
      BY <1>2, <2>4, <3>3, OtherTlvStep
    <3> QED
      BY <2>1, <3>1, <3>2, <3>3
  <2>5. CASE Receive
    <3>1. Came(Incoming) /\ Put(Incoming) /\ Advance
      BY <1>2, <2>5, IncomingPacket DEF Receive, Came
    <3> QED
      BY <2>4, <3>1
  <2>6. CASE ReceiveDamaged
    <3>1. PICK d \in {"yes", "pid"} : Put([Incoming EXCEPT !.dam = d])
      BY <2>6 DEF ReceiveDamaged
    <3>2. PICK p : p = [Incoming EXCEPT !.dam = d]
      OBVIOUS
    <3>3. Put(p) /\ Advance
      BY <2>6, <3>1, <3>2, Zenon DEF ReceiveDamaged
    <3>4. Came(p)
      BY <1>2, <3>2, IncomingPacket DEF Came, Packets, Damages
    <3> QED
      BY <2>4, <3>3, <3>4
  <2>7. CASE Lose
    <3>1. /\ fl' = fl /\ out'.kind = "none"
          /\ lost' = IF fl.slot >= 0 THEN lost + 1 ELSE 0
      BY <2>7 DEF Lose, Nothing
    <3>2. fl.slot >= 0 => lost' # 0
      BY <2>1, <3>1
    <3> QED
      BY <1>2, <3>1, <3>2 DEF TlvInv, TlvWhole
  <2>8. CASE UNCHANGED vars
    BY <1>2, <2>8 DEF vars, TlvInv, TlvWhole, Current, Before
  <2> QED
    BY <1>2, <2>2, <2>3, <2>5, <2>6, <2>7, <2>8 DEF Next
<1>3. IInv /\ TlvWhole => TlvSound
  BY DEF IInv, RejectsOnlyMpeg, TlvWhole, Whole, TlvSound, IsTlv
<1> QED
  BY <1>1, <1>2, <1>3, Invariance, PTL DEF Spec

=============================================================================
