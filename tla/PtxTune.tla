------------------------------- MODULE PtxTune -------------------------------
(***************************************************************************)
(* Tuning, end to end: the ioctls of a receiver (ptx_chrdev.c) above the   *)
(* board's operations (px4_device.c, pxmlt_device.c, isdb2056_device.c,    *)
(* isdbt2071_device.c) above the drivers of the chips and of the bridge.   *)
(*                                                                         *)
(* An ioctl holds chrdev->lock from its first to its last step, and what   *)
(* it does to the board under the device's lock concerns its own receiver, *)
(* counters that are read and written under that lock, or (the RF input    *)
(* matching of PX-MLT) one other receiver at a time.  So a handler is one  *)
(* step, except where it gives others room for long: the wait for a TSMF   *)
(* header, and the two ends of chrdev->open, which other receivers read.   *)
(* Delays and the number of retries are left out.                          *)
(***************************************************************************)
EXTENDS PxMltBoard, Px4Board, Isdb2056Board, FiniteSets

CONSTANTS
    Workloads,     \* what is checked, see WorkloadsAssumption
    Tsids          \* TS ids of the received ISDB-S transponder

Systems == {"T", "S", "C", "J"}
U == "UNSPECIFIED"

Rx(f) == CASE f = "px4" -> Px4Receivers [] f = "mlt" -> {0, 1} [] OTHER -> {0}

(* A workload is a board with the number of USB accesses that may fail     *)
(* while it is there, what each receiver's user does, the freq_no and slot *)
(* given to PTX_SET_CHANNEL (slot: TMCC slot or TS id for ISDB-S, an       *)
(* offset in kHz for the others), the <<system, kHz, TSMF stream>> given   *)
(* to PTXT_SET_PARAMS, and what happens besides.                           *)
Ioctls == {"SET_CHANNEL", "SET_SYSTEM_MODE", "SET_PARAMS", "TUNE", "STREAMING", "LNB_POWER", "STATUS"}
WorkloadsAssumption ==
    \A w \in Workloads :
        /\ w.family \in {"px4", "mlt", "isdb2056", "s1ur", "isdbt2071"}
        /\ w.faults \in Nat
        /\ \A i \in DOMAIN w.uses : i \in Rx(w.family) /\ w.uses[i] \subseteq Ioctls
        /\ \A n \in w.channels : n \in 0..112
        /\ w.outside \subseteq {"card", "unplug"}
ASSUME WorkloadsAssumption
ASSUME TsidsAssumption == \A t \in Tsids : t \in Nat /\ t >= 12

VARIABLES
    load,       \* the workload, which never changes
    attached,   \* absent, probed or leaving (ptx_chrdev_group_destroy done)
    dev,        \* the board's state, see I2cBus, It930x, TunerBoard
    chr,        \* chr[i] is receiver i's struct ptx_chrdev
    asked,      \* what the receiver's user asked for last and was tuned
    suspect,    \* whether a tune of the receiver failed on a USB access:
                \* "no", "yes", or "reopened" when it was opened again since
    late,       \* was told to keep its RF input matched while idle but open
    lnbLost     \* a write of the LNB pin failed

vars == <<load, attached, dev, chr, asked, suspect, late, lnbLost>>
ghosts == <<asked, suspect, late>>

family == load.family
SystemCap(f, i) ==
    CASE f = "px4" -> {Cap(i)} [] f = "mlt" -> Systems
      [] f = "isdb2056" -> {"T", "S"} [] OTHER -> {"T"}
HasLnb(f, i) == f = "mlt" \/ (f = "px4" /\ Cap(i) = "S")
Sat == family # "s1ur"

(* The *_chrdev_init operations: only the boards whose receivers have one  *)
(* system start with it.                                                   *)
chrdev_init(f, i) == IF f \in {"mlt", "isdb2056"} THEN U ELSE CHOOSE x \in SystemCap(f, i) : TRUE

NewChrdev(f, i) ==
    [open |-> FALSE, pc |-> "closed",
     params |-> [system |-> chrdev_init(f, i), freq |-> 0, stream_id |-> 0, tsmf_stream |-> 0],
     current_system |-> U, streaming |-> FALSE, tsmf_active |-> FALSE]

PowerOnRegs(f) == IF f = "mlt" THEN MltRegs ELSE TcRegs

(* A device the driver has not seen; bridge and pins are the hardware's.   *)
NewDevice(f, faults, bridge, level) ==
    LET All(v) == [i \in Rx(f) |-> v]
    IN  [faults |-> faults, gone |-> FALSE, available |-> FALSE,
         bridge |-> bridge, gpio |-> [g \in Gpios |-> NoGpio], level |-> level,
         filter |-> All("pass"), bus |-> FALSE, reg |-> All(PowerOnRegs(f)),
         demod |-> All(DemodUnknown), tuner |-> All([system |-> U, rfin |-> FALSE]),
         r850 |-> All(R850Off), rt710 |-> All(Rt710Off),
         open_count |-> 0, card_powered |-> FALSE, lnb_power_count |-> 0,
         lnb |-> All(FALSE), streaming_count |-> 0, nullOff |-> All(FALSE)]

NoId == -1
Nothing == [system |-> U, khz |-> 0, id |-> NoId]

Init ==
    /\ load \in Workloads
    /\ attached = "absent"
    /\ dev = NewDevice(family, load.faults, "cold", [g \in Gpios |-> FALSE])
    /\ chr = [i \in Rx(family) |-> NewChrdev(family, i)]
    /\ asked = [i \in Rx(family) |-> Nothing]
    /\ suspect = [i \in Rx(family) |-> "no"]
    /\ late = [i \in Rx(family) |-> FALSE]
    /\ lnbLost = FALSE

-----------------------------------------------------------------------------
(* The ptx_chrdev_operations of each board.                                *)

OpInit(s) ==
    CASE family = "px4" -> px4_device_init(s)
      [] family = "mlt" -> pxmlt_device_init(s)
      [] family \in {"isdb2056", "s1ur"} -> isdb2056_device_init(s)
      [] OTHER -> isdbt2071_device_init(s)
OpOpen(s, i) ==
    CASE family = "px4" -> px4_chrdev_open(s, chr, i)
      [] family = "mlt" -> pxmlt_chrdev_open(s, i)
      [] family \in {"isdb2056", "s1ur"} -> isdb2056_chrdev_open(s, i, Sat)
      [] OTHER -> isdbt2071_chrdev_open(s, i)
OpRelease(s, i) ==
    CASE family = "px4" -> px4_chrdev_release(s, i)
      [] family = "mlt" -> pxmlt_chrdev_release(s, i)
      [] family \in {"isdb2056", "s1ur"} -> isdb2056_chrdev_release(s, i)
      [] OTHER -> isdbt2071_chrdev_release(s, i)
OpTune(s, i, p) ==
    CASE family = "px4" /\ Cap(i) = "T" -> px4_chrdev_tune_t(s, i, p)
      [] family = "px4" /\ Cap(i) = "S" -> px4_chrdev_tune_s(s, i, p)
      [] family = "mlt" -> pxmlt_chrdev_tune(s, chr, i, p)
      [] family \in {"isdb2056", "s1ur"} -> isdb2056_chrdev_tune(s, i, p, Sat)
      [] OTHER -> isdbt2071_chrdev_tune(s, i, p)
OpCheckLock(s, i, system) ==
    CASE family = "px4" /\ Cap(i) = "T" -> px4_chrdev_check_lock_t(s)
      [] family = "px4" /\ Cap(i) = "S" -> px4_chrdev_check_lock_s(s)
      [] family = "mlt" -> pxmlt_chrdev_check_lock(s, system)
      [] family \in {"isdb2056", "s1ur"} -> isdb2056_chrdev_check_lock(s, system)
      [] OTHER -> isdbt2071_chrdev_check_lock(s, system)
OpSetStreamId(s, i, system, id) ==
    CASE family = "px4" /\ Cap(i) = "S" -> px4_chrdev_set_stream_id_s(s, i, id, Tsids)
      [] family = "mlt" -> pxmlt_chrdev_set_stream_id(s, i, id)
      [] family = "isdb2056" -> isdb2056_chrdev_set_stream_id(s, i, system, id, Tsids)
      [] OTHER -> Return("OK", s)
OpSetCapture(s, i, on) ==
    CASE family = "px4" -> px4_chrdev_set_capture(s, i, on)
      [] family = "mlt" -> pxmlt_chrdev_set_capture(s, on)
      [] family \in {"isdb2056", "s1ur"} ->
            isdb2056_chrdev_set_capture(s, i, chr[i].current_system, Sat, on)
      [] OTHER -> isdbt2071_chrdev_set_capture(s, i, chr[i].current_system, on)
OpReadCnr(s, i) ==
    CASE family = "px4" /\ Cap(i) = "T" -> px4_chrdev_read_cnr_raw_t(s)
      [] family = "px4" /\ Cap(i) = "S" -> px4_chrdev_read_cnr_raw_s(s)
      [] family = "mlt" -> pxmlt_chrdev_read_cnr_raw(s, i, chr[i].current_system)
      [] family \in {"isdb2056", "s1ur"} -> isdb2056_chrdev_read_cnr_raw(s, chr[i].current_system)
      [] OTHER -> isdbt2071_chrdev_read_cnr_raw(s, chr[i].current_system)
OpCardPower(s, on) ==
    IF family = "px4" THEN px4_device_set_card_power(s, on) ELSE pxmlt_card_set_power(s, on)

SetStreamIdBeforeTune == family = "mlt"   \* PTX_CHRDEV_SAT_SET_STREAM_ID_BEFORE_TUNE

-----------------------------------------------------------------------------
(* The device comes and goes.                                              *)

(* A probe that fails leaves the device to the next one.                   *)
Probe ==
    /\ attached = "absent"
    /\ \E o \in OpInit(dev) :
          /\ attached' = IF o.ret = "OK" THEN "probed" ELSE "absent"
          /\ dev' = IF o.ret = "OK" THEN o.s
                    ELSE NewDevice(family, o.s.faults, o.s.bridge, o.s.level)
    /\ UNCHANGED <<load, chr, ghosts, lnbLost>>

Unplug ==
    /\ attached = "probed"
    /\ "unplug" \in load.outside
    /\ ~dev.gone
    /\ dev' = [dev EXCEPT !.gone = TRUE]
    /\ UNCHANGED <<load, attached, chr, ghosts, lnbLost>>

(* Unplugged, or the driver is unbound: no open or ioctl is let in.        *)
Disconnect ==
    /\ attached = "probed"
    /\ "unplug" \in load.outside
    /\ attached' = "leaving"
    /\ dev' = [dev EXCEPT !.available = FALSE]
    /\ UNCHANGED <<load, chr, ghosts, lnbLost>>

(* The last reference is gone; the same device may come again.             *)
Reattach ==
    /\ attached = "leaving"
    /\ \A i \in Rx(family) : chr[i].pc = "closed"
    /\ attached' = "absent"
    /\ dev' = IF dev.gone THEN NewDevice(family, dev.faults, "cold", [g \in Gpios |-> FALSE])
              ELSE NewDevice(family, dev.faults, dev.bridge, dev.level)
    /\ chr' = [i \in Rx(family) |-> NewChrdev(family, i)]
    /\ asked' = [i \in Rx(family) |-> Nothing]
    /\ suspect' = [i \in Rx(family) |-> "no"]
    /\ late' = [i \in Rx(family) |-> FALSE]
    /\ lnbLost' = FALSE
    /\ UNCHANGED load

CardPower ==
    /\ attached = "probed"
    /\ "card" \in load.outside
    /\ family \in {"px4", "mlt"}
    /\ \E o \in OpCardPower(dev, ~dev.card_powered) : dev' = o.s
    /\ UNCHANGED <<load, attached, chr, ghosts, lnbLost>>

-----------------------------------------------------------------------------
(* ptx_chrdev_open() and ptx_chrdev_release().                             *)

OpenBegin(i) ==
    /\ attached = "probed"
    /\ ~chr[i].open
    /\ chr' = [chr EXCEPT ![i].open = TRUE, ![i].pc = "opening", ![i].current_system = U]
    /\ UNCHANGED <<load, attached, dev, ghosts, lnbLost>>

OpenBoard(i) ==
    /\ chr[i].pc = "opening"
    /\ \E o \in OpOpen(dev, i) :
          /\ dev' = o.s
          /\ chr' = [chr EXCEPT ![i].pc = IF o.ret = "OK" THEN "open" ELSE "leaving"]
          /\ late' = [late EXCEPT ![i] = @ /\ o.ret # "OK"]
          /\ suspect' = [suspect EXCEPT ![i] = IF o.ret = "OK" /\ @ = "yes" THEN "reopened" ELSE @]
    /\ UNCHANGED <<load, attached, asked, lnbLost>>

LnbWriteFailed(s, t) == s.lnb_power_count > 0 /\ t.lnb_power_count = 0 /\ t.level[LnbGpio]

(* A cable system is not left to the next user.                            *)
ReleaseBoard(i) ==
    /\ chr[i].pc = "open"
    /\ \E s \in IF chr[i].streaming THEN {o.s : o \in OpSetCapture(dev, i, FALSE)} ELSE {dev} :
       \E o \in OpRelease(s, i) :
          /\ dev' = o.s
          /\ lnbLost' = (lnbLost \/ LnbWriteFailed(dev, o.s))
    /\ chr' = [chr EXCEPT ![i].pc = "leaving", ![i].streaming = FALSE,
                          ![i].params.system = IF @ \in CableSystems THEN U ELSE @]
    /\ asked' = [asked EXCEPT ![i] = Nothing]
    /\ UNCHANGED <<load, attached, suspect, late>>

ReleaseEnd(i) ==
    /\ chr[i].pc = "leaving"
    /\ chr' = [chr EXCEPT ![i].pc = "closed", ![i].open = FALSE]
    /\ UNCHANGED <<load, attached, dev, ghosts, lnbLost>>

-----------------------------------------------------------------------------
(* ptx_chrdev_tune().                                                      *)

Ioctl(i, cmd) == attached = "probed" /\ chr[i].pc = "open" /\ cmd \in load.uses[i]

(* The number of a channel to its frequency; 0 when the system does not    *)
(* have the channel.                                                       *)
SatKhz(no) ==
    CASE no \in 0..11 -> 1049480 + 38360 * no
      [] no \in 12..23 -> 1613000 + 40000 * (no - 12)
      [] OTHER -> 0
TerrKhz(no) ==
    CASE no \in 3..11 \cup 22..62 -> 93143 + no * 6000
      [] no = 12 -> 95143 + no * 6000
      [] no \in 63..112 -> 95143 + no * 6000
      [] OTHER -> 0
isdbc_channel_to_khz(no) ==
    CASE no \in 12..16 -> 95000 + no * 6000
      [] no \in 0..11 \cup 17..62 -> 93000 + no * 6000
      [] no \in 63..112 -> 95000 + no * 6000
      [] OTHER -> 0

(* The system PTX_SET_CHANNEL tunes: the receiver's, or found by the number*)
ChannelSystem(i, no) ==
    LET cap == SystemCap(family, i)
    IN  CASE chr[i].params.system # U -> chr[i].params.system
          [] chr[i].params.system = U /\ "S" \in cap /\ no < 24 -> "S"
          [] chr[i].params.system = U /\ "T" \in cap /\ no \in 24..112 -> "T"
          [] OTHER -> U

ChannelParams(i, no, slot) ==
    LET p == chr[i].params
        system == ChannelSystem(i, no)
    IN  CASE system = "S" -> [p EXCEPT !.system = "S", !.freq = SatKhz(no), !.stream_id = slot]
          [] system = "T" -> [p EXCEPT !.system = "T", !.freq = TerrKhz(no) + slot, !.stream_id = 0]
          [] OTHER -> [p EXCEPT !.system = "C", !.freq = isdbc_channel_to_khz(no) + slot,
                                !.stream_id = 0, !.tsmf_stream = 0]

HasChannel(i, no) ==
    CASE ChannelSystem(i, no) = "S" -> SatKhz(no) # 0
      [] ChannelSystem(i, no) = "T" -> TerrKhz(no) # 0
      [] ChannelSystem(i, no) = "C" -> isdbc_channel_to_khz(no) # 0
      [] OTHER -> FALSE

(* Waiting for lock: failed checks are repeated until the time is up, and  *)
(* only ISDB-T on PX-MLT gives up early.                                   *)
WaitLock(s, i, system) ==
    {Out(IF o.ret \in {"OK", "ECANCELED"} THEN o.ret ELSE "EAGAIN", o.s) :
        o \in OpCheckLock(s, i, system)}

(* ptx_chrdev_prepare_tsmf(): only ISDB-C goes through the TSMF filter.    *)
PrepareTsmf(c, p) == [c EXCEPT !.params = p, !.tsmf_active = p.system = "C"]

(* The receiver's own steps, as outcomes [ret, s, c, tuned]: the board's   *)
(* and the receiver's state, and whether the board was tuned.  "system" is *)
(* what params.system is put back to, unless it fails before the board.    *)
Outcome(o, c, tuned) == [ret |-> o.ret, s |-> o.s, c |-> c, tuned |-> tuned]
Tuning(i, p, system) ==
    LET c0 == PrepareTsmf(chr[i], p)
        Before == IF SetStreamIdBeforeTune /\ p.system = "S"
                  THEN OpSetStreamId(dev, i, p.system, p.stream_id) ELSE Return("OK", dev)
        Board == UNION {OpTune(o.s, i, p) : o \in {x \in Before : x.ret = "OK"}}
        restored == [c0 EXCEPT !.params.system = system]
        done == [restored EXCEPT !.current_system = p.system]
        After(t) == Then(WaitLock(t, i, p.system), LAMBDA u :
                        IF p.system = "S" /\ ~SetStreamIdBeforeTune
                        THEN OpSetStreamId(u, i, p.system, p.stream_id) ELSE Return("OK", u))
    IN  {Outcome(o, c0, FALSE) : o \in {x \in Before : x.ret # "OK"}}
        \cup {Outcome(o, restored, FALSE) : o \in {x \in Board : x.ret # "OK"}}
        \cup UNION {{Outcome(o, done, TRUE) : o \in After(b.s)} : b \in {x \in Board : x.ret = "OK"}}

(* ptx_chrdev_wait_tsmf(): the header is looked for in the stream itself,  *)
(* so one that is not being captured is captured for the time.             *)
BeginWaitTsmf(i, o) ==
    LET waiting == [o.c EXCEPT !.pc = "tsmf"]
    IN  IF o.ret # "OK" \/ ~o.c.tsmf_active THEN {o}
        ELSE IF o.c.streaming THEN {[o EXCEPT !.c = waiting]}
        ELSE {Outcome(x, IF x.ret = "OK" THEN waiting ELSE o.c, TRUE) : x \in OpSetCapture(o.s, i, TRUE)}

(* A flag that was set for an idle tuner, which will not be stopped.       *)
FlaggedIdle(j, s) ==
    /\ chr[j].open
    /\ dev.tuner[j].system = U
    /\ s.tuner[j].rfin /\ ~dev.tuner[j].rfin

ptx_chrdev_tune(i, p, system, khz) ==
    \E b \in Tuning(i, p, system) : \E o \in BeginWaitTsmf(i, b) :
        /\ dev' = o.s
        /\ chr' = [chr EXCEPT ![i] = o.c]
        /\ asked' = [asked EXCEPT ![i] =
              IF b.tuned THEN [system |-> p.system, khz |-> khz,
                               id |-> IF b.ret = "OK" THEN p.stream_id ELSE NoId]
              ELSE Nothing]
        /\ suspect' = [suspect EXCEPT ![i] = IF b.s.faults < dev.faults \/ dev.gone THEN "yes" ELSE @]
        /\ late' = [j \in Rx(family) |->
              (late[j] \/ FlaggedIdle(j, o.s)) /\ ~(j = i /\ b.tuned)]
        /\ UNCHANGED <<load, attached, lnbLost>>

WaitTsmfEnd(i) ==
    /\ chr[i].pc = "tsmf"
    /\ IF chr[i].streaming THEN UNCHANGED dev
       ELSE \E o \in OpSetCapture(dev, i, FALSE) : dev' = o.s
    /\ chr' = [chr EXCEPT ![i].pc = "open"]
    /\ UNCHANGED <<load, attached, ghosts, lnbLost>>

-----------------------------------------------------------------------------
(* ptx_chrdev_unlocked_ioctl().                                            *)

(* The frequency of a channel as the broadcasting standards define it:     *)
(* BS and CS 110 behind the converter's 10.678 GHz, UHF 13-62, CATV C13-63;*)
(* ISDB-T lies 1/7 MHz above the channel's centre.                         *)
CentreKhz(no) ==
    CASE no >= 63 -> 473000 + 6000 * (no - 63)               \* UHF 13 and up
      [] no \in 22..62 -> 225000 + 6000 * (no - 22)          \* C23-C63
      [] no \in 17..21 -> 195000 + 6000 * (no - 17)          \* VHF 8-12
      [] no \in 13..16 -> 173000 + 6000 * (no - 13)          \* VHF 4-7
      [] no = 12 -> 167000                                   \* C22
      [] no \in 3..11 -> 111000 + 6000 * (no - 3)            \* C13-C21
      [] OTHER -> 93000 + 6000 * no                          \* VHF 1-3
StandardKhz(system, no) ==
    CASE system = "S" /\ no < 12 -> 11727480 + 19180 * (2 * no) - 10678000
      [] system = "S" /\ no >= 12 -> 12291000 + 20000 * (2 * (no - 12)) - 10678000
      [] system = "T" -> CentreKhz(no) + 143
      [] OTHER -> CentreKhz(no)

SetChannel(i) ==
    /\ Ioctl(i, "SET_CHANNEL")
    /\ \E no \in load.channels, slot \in load.slots :
          /\ HasChannel(i, no)
          /\ LET p == ChannelParams(i, no, slot)
             IN  ptx_chrdev_tune(i, p, chr[i].params.system,
                     StandardKhz(p.system, no) + IF p.system = "S" THEN 0 ELSE slot)

(* PTX_SET_SYSTEM_MODE: systems the receiver has; it cannot be unset.      *)
SetSystemMode(i) ==
    /\ Ioctl(i, "SET_SYSTEM_MODE")
    /\ \E m \in SystemCap(family, i) \cap {"T", "S", "C"} :
          chr' = [chr EXCEPT ![i].params.system = m]
    /\ UNCHANGED <<load, attached, dev, ghosts, lnbLost>>

(* PTXT_SET_PARAMS: cable systems by frequency.                            *)
SetParams(i) ==
    /\ Ioctl(i, "SET_PARAMS")
    /\ \E c \in load.cable :
          /\ c[1] \in SystemCap(family, i) \cap CableSystems
          /\ chr' = [chr EXCEPT ![i].params = [system |-> c[1], freq |-> c[2],
                                                stream_id |-> 0, tsmf_stream |-> c[3]]]
    /\ UNCHANGED <<load, attached, dev, ghosts, lnbLost>>

(* PTXT_TUNE: the parameters as they are, whichever ioctl left them.       *)
TuneParams(i) ==
    /\ Ioctl(i, "TUNE")
    /\ ptx_chrdev_tune(i, chr[i].params, chr[i].params.system, chr[i].params.freq)

StartStreaming(i) ==
    /\ Ioctl(i, "STREAMING")
    /\ ~chr[i].streaming
    /\ \E o \in OpSetCapture(dev, i, TRUE) :
          /\ dev' = o.s
          /\ chr' = [chr EXCEPT ![i].streaming = o.ret = "OK"]
    /\ UNCHANGED <<load, attached, ghosts, lnbLost>>

StopStreaming(i) ==
    /\ Ioctl(i, "STREAMING")
    /\ chr[i].streaming
    /\ \E o \in OpSetCapture(dev, i, FALSE) :
          /\ dev' = o.s
          /\ chr' = [chr EXCEPT ![i].streaming = o.ret # "OK"]
    /\ UNCHANGED <<load, attached, ghosts, lnbLost>>

(* PTX_ENABLE_LNB_POWER (0, 11 and 15 V) and PTX_DISABLE_LNB_POWER.        *)
LnbPower(i) ==
    /\ Ioctl(i, "LNB_POWER")
    /\ HasLnb(family, i)
    /\ \E v \in {0, 11, 15} : \E o \in SetLnb(dev, i, v) :
          /\ dev' = o.s
          /\ lnbLost' = (lnbLost \/ o.ret = "EIO")
    /\ UNCHANGED <<load, attached, chr, ghosts>>

(* The status ioctls: C/N, lock, TMCC partial reception and TS id list.    *)
GetCnr(i) ==
    /\ Ioctl(i, "STATUS")
    /\ \E o \in OpReadCnr(dev, i) : dev' = o.s
    /\ UNCHANGED <<load, attached, chr, ghosts, lnbLost>>

GetStatus(i) ==
    /\ Ioctl(i, "STATUS")
    /\ chr[i].current_system # U
    /\ \E o \in OpCheckLock(dev, i, chr[i].current_system)
            \cup (IF family # "px4" THEN {}
                  ELSE IF Cap(i) = "T" THEN px4_chrdev_read_tmcc_partial_reception_t(dev)
                  ELSE px4_chrdev_read_tmcc_tsid_list_s(dev, Tsids)) : dev' = o.s
    /\ UNCHANGED <<load, attached, chr, ghosts, lnbLost>>

Next ==
    \/ Probe \/ Unplug \/ Disconnect \/ Reattach \/ CardPower
    \/ \E i \in DOMAIN load.uses :
          \/ OpenBegin(i) \/ OpenBoard(i) \/ ReleaseBoard(i) \/ ReleaseEnd(i)
          \/ SetChannel(i) \/ SetSystemMode(i) \/ SetParams(i) \/ TuneParams(i)
          \/ WaitTsmfEnd(i) \/ StartStreaming(i) \/ StopStreaming(i)
          \/ LnbPower(i) \/ GetCnr(i) \/ GetStatus(i)

Spec == Init /\ [][Next]_vars

-----------------------------------------------------------------------------
(* Properties.                                                             *)

Near(pll, target) ==
    /\ pll.ends
    /\ Oscillator(pll) - target * pll.div \in -(pll.xtal \div 64)..(pll.xtal \div 64)

IsSetting(v) == v \notin {Unset, Mixed}

(* The boards with a TC90522: demodulator half awake with its tables and   *)
(* gain control, synthesiser on the channel.                               *)
TcTerrestrial(r, khz) ==
    /\ r.t_init = IF family = "s1ur" THEN "isdb2056" ELSE family
    /\ r.t_sleep = "off" /\ r.t_agc = "on" /\ r.t_mode = "tuned"
    /\ IsSetting(r.t_pll) /\ Near(r.t_pll.pll, khz - IfFreq)
    /\ family \in {"isdb2056", "s1ur"} => r.route = "T" /\ r.t_out = "T" /\ r.s_sleep = "on"
    /\ family = "px4" => r.t_out = "px4"

TcSatellite(r, khz, id) ==
    /\ r.s_init = family
    /\ r.s_sleep = "off" /\ r.s_agc = "on" /\ r.s_mode = "tuned" /\ r.s_tuner = "on"
    /\ IsSetting(r.s_pll) /\ Near(r.s_pll, khz)
    /\ IsSetting(r.s_band)
    /\ id >= 12 => r.s_tsid = id
    /\ id \in 0..11 => r.s_tsid \in Tsids
    /\ family = "isdb2056" => r.route = "S" /\ r.t_out = "S" /\ r.s_out = "S" /\ r.t_sleep = "on"

(* PX-MLT: demodulator and tuner on the same system, TS output running.    *)
MltTuned(i, system, khz, id) ==
    LET r == dev.reg[i]
        sound == suspect[i] # "yes"
        demodulator ==
            /\ r.out = "on" /\ r.pins = "on" /\ r.clock = system
            /\ r.analog = IF system = "S" THEN "sat" ELSE "terr"
            /\ r.bank = IF system \in CableSystems THEN "cable" ELSE "bcast"
            /\ system # "S" => r.band = system
    IN  /\ dev.demod[i] = [state |-> "ACTIVE", system |-> system, incomplete |-> FALSE]
        /\ r.mute = "off"
        /\ sound \/ system \notin CableSystems => demodulator
        /\ IF system = "S"
           THEN /\ r.mode = "S" /\ r.lna = "sat"
                /\ r.sat = (khz + 2) \div 4
                /\ id # NoId => r.slot = id
           ELSE /\ r.mode = "T" /\ r.ter = "on"
                /\ r.tune = <<system, khz>>
                /\ sound => r.lna = "ter"

(* A tune that returned success left the receiver's chips set for what was *)
(* asked for, as the broadcasting standards define it, and nothing since   *)
(* then (other receivers, status ioctls, streaming, failing accesses) has  *)
(* disturbed it, whatever was received and whatever failed before the tune.*)
(* Two exceptions, both for a PX-MLT receiver on which a tune failed since *)
(* it was opened: a failed ISDB-S tune may leave the tuner's amplifier on  *)
(* the satellite input (cxd2858er_set_params_s), and a stop of a cable     *)
(* system that fails half-way is not marked incomplete, so that tuning to  *)
(* that system again leaves its TS output stopped (cxd2856er_sleep).       *)
TunedAsAsked ==
    attached = "probed" /\ ~dev.gone =>
        \A i \in Rx(family) :
            LET a == asked[i]
            IN  CASE a.system = U -> TRUE
                  [] a.system # U /\ family = "mlt" -> MltTuned(i, a.system, a.khz, a.id)
                  [] a.system = "T" /\ family # "mlt" -> TcTerrestrial(dev.reg[i], a.khz)
                  [] OTHER -> TcSatellite(dev.reg[i], a.khz, a.id)

(* What ISDB-C and J.83B set in a PX-MLT demodulator and the other systems *)
(* take for granted is never left behind, even when accesses fail while    *)
(* switching (cable_wakeup_incomplete and cxd2856er_sleep's error path).   *)
CableConfig(system) ==
    [a3 |-> IF system \in CableSystems THEN "cable" ELSE "default",
     qam |-> IF system \in CableSystems THEN system ELSE "default",
     fec |-> IF system = "C" THEN "C" ELSE "default",
     j83b |-> IF system = "J" THEN "J" ELSE "default"]
NoCableResidue ==
    family = "mlt" =>
        \A i \in Rx(family) :
            LET d == dev.demod[i]
                complete == ~d.incomplete /\ (d.system \in CableSystems => suspect[i] # "yes")
            IN  chr[i].pc \in {"open", "tsmf"} /\ d.state = "ACTIVE" /\ complete =>
                    \A x \in CableRegs : dev.reg[i][x] = CableConfig(d.system)[x]

(* While a PX-MLT receiver is tuned to a cable channel, every tuner that   *)
(* nobody has open stands by with its RF input matched, so that the shared *)
(* antenna line is not disturbed (pxmlt_chrdev_tune's loop), provided that *)
(* no access failed.  The exception is the one the next property is about. *)
Untroubled == dev.faults = load.faults /\ ~dev.gone
CableInUse == \E i \in Rx(family) : asked[i].system \in CableSystems
StandsByMatched(j) == dev.reg[j].rfin = TRUE /\ dev.reg[j].ter = "standby"
NeighboursMatched ==
    family = "mlt" /\ CableInUse /\ Untroubled =>
        \A j \in Rx(family) : chr[j].open \/ late[j] \/ StandsByMatched(j)

(* The same without exception, as the comment in pxmlt_chrdev_tune has it: *)
(* a tuner that was open then gets the setting when it next stands by.     *)
AllNeighboursMatched ==
    family = "mlt" /\ CableInUse /\ Untroubled =>
        \A j \in Rx(family) : chr[j].open \/ StandsByMatched(j)

(* Reception over USB runs exactly while some receiver captures, and the   *)
(* count the boards keep is exact, however starts and stops fail and       *)
(* whichever of them finds the device gone.                                *)
Capturing(i) == chr[i].streaming \/ chr[i].pc = "tsmf"
CaptureExact ==
    LET capturing == {i \in Rx(family) : Capturing(i)}
    IN  /\ dev.bus <=> capturing # {}
        /\ family \in {"px4", "mlt"} => dev.streaming_count = Cardinality(capturing)

(* The LNB supply is on while some receiver wants it, and off once none    *)
(* does unless the write that switches it off failed; a receiver that is   *)
(* closed wants it no more.                                                *)
LnbExact ==
    LET wanted == {i \in Rx(family) : dev.lnb[i]}
    IN  attached = "probed" =>
            /\ dev.lnb_power_count = Cardinality(wanted)
            /\ wanted # {} => dev.level[LnbGpio]
            /\ wanted = {} /\ dev.level[LnbGpio] => lnbLost
            /\ \A i \in wanted : chr[i].pc \in {"open", "tsmf"}

(* The bridge passes null packets on exactly for a receiver that is tuned  *)
(* to ISDB-C, whose TSMF frames count them, unless a tune of the receiver  *)
(* failed: the driver then may be wrong about what the bridge does.        *)
NullFilterRight ==
    family = "mlt" =>
        \A i \in Rx(family) :
            asked[i].system # U /\ suspect[i] = "no" =>
                dev.filter[i] = IF asked[i].system = "C" THEN "pass" ELSE "block"

=============================================================================
