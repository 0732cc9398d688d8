---------------------------- MODULE ItedtvBusProofs ----------------------------
(***************************************************************************)
(* The USB stream of ItedtvBus for any number of URBs and of receivers.    *)
(* The build with the workqueue, off by default, is proved about while its *)
(* transfers and submissions do not fail.                                  *)
(***************************************************************************)
EXTENDS ItedtvBus, TLAPS

Followed == ~(build.workqueue /\ build.usbFails)

UrbPlaces == {"idle", "flying", "queued", "handler", "check", "submit"}

(* A start has come to its submissions and no stop to its end.             *)
Active ==
    \/ ctl.pc \in {"submit", "unwind", "stop", "kill", "clean"}
    \/ ctl.pc = "flush" /\ ctl.to = "kill"
    \/ ctl.pc = "ready" /\ capturing # {}

(* usb_kill_urb() has returned for u and it cannot come back: without the  *)
(* workqueue its handler has ended; a queued work does not submit it.      *)
Killed(u) == IF build.workqueue THEN urb[u] \notin {"flying", "submit"} ELSE urb[u] = "idle"

TypeInv ==
    /\ handler \in BOOLEAN /\ streaming \in BOOLEAN /\ works \in BOOLEAN
    /\ urb \in [Urbs -> UrbPlaces]
    /\ killing \in 0..NumUrbs

(* The thread in start_capture or stop_capture.                            *)
CtlInv ==
    /\ ctl.pc \in {"ready", "purge", "setup", "submit", "unwind", "fail", "flush",
                   "destroy", "stop", "kill", "clean"}
    /\ ctl.pc = "ready" => ctl = Ready
    /\ ctl.pc = "submit" =>
          /\ ctl = [pc |-> "submit", rx |-> ctl.rx, next |-> ctl.next]
          /\ ctl.next \in 1..(NumUrbs + 1)
    /\ ctl.pc \in {"unwind", "kill"} =>
          /\ ctl = [pc |-> ctl.pc, rx |-> ctl.rx, next |-> ctl.next, last |-> ctl.last]
          /\ ctl.last \in 0..NumUrbs
          /\ ctl.next \in 1..(ctl.last + 1)
    /\ ctl.pc = "kill" => ctl.last = NumUrbs
    /\ ctl.pc # "ready" => capturing = {}

(* Only usb_kill_urb() refuses a submission.                               *)
KillInv ==
    killing # 0 => /\ ctl.pc \in {"unwind", "kill"}
                   /\ killing = ctl.next /\ ctl.next <= ctl.last

(* The handler and the URBs are there while the stream is active, and no   *)
(* URB is out otherwise.                                                   *)
ActiveInv ==
    /\ Active => works /\ handler
    /\ ~Active => \A u \in Urbs : urb[u] = "idle"

(* ctx->streaming, as the completion handler reads it.                     *)
StreamingInv ==
    /\ ctl.pc = "submit" \/ (ctl.pc = "ready" /\ capturing # {}) => streaming
    /\ ctl.pc \in {"flush", "kill", "clean"} => ~streaming

(* How far the loops over the URBs have come.                              *)
LoopInv ==
    /\ ctl.pc = "submit" => \A u \in Urbs : u >= ctl.next => urb[u] = "idle"
    /\ ctl.pc = "unwind" => /\ ~build.workqueue
                            /\ \A u \in Urbs : u < ctl.next \/ u > ctl.last => urb[u] = "idle"
    /\ ctl.pc = "kill" => \A u \in Urbs : /\ u < ctl.next => Killed(u)
                                          /\ build.workqueue => urb[u] # "submit"
    /\ ctl.pc = "clean" => \A u \in Urbs : Killed(u)

(* Without a failing transfer every submitted URB stays under way.         *)
FullInv ==
    ~build.usbFails =>
        /\ ctl.pc = "submit" => \A u \in Urbs : u < ctl.next => urb[u] # "idle"
        /\ ctl.pc = "ready" /\ capturing # {} => \A u \in Urbs : urb[u] # "idle"

Parts == /\ TypeInv /\ CtlInv /\ KillInv /\ ActiveInv /\ StreamingInv
         /\ LoopInv /\ FullInv
IInv == Followed => Parts

-----------------------------------------------------------------------------
(* The initial states satisfy the invariant, whatever the build.           *)
LEMMA InitInv == Init => IInv
<1> SUFFICES ASSUME Init PROVE Parts
  BY DEF IInv
<1>1. ctl.pc = "ready" /\ ctl = Ready /\ capturing = {}
  BY DEF Init, Ready
<1>2. ~Active
  BY <1>1 DEF Active
<1>3. TypeInv
  <2>1. killing \in 0..NumUrbs
    BY UrbAssumption DEF Init
  <2> QED
    BY <2>1 DEF Init, TypeInv, UrbPlaces
<1>4. CtlInv /\ KillInv /\ StreamingInv /\ LoopInv /\ FullInv
  BY <1>1 DEF Init, CtlInv, KillInv, StreamingInv, LoopInv, FullInv
<1>5. ActiveInv
  BY <1>2 DEF Init, ActiveInv
<1> QED
  BY <1>3, <1>4, <1>5 DEF Parts

-----------------------------------------------------------------------------
(* A step of the completion handler, or of the host controller, moves one  *)
(* URB that is out and nothing else; it comes back to the host controller  *)
(* only from the resubmission, which needs ctx->streaming.                 *)
UrbMove(u, to) ==
    /\ urb[u] # "idle" /\ to \in UrbPlaces
    /\ Move(u, to)
    /\ to = "flying" => urb[u] = "submit" /\ killing # u
    /\ to = "submit" => streaming
    /\ to = "idle" /\ ~build.usbFails => ~streaming \/ killing = u
    /\ UNCHANGED <<capturing, handler, streaming, works, killing, ctl, build>>

(* Each step of a callback is such a move.                                 *)
LEMMA CallbackMoves ==
    ASSUME NEW u \in Urbs, UNCHANGED build, Complete(u) \/ CompleteError(u) \/ Callback(u)
    PROVE  \E to \in UrbPlaces : UrbMove(u, to)
<1>1. CASE Complete(u)
  <2>1. \E to \in {"queued", "handler", "check"} : Move(u, to)
    BY <1>1 DEF Complete
  <2> QED
    BY <1>1, <2>1 DEF Complete, UrbMove, UrbPlaces
<1>2. CASE CompleteError(u)
  BY <1>2 DEF CompleteError, UrbMove, UrbPlaces
<1>3. CASE RunWork(u)
  BY <1>3 DEF RunWork, UrbMove, UrbPlaces
<1>4. CASE CallHandler(u)
  BY <1>4 DEF CallHandler, UrbMove, UrbPlaces
<1>5. CASE CheckStreaming(u)
  <2>1. CASE streaming
    BY <1>5, <2>1 DEF CheckStreaming, UrbMove, UrbPlaces
  <2>2. CASE ~streaming
    BY <1>5, <2>2 DEF CheckStreaming, UrbMove, UrbPlaces
  <2> QED
    BY <2>1, <2>2
<1>6. CASE Resubmit(u)
  BY <1>6 DEF Resubmit, UrbMove, UrbPlaces
<1> QED
  BY <1>1, <1>2, <1>3, <1>4, <1>5, <1>6 DEF Callback

(* Callbacks keep the invariant wherever the control thread stands.        *)
LEMMA UrbMoveKeeps ==
    ASSUME Parts, Followed, NEW u \in Urbs, NEW to \in UrbPlaces, UrbMove(u, to)
    PROVE  Parts'
<1>1. /\ urb' \in [Urbs -> UrbPlaces]
      /\ \A v \in Urbs : urb'[v] = IF v = u THEN to ELSE urb[v]
  BY DEF UrbMove, Move, Parts, TypeInv
<1>2. UNCHANGED <<capturing, handler, streaming, works, killing, ctl, build>>
  BY DEF UrbMove
<1>3. TypeInv' /\ CtlInv' /\ KillInv' /\ StreamingInv'
  BY <1>1, <1>2 DEF Parts, TypeInv, CtlInv, KillInv, StreamingInv
<1>4. ActiveInv'
  <2>1. Active
    BY DEF UrbMove, Parts, ActiveInv
  <2>2. Active' <=> Active
    BY <1>2 DEF Active
  <2> QED
    BY <1>2, <2>1, <2>2 DEF Parts, ActiveInv
<1>5. LoopInv'
  <2>1. ctl.pc = "submit" => ~(u >= ctl.next)
    BY DEF UrbMove, Parts, LoopInv
  <2>2. ctl.pc = "unwind" => ~(u < ctl.next \/ u > ctl.last)
    BY DEF UrbMove, Parts, LoopInv
  <2>3. ctl.pc = "kill" => /\ (u < ctl.next => Killed(u)')
                           /\ build.workqueue => to # "submit"
    BY <1>1, <1>2 DEF UrbMove, Parts, LoopInv, StreamingInv, Killed
  <2>4. ctl.pc = "clean" => Killed(u)'
    BY <1>1, <1>2 DEF UrbMove, Parts, LoopInv, StreamingInv, Killed
  <2>5. \A v \in Urbs : v # u => urb'[v] = urb[v] /\ (Killed(v)' <=> Killed(v))
    BY <1>1, <1>2 DEF Killed
  <2>6. ctl.pc = "kill" => \A v \in Urbs : /\ v < ctl.next => Killed(v)'
                                           /\ build.workqueue => urb'[v] # "submit"
    BY <1>1, <2>3, <2>5 DEF Parts, LoopInv
  <2>7. ctl.pc = "clean" => \A v \in Urbs : Killed(v)'
    BY <2>4, <2>5 DEF Parts, LoopInv
  <2>8. /\ ctl.pc = "submit" => \A v \in Urbs : v >= ctl.next => urb'[v] = "idle"
        /\ ctl.pc = "unwind" => /\ ~build.workqueue
                                /\ \A v \in Urbs : v < ctl.next \/ v > ctl.last => urb'[v] = "idle"
    BY <2>1, <2>2, <2>5 DEF Parts, LoopInv
  <2> QED
    BY <1>2, <2>6, <2>7, <2>8 DEF LoopInv
<1>6. FullInv'
  <2> SUFFICES ASSUME ~build.usbFails, ctl.pc = "submit" \/ (ctl.pc = "ready" /\ capturing # {})
               PROVE  urb'[u] # "idle"
    BY <1>1, <1>2 DEF Parts, FullInv
  <2>1. streaming /\ killing = 0
    BY DEF Parts, StreamingInv, KillInv
  <2>2. killing # u
    BY <2>1 DEF Urbs
  <2> QED
    BY <1>1, <2>1, <2>2 DEF UrbMove
<1> QED
  BY <1>3, <1>4, <1>5, <1>6 DEF Parts

-----------------------------------------------------------------------------
(* start_capture and stop_capture up to and after the loops over the URBs. *)
LEMMA StartKeeps ==
    ASSUME Parts, Followed, UNCHANGED build, NEW x, StartCapture(x) \/ Purge
    PROVE  Parts'
<1>1. UNCHANGED <<handler, streaming, works, urb, killing, build>>
  BY DEF StartCapture, Purge
<1>2. CASE Purge \/ capturing = {}
  <2>1. /\ ctl'.pc \in {"ready", "purge", "setup"} /\ (ctl'.pc = "ready" => ctl' = Ready)
        /\ ctl.pc = "purge" \/ ctl.pc = "ready"
        /\ capturing' = {} /\ capturing = {}
    BY <1>2 DEF StartCapture, Purge, Ready, Parts, CtlInv
  <2>2. ~Active /\ ~Active'
    BY <2>1 DEF Active
  <2>3. TypeInv' /\ CtlInv' /\ StreamingInv' /\ LoopInv' /\ FullInv'
    BY <1>1, <2>1 DEF Parts, TypeInv, CtlInv, StreamingInv, LoopInv, FullInv
  <2>4. KillInv' /\ ActiveInv'
    BY <1>1, <2>1, <2>2 DEF Parts, KillInv, ActiveInv
  <2> QED
    BY <2>3, <2>4 DEF Parts
<1>3. CASE ~Purge /\ capturing # {}
  <2>1. ctl' = ctl /\ ctl = Ready /\ ctl.pc = "ready" /\ capturing' # {}
    BY <1>3 DEF StartCapture, Ready
  <2>2. Active /\ Active'
    BY <1>3, <2>1 DEF Active
  <2>3. TypeInv' /\ CtlInv' /\ StreamingInv' /\ LoopInv' /\ FullInv'
    BY <1>1, <1>3, <2>1 DEF Parts, TypeInv, CtlInv, StreamingInv, LoopInv, FullInv
  <2>4. KillInv' /\ ActiveInv'
    BY <1>1, <2>1, <2>2 DEF Parts, KillInv, ActiveInv
  <2> QED
    BY <2>3, <2>4 DEF Parts
<1> QED
  BY <1>2, <1>3

(* itedtv_usb_start_streaming(), before it submits.                        *)
LEMMA SetupKeeps ==
    ASSUME Parts, Followed, UNCHANGED build, Setup
    PROVE  Parts'
<1>1. /\ UNCHANGED <<capturing, urb, killing, build>> /\ ctl.pc = "setup"
      /\ handler' = TRUE
  BY DEF Setup
<1>2. killing = 0 /\ capturing = {} /\ ~Active
  BY <1>1 DEF Parts, KillInv, CtlInv, Active
<1>3. \A u \in Urbs : urb[u] = "idle"
  BY <1>2 DEF Parts, ActiveInv
<1>4. CASE /\ works' = TRUE /\ streaming' = TRUE
           /\ ctl' = [pc |-> "submit", rx |-> ctl.rx, next |-> 1]
  <2>1. TypeInv'
    BY <1>1, <1>4 DEF Parts, TypeInv
  <2>2. CtlInv'
    BY <1>1, <1>2, <1>4, UrbAssumption DEF CtlInv
  <2>3. KillInv' /\ ActiveInv' /\ StreamingInv'
    BY <1>1, <1>2, <1>3, <1>4 DEF KillInv, ActiveInv, Active, StreamingInv
  <2>4. LoopInv'
    BY <1>1, <1>3, <1>4 DEF LoopInv
  <2>5. FullInv'
    BY <1>1, <1>3, <1>4 DEF FullInv, Urbs
  <2> QED
    BY <2>1, <2>2, <2>3, <2>4, <2>5 DEF Parts
<1>5. CASE /\ works' \in {works, TRUE} /\ streaming' = streaming
           /\ ctl' = [pc |-> "fail", rx |-> ctl.rx]
  <2>0. ctl'.pc = "fail"
    BY <1>5
  <2>1. TypeInv'
    BY <1>1, <1>5 DEF Parts, TypeInv
  <2>2. CtlInv' /\ KillInv' /\ StreamingInv' /\ LoopInv' /\ FullInv'
    BY <1>1, <1>2, <2>0 DEF CtlInv, KillInv, StreamingInv, LoopInv, FullInv
  <2>3. ActiveInv'
    BY <1>1, <1>3, <2>0 DEF ActiveInv, Active
  <2> QED
    BY <2>1, <2>2, <2>3 DEF Parts
<1> QED
  BY <1>4, <1>5 DEF Setup

(* The loop that submits the URBs, and the failure of one submission.      *)
LEMMA SubmitKeeps ==
    ASSUME Parts, Followed, UNCHANGED build, Submit
    PROVE  Parts'
<1>1. /\ UNCHANGED <<handler, streaming, works, killing, build>> /\ ctl.pc = "submit"
      /\ ctl = [pc |-> "submit", rx |-> ctl.rx, next |-> ctl.next]
      /\ ctl.next \in 1..(NumUrbs + 1)
      /\ killing = 0 /\ capturing = {} /\ streaming /\ works /\ handler
      /\ \A u \in Urbs : u >= ctl.next => urb[u] = "idle"
      /\ ~build.usbFails => \A u \in Urbs : u < ctl.next => urb[u] # "idle"
  BY DEF Submit, Parts, KillInv, CtlInv, Active, ActiveInv, StreamingInv, LoopInv, FullInv
<1>2. CASE /\ ctl.next <= NumUrbs
           /\ Move(ctl.next, "flying")
           /\ ctl' = [ctl EXCEPT !.next = @ + 1]
           /\ UNCHANGED capturing
  <2>0. PICK n \in Urbs : n = ctl.next
    BY <1>1, <1>2, UrbAssumption DEF Urbs
  <2>1. ctl' = [pc |-> "submit", rx |-> ctl.rx, next |-> n + 1]
    BY <1>1, <1>2, <2>0
  <2>2. /\ urb' \in [Urbs -> UrbPlaces]
        /\ \A u \in Urbs : urb'[u] = IF u = n THEN "flying" ELSE urb[u]
    BY <1>2, <2>0 DEF Move, Parts, TypeInv, UrbPlaces
  <2>3. TypeInv'
    BY <1>1, <2>2 DEF Parts, TypeInv
  <2>4. CtlInv'
    <3>1. n + 1 \in 1..(NumUrbs + 1)
      BY UrbAssumption DEF Urbs
    <3> QED
      BY <1>1, <1>2, <2>1, <3>1 DEF CtlInv
  <2>5. KillInv' /\ ActiveInv' /\ StreamingInv'
    BY <1>1, <2>1 DEF KillInv, ActiveInv, Active, StreamingInv
  <2>6. \A u \in Urbs : /\ u >= n + 1 => u # n /\ u >= n
                        /\ u < n + 1 => u = n \/ u < n
    BY UrbAssumption DEF Urbs
  <2>7. LoopInv'
    BY <1>1, <2>0, <2>1, <2>2, <2>6 DEF LoopInv
  <2>8. FullInv'
    BY <1>1, <2>0, <2>1, <2>2, <2>6 DEF FullInv
  <2> QED
    BY <2>3, <2>4, <2>5, <2>7, <2>8 DEF Parts
<1>3. CASE /\ ctl.next <= NumUrbs /\ build.usbFails
           /\ ctl' = [pc |-> "unwind", rx |-> ctl.rx, next |-> 1, last |-> ctl.next - 1]
           /\ UNCHANGED <<capturing, urb>>
  <2>1. TypeInv'
    BY <1>1, <1>3 DEF Parts, TypeInv
  <2>2. CtlInv'
    <3>1. ctl.next - 1 \in 0..NumUrbs /\ 1 \in 1..((ctl.next - 1) + 1)
      BY <1>1, UrbAssumption
    <3> QED
      BY <1>1, <1>3, <3>1 DEF CtlInv
  <2>3. KillInv' /\ ActiveInv' /\ StreamingInv' /\ FullInv'
    BY <1>1, <1>3 DEF KillInv, ActiveInv, Active, StreamingInv, FullInv
  <2>4. LoopInv'
    <3>1. \A u \in Urbs : ~(u < 1) /\ (u > ctl.next - 1 => u >= ctl.next)
      BY <1>1, UrbAssumption DEF Urbs
    <3>2. ~build.workqueue
      BY <1>3 DEF Followed
    <3> QED
      BY <1>1, <1>3, <3>1, <3>2 DEF LoopInv
  <2> QED
    BY <2>1, <2>2, <2>3, <2>4 DEF Parts
<1>4. CASE /\ ctl.next = NumUrbs + 1
           /\ capturing' = capturing \cup {ctl.rx}
           /\ ctl' = Ready
           /\ UNCHANGED urb
  <2>0. ctl'.pc = "ready" /\ capturing' # {}
    BY <1>4 DEF Ready
  <2>1. TypeInv'
    BY <1>1, <1>4 DEF Parts, TypeInv
  <2>2. CtlInv' /\ KillInv' /\ StreamingInv' /\ LoopInv'
    BY <1>1, <1>4, <2>0 DEF CtlInv, KillInv, StreamingInv, LoopInv
  <2>3. ActiveInv'
    BY <1>1, <2>0 DEF ActiveInv, Active
  <2>4. FullInv'
    <3>1. \A u \in Urbs : u < ctl.next
      BY <1>4, UrbAssumption DEF Urbs
    <3> QED
      BY <1>1, <1>4, <2>0, <3>1 DEF FullInv
  <2> QED
    BY <2>1, <2>2, <2>3, <2>4 DEF Parts
<1> QED
  BY <1>2, <1>3, <1>4 DEF Submit

-----------------------------------------------------------------------------
(* The loops that kill the URBs: after a failed submission those that were *)
(* submitted, when the stream stops all of them.                           *)
LEMMA KillKeeps ==
    ASSUME Parts, Followed, UNCHANGED build, Unwind \/ KillAll
    PROVE  Parts'
<1>1. /\ UNCHANGED <<capturing, handler, streaming, works, urb, build>>
      /\ ctl.pc = "unwind" \/ ctl.pc = "kill"
  BY DEF Unwind, KillAll
<1>2. /\ ctl = [pc |-> ctl.pc, rx |-> ctl.rx, next |-> ctl.next, last |-> ctl.last]
      /\ ctl.last \in 0..NumUrbs
      /\ ctl.next \in 1..(ctl.last + 1)
      /\ ctl.pc = "kill" => ctl.last = NumUrbs
      /\ capturing = {}
  BY <1>1 DEF Parts, CtlInv
<1>3. works /\ handler /\ (ctl.pc = "kill" => ~streaming)
  BY <1>1 DEF Parts, ActiveInv, Active, StreamingInv
<1>4. PICK n \in Nat, m \in Nat :
        n = ctl.next /\ m = ctl.last /\ n \in 1..(m + 1) /\ m <= NumUrbs /\ m + 1 \in Nat
  BY <1>2, UrbAssumption
<1>5. CASE killing = 0 /\ ctl.next > ctl.last /\ UNCHANGED killing
           /\ ctl' = [pc |-> IF ctl.pc = "unwind" THEN "fail" ELSE "clean", rx |-> ctl.rx]
  <2>1. /\ \A u \in Urbs : u < n \/ u > m
        /\ \A u \in Urbs : ctl.pc = "kill" => u < n
    <3>1. n = m + 1
      BY <1>4, <1>5
    <3>2. \A u \in Urbs : u < m + 1 \/ u > m
      BY UrbAssumption DEF Urbs
    <3>3. m = NumUrbs => \A u \in Urbs : u < m + 1
      BY UrbAssumption DEF Urbs
    <3> QED
      BY <1>2, <1>4, <3>1, <3>2, <3>3
  <2>2. TypeInv'
    BY <1>1, <1>5 DEF Parts, TypeInv
  <2>3. CASE ctl.pc = "unwind"
    <3>1. \A u \in Urbs : urb[u] = "idle"
      BY <1>4, <2>1, <2>3 DEF Parts, LoopInv
    <3>2. ctl'.pc = "fail"
      BY <1>5, <2>3
    <3>3. CtlInv' /\ KillInv' /\ StreamingInv' /\ LoopInv' /\ FullInv'
      BY <1>1, <1>2, <1>5, <3>2 DEF CtlInv, KillInv, StreamingInv, LoopInv, FullInv
    <3>4. ActiveInv'
      BY <1>1, <3>1, <3>2 DEF ActiveInv, Active
    <3> QED
      BY <2>2, <3>3, <3>4 DEF Parts
  <2>4. CASE ctl.pc = "kill"
    <3>1. \A u \in Urbs : Killed(u)
      BY <1>4, <2>1, <2>4 DEF Parts, LoopInv
    <3>2. ctl'.pc = "clean"
      BY <1>5, <2>4
    <3>3. \A u \in Urbs : Killed(u)'
      BY <1>1, <3>1 DEF Killed
    <3>4. CtlInv' /\ KillInv' /\ StreamingInv' /\ LoopInv' /\ FullInv'
      BY <1>1, <1>2, <1>3, <1>5, <2>4, <3>2, <3>3 DEF CtlInv, KillInv, StreamingInv, LoopInv, FullInv
    <3>5. ActiveInv'
      BY <1>1, <1>3, <3>2 DEF ActiveInv, Active
    <3> QED
      BY <2>2, <3>4, <3>5 DEF Parts
  <2> QED
    BY <1>1, <2>3, <2>4
<1>6. CASE killing = 0 /\ ctl.next <= ctl.last /\ killing' = ctl.next /\ UNCHANGED ctl
  <2>1. killing' \in 0..NumUrbs
    <3>1. n <= m /\ n \in 0..NumUrbs
      BY <1>4, <1>6, UrbAssumption
    <3> QED
      BY <1>4, <1>6, <3>1
  <2>2. TypeInv'
    BY <1>1, <2>1 DEF Parts, TypeInv
  <2>3. CtlInv' /\ KillInv' /\ StreamingInv' /\ FullInv'
    BY <1>1, <1>6 DEF Parts, CtlInv, KillInv, StreamingInv, FullInv
  <2>4. ActiveInv' /\ LoopInv'
    BY <1>1, <1>6 DEF Parts, ActiveInv, Active, LoopInv, Killed
  <2> QED
    BY <2>2, <2>3, <2>4 DEF Parts
<1>7. CASE /\ killing # 0
           /\ urb[killing] = "idle" \/ (build.workqueue /\ urb[killing] # "flying")
           /\ killing' = 0
           /\ ctl' = [ctl EXCEPT !.next = @ + 1]
  <2>1. /\ ctl' = [pc |-> ctl.pc, rx |-> ctl.rx, next |-> n + 1, last |-> ctl.last]
        /\ ctl'.pc = ctl.pc /\ ctl'.next = n + 1 /\ ctl'.last = m
    BY <1>2, <1>4, <1>7
  <2>2. killing = n /\ n <= m /\ n \in Urbs
    <3>1. killing = n /\ n <= m
      BY <1>4, <1>7 DEF Parts, KillInv
    <3>2. n \in Urbs
      BY <1>4, <3>1, UrbAssumption DEF Urbs
    <3> QED
      BY <3>1, <3>2
  <2>3. TypeInv'
    <3>1. killing' \in 0..NumUrbs
      BY <1>7, UrbAssumption
    <3> QED
      BY <1>1, <3>1 DEF Parts, TypeInv
  <2>4. CtlInv'
    <3>1. n + 1 \in 1..(m + 1)
      BY <1>4, <2>2
    <3> QED
      BY <1>1, <1>2, <1>4, <2>1, <3>1 DEF CtlInv
  <2>5. KillInv' /\ ActiveInv' /\ StreamingInv' /\ FullInv'
    BY <1>1, <1>2, <1>3, <1>7, <2>1 DEF KillInv, ActiveInv, Active, StreamingInv, FullInv
  <2>6. LoopInv'
    <3>1. \A u \in Urbs : u < n + 1 => u < n \/ u = n
      BY UrbAssumption DEF Urbs
    <3>2. ctl.pc = "unwind" => urb[n] = "idle"
      BY <1>7, <2>2 DEF Parts, LoopInv
    <3>3. ctl.pc = "kill" => Killed(n)
      BY <1>7, <2>2 DEF Parts, LoopInv, Killed, Followed
    <3>4. ctl.pc = "kill" => \A u \in Urbs : u < n + 1 => Killed(u)
      BY <1>4, <3>1, <3>3 DEF Parts, LoopInv
    <3>5. \A u \in Urbs : Killed(u)' <=> Killed(u)
      BY <1>1 DEF Killed
    <3> QED
      BY <1>1, <1>4, <2>1, <3>1, <3>2, <3>4, <3>5 DEF Parts, LoopInv
  <2> QED
    BY <2>3, <2>4, <2>5, <2>6 DEF Parts
<1> QED
  BY <1>1, <1>5, <1>6, <1>7 DEF Unwind, KillAll, KillStep

(* A failed start: the stream is over before the context is cleaned.       *)
LEMMA FailKeeps ==
    ASSUME Parts, Followed, UNCHANGED build, Fail \/ StartFailed
    PROVE  Parts'
<1>1. UNCHANGED <<capturing, urb, killing, build>> /\ ctl.pc \in {"fail", "destroy"}
  BY DEF Fail, StartFailed
<1>2. killing = 0 /\ capturing = {} /\ ~Active
  BY <1>1 DEF Parts, KillInv, CtlInv, Active
<1>3. \A u \in Urbs : urb[u] = "idle"
  BY <1>2 DEF Parts, ActiveInv
<1>4. CASE Fail
  <2>1. ctl'.pc = "flush" /\ ctl'.to = "destroy" /\ ~streaming'
    BY <1>4 DEF Fail
  <2>2. TypeInv'
    BY <1>1, <1>4 DEF Fail, Parts, TypeInv
  <2>3. CtlInv' /\ KillInv' /\ StreamingInv' /\ LoopInv' /\ FullInv'
    BY <1>1, <1>2, <2>1 DEF CtlInv, KillInv, StreamingInv, LoopInv, FullInv
  <2>4. ActiveInv'
    BY <1>1, <1>3, <2>1 DEF ActiveInv, Active
  <2> QED
    BY <2>2, <2>3, <2>4 DEF Parts
<1>5. CASE StartFailed
  <2>1. ctl'.pc = "ready" /\ ctl' = Ready
    BY <1>5 DEF StartFailed, Ready
  <2>2. TypeInv'
    BY <1>1, <1>5 DEF StartFailed, Parts, TypeInv
  <2>3. CtlInv' /\ KillInv' /\ StreamingInv' /\ LoopInv' /\ FullInv'
    BY <1>1, <1>2, <2>1 DEF CtlInv, KillInv, StreamingInv, LoopInv, FullInv
  <2>4. ActiveInv'
    BY <1>1, <1>2, <1>3, <2>1 DEF ActiveInv, Active
  <2> QED
    BY <2>2, <2>3, <2>4 DEF Parts
<1> QED
  BY <1>4, <1>5

(* flush_workqueue(), on the way to the kills or to the end of a failed    *)
(* start: no work is left that would submit its URB again.                 *)
LEMMA FlushKeeps ==
    ASSUME Parts, Followed, UNCHANGED build, Flush
    PROVE  Parts'
<1>1. /\ UNCHANGED <<capturing, handler, streaming, works, urb, killing, build>>
      /\ ctl.pc = "flush" /\ ~streaming /\ WorkDrained
  BY DEF Flush, Parts, StreamingInv
<1>2. killing = 0 /\ capturing = {}
  BY <1>1 DEF Parts, KillInv, CtlInv
<1>3. TypeInv'
  BY <1>1 DEF Parts, TypeInv
<1>4. CASE ctl.to = "kill"
  <2>1. ctl' = [pc |-> "kill", rx |-> ctl.rx, next |-> 1, last |-> NumUrbs]
    BY <1>4 DEF Flush
  <2>2. CtlInv'
    <3>1. NumUrbs \in 0..NumUrbs /\ 1 \in 1..(NumUrbs + 1)
      BY UrbAssumption
    <3> QED
      BY <1>1, <1>2, <2>1, <3>1 DEF CtlInv
  <2>3. Active /\ Active'
    BY <1>1, <1>4, <2>1 DEF Active
  <2>4. KillInv' /\ ActiveInv' /\ StreamingInv' /\ FullInv'
    BY <1>1, <1>2, <2>1, <2>3 DEF Parts, KillInv, ActiveInv, StreamingInv, FullInv
  <2>5. LoopInv'
    <3>1. \A u \in Urbs : ~(u < 1)
      BY DEF Urbs
    <3> QED
      BY <1>1, <2>1, <3>1 DEF LoopInv, WorkDrained
  <2> QED
    BY <1>3, <2>2, <2>4, <2>5 DEF Parts
<1>5. CASE ctl.to # "kill"
  <2>1. ctl'.pc = "destroy"
    BY <1>5 DEF Flush
  <2>2. ~Active /\ ~Active'
    BY <1>1, <1>5, <2>1 DEF Active
  <2>3. CtlInv' /\ KillInv' /\ StreamingInv' /\ LoopInv' /\ FullInv'
    BY <1>1, <1>2, <2>1 DEF CtlInv, KillInv, StreamingInv, LoopInv, FullInv
  <2>4. ActiveInv'
    BY <1>1, <2>2 DEF Parts, ActiveInv
  <2> QED
    BY <1>3, <2>3, <2>4 DEF Parts
<1> QED
  BY <1>4, <1>5

(* stop_capture: the last receiver stops the stream.                       *)
LEMMA StopKeeps ==
    ASSUME Parts, Followed, UNCHANGED build, NEW x, StopCapture(x) \/ StopStreaming
    PROVE  Parts'
<1>1. UNCHANGED <<handler, works, urb, killing, build>>
  BY DEF StopCapture, StopStreaming
<1>2. CASE StopCapture(x) /\ capturing' # {}
  <2>1. ctl' = Ready /\ ctl = Ready /\ ctl.pc = "ready" /\ ctl'.pc = "ready" /\ capturing # {} /\ streaming' = streaming
    BY <1>2 DEF StopCapture, Ready
  <2>2. TypeInv' /\ CtlInv' /\ KillInv' /\ StreamingInv' /\ LoopInv' /\ FullInv'
    BY <1>1, <1>2, <2>1 DEF Parts, TypeInv, CtlInv, KillInv, StreamingInv, LoopInv, FullInv
  <2>3. ActiveInv'
    BY <1>1, <1>2, <2>1 DEF Parts, ActiveInv, Active
  <2> QED
    BY <2>2, <2>3 DEF Parts
<1>3. CASE StopCapture(x) /\ capturing' = {}
  <2>1. ctl'.pc = "stop" /\ ctl.pc = "ready" /\ capturing # {} /\ streaming' = streaming
    BY <1>3 DEF StopCapture, Ready
  <2>2. TypeInv' /\ CtlInv' /\ KillInv' /\ StreamingInv' /\ LoopInv' /\ FullInv'
    BY <1>1, <1>3, <2>1 DEF Parts, TypeInv, CtlInv, KillInv, StreamingInv, LoopInv, FullInv
  <2>3. ActiveInv'
    BY <1>1, <1>3, <2>1 DEF Parts, ActiveInv, Active
  <2> QED
    BY <2>2, <2>3 DEF Parts
<1>4. CASE StopStreaming
  <2>1. /\ ctl'.pc = "flush" /\ ctl'.to = "kill" /\ ctl.pc = "stop" /\ streaming' = FALSE
        /\ capturing' = capturing
    BY <1>4 DEF StopStreaming
  <2>2. TypeInv' /\ CtlInv' /\ KillInv' /\ StreamingInv' /\ LoopInv' /\ FullInv'
    BY <1>1, <2>1 DEF Parts, TypeInv, CtlInv, KillInv, StreamingInv, LoopInv, FullInv
  <2>3. ActiveInv'
    BY <1>1, <2>1 DEF Parts, ActiveInv, Active
  <2> QED
    BY <2>2, <2>3 DEF Parts
<1> QED
  BY <1>2, <1>3, <1>4

(* itedtv_usb_clean_context() and itedtv_bus_term(): every URB is back.    *)
LEMMA CleanKeeps ==
    ASSUME Parts, Followed, UNCHANGED build, Clean \/ BusTerm
    PROVE  Parts'
<1>1. UNCHANGED <<capturing, streaming, urb, killing, build>>
  BY DEF Clean, BusTerm
<1>2. /\ ctl'.pc = "ready" /\ ctl' = Ready /\ capturing = {} /\ killing = 0
      /\ \A u \in Urbs : urb[u] = "idle"
  <2>1. CASE Clean
    <3>1. ctl.pc = "clean" /\ WorkDrained /\ ctl' = Ready
      BY <2>1 DEF Clean
    <3>2. \A u \in Urbs : urb[u] = "idle"
      BY <3>1 DEF Parts, LoopInv, Killed, WorkDrained
    <3> QED
      BY <3>1, <3>2 DEF Parts, CtlInv, KillInv, Ready
  <2>2. CASE BusTerm
    <3>1. ctl.pc = "ready" /\ ctl' = ctl /\ ctl = Ready /\ capturing = {}
      BY <2>2 DEF BusTerm, Ready
    <3>2. ~Active
      BY <3>1 DEF Active
    <3> QED
      BY <3>1, <3>2 DEF Parts, KillInv, ActiveInv
  <2> QED
    BY <2>1, <2>2
<1>3. TypeInv'
  BY <1>1 DEF Clean, BusTerm, Parts, TypeInv
<1>4. CtlInv' /\ KillInv' /\ StreamingInv' /\ LoopInv' /\ FullInv'
  BY <1>1, <1>2 DEF CtlInv, KillInv, StreamingInv, LoopInv, FullInv
<1>5. ActiveInv'
  BY <1>1, <1>2 DEF ActiveInv, Active
<1> QED
  BY <1>3, <1>4, <1>5 DEF Parts

-----------------------------------------------------------------------------
(* Every step, stuttering included, keeps the invariant.                   *)
LEMMA NextKeeps ==
    ASSUME IInv, [Next]_vars
    PROVE  IInv'
<1>1. CASE UNCHANGED vars
  BY <1>1 DEF vars, IInv, Followed, Parts, TypeInv, CtlInv, KillInv, ActiveInv, Active,
              StreamingInv, LoopInv, Killed, FullInv
<1>2. CASE Next
  <2>1. UNCHANGED build /\ (Followed' <=> Followed)
    BY <1>2 DEF Next, Same, Followed
  <2> SUFFICES ASSUME Followed PROVE Parts'
    BY <2>1 DEF IInv
  <2>2. Parts
    BY DEF IInv
  <2>3. ASSUME NEW u \in Urbs, Complete(u) \/ CompleteError(u) \/ Callback(u)
        PROVE  Parts'
    BY <2>1, <2>2, <2>3, CallbackMoves, UrbMoveKeeps
  <2>4. ASSUME NEW x \in Receivers, StartCapture(x) \/ StopCapture(x)
        PROVE  Parts'
    BY <2>1, <2>2, <2>4, StartKeeps, StopKeeps
  <2>5. CASE Control
    BY <2>1, <2>2, <2>5, StartKeeps, SetupKeeps, SubmitKeeps, KillKeeps, FailKeeps,
       FlushKeeps, StopKeeps, CleanKeeps DEF Control
  <2>6. CASE BusTerm
    BY <2>1, <2>2, <2>6, CleanKeeps
  <2> QED
    BY <1>2, <2>3, <2>4, <2>5, <2>6 DEF Next
<1> QED
  BY <1>1, <1>2

(* The invariant holds in every reachable state.                           *)
THEOREM Invariance == Spec => []IInv
<1>1. Init => IInv
  BY InitInv
<1>2. IInv /\ [Next]_vars => IInv'
  BY NextKeeps
<1> QED
  BY <1>1, <1>2, PTL DEF Spec

(* No URB is out when its buffers are freed, and no completion handler     *)
(* calls a stream handler that itedtv_usb_clean_context() has cleared.     *)
THEOREM CallbacksAreSafe == Spec => [](Followed => CallbacksSafe)
<1>1. IInv => (Followed => CallbacksSafe)
  BY DEF IInv, Parts, ActiveInv, CallbacksSafe
<1> QED
  BY <1>1, Invariance, PTL

(* Nothing is under way on the stream endpoint between two streams: the    *)
(* purge of a start reads it alone.                                        *)
THEOREM QuietBetweenStreams == Spec => [](Followed => QuietUnlessStreaming)
<1>1. IInv => (Followed => QuietUnlessStreaming)
  <2> SUFFICES ASSUME IInv, Followed,
                      (ctl = Ready /\ capturing = {}) \/ ctl.pc \in {"purge", "setup"}
               PROVE  \A u \in Urbs : urb[u] = "idle"
    BY DEF QuietUnlessStreaming
  <2>1. (ctl.pc = "ready" /\ capturing = {}) \/ ctl.pc \in {"purge", "setup"}
    BY DEF Ready
  <2>2. ~Active
    BY <2>1 DEF Active
  <2> QED
    BY <2>2 DEF IInv, Parts, ActiveInv
<1> QED
  BY <1>1, Invariance, PTL

(* In either build a stream without failing transfers keeps all its URBs.  *)
THEOREM UrbsKept == Spec => []NoUrbLost
<1>1. IInv => NoUrbLost
  <2> SUFFICES ASSUME IInv, ~build.usbFails, capturing # {}, ctl = Ready
               PROVE  \A u \in Urbs : urb[u] # "idle"
    BY DEF NoUrbLost
  <2>1. ctl.pc = "ready" /\ Followed
    BY DEF Ready, Followed
  <2> QED
    BY <2>1 DEF IInv, Parts, FullInv
<1> QED
  BY <1>1, Invariance, PTL
=============================================================================
