------------------------------- MODULE ItedtvBus -------------------------------
(***************************************************************************)
(* The USB stream of a unit: the bulk transfers (URBs) of itedtv_bus.c and *)
(* px4_device.c's start_capture and stop_capture, which run them while at  *)
(* least one receiver of the unit streams.                                 *)
(*                                                                         *)
(* start_capture and stop_capture hold px4->lock, so one thread at a time  *)
(* is in them: ctl says where it stands.  The completion handler runs      *)
(* beside it.  usb_submit_urb() and usb_kill_urb() belong to the USB core: *)
(* killing refuses further submission of the URB, cancels it and waits for *)
(* its completion handler.                                                 *)
(***************************************************************************)
EXTENDS Naturals, FiniteSets

CONSTANTS
    Receivers,     \* receivers of the unit
    NumUrbs,       \* usb.streaming.urb_num
    Builds         \* of the driver, and what it runs on

ASSUME UrbAssumption == NumUrbs \in Nat \ {0}

(* workqueue: ITEDTV_BUS_USE_WORKQUEUE; usbFails: transfers and            *)
(* submissions may fail.                                                   *)
ASSUME BuildAssumption ==
    Builds \subseteq [workqueue : BOOLEAN, usbFails : BOOLEAN]

VARIABLES
    capturing,  \* receivers started; its size is px4->streaming_count
    handler,    \* ctx->stream_handler is set
    streaming,  \* ctx->streaming
    works,      \* ctx->works is allocated
    urb,        \* where each URB is
    killing,    \* the URB usb_kill_urb() is called for, 0 when none
    ctl,        \* the thread in start_capture or stop_capture
    build       \* fixed for a behaviour

vars == <<capturing, handler, streaming, works, urb, killing, ctl, build>>

Urbs == 1..NumUrbs

(* idle: with the driver; flying: with the host controller; queued: on the *)
(* work queue; handler, check, submit: in the completion handler or work.  *)
InHandler == {"handler", "check", "submit"}

Ready == [pc |-> "ready"]

Init ==
    /\ capturing = {}
    /\ handler = FALSE /\ streaming = FALSE /\ works = FALSE
    /\ urb = [u \in Urbs |-> "idle"]
    /\ killing = 0
    /\ ctl = Ready
    /\ build \in Builds

Move(u, to) == urb' = [urb EXCEPT ![u] = to]

-----------------------------------------------------------------------------
(* itedtv_usb_complete() and itedtv_usb_workqueue_handler()                *)

(* Callbacks of an endpoint, and works of a single-threaded queue, run one *)
(* after the other.                                                        *)
HandlerFree == \A u \in Urbs : urb[u] \notin InHandler

(* Mutant: an empty transfer is not submitted again.                       *)
CompleteDropsEmpty(u) ==
    /\ urb[u] = "flying"
    /\ build.workqueue \/ HandlerFree
    /\ \/ Move(u, IF build.workqueue THEN "queued" ELSE "handler")
       \/ Move(u, "idle")
    /\ UNCHANGED <<capturing, handler, streaming, works, killing, ctl>>

Complete(u) ==
    /\ urb[u] = "flying"
    /\ build.workqueue \/ HandlerFree
    /\ \/ Move(u, IF build.workqueue THEN "queued" ELSE "handler")
       \/ Move(u, IF build.workqueue THEN "queued" ELSE "check")   \* no data
    /\ UNCHANGED <<capturing, handler, streaming, works, killing, ctl>>

(* A transfer that failed or was cancelled is not submitted again.         *)
CompleteError(u) ==
    /\ urb[u] = "flying"
    /\ build.usbFails \/ killing = u
    /\ Move(u, "idle")
    /\ UNCHANGED <<capturing, handler, streaming, works, killing, ctl>>

RunWork(u) ==
    /\ urb[u] = "queued"
    /\ HandlerFree
    /\ \/ Move(u, "handler")
       \/ Move(u, "check")
    /\ UNCHANGED <<capturing, handler, streaming, works, killing, ctl>>

(* ctx->stream_handler(): the *_device_stream_handler() of the unit.       *)
CallHandler(u) ==
    /\ urb[u] = "handler"
    /\ Move(u, "check")
    /\ UNCHANGED <<capturing, handler, streaming, works, killing, ctl>>

CheckStreaming(u) ==
    /\ urb[u] = "check"
    /\ Move(u, IF streaming THEN "submit" ELSE "idle")
    /\ UNCHANGED <<capturing, handler, streaming, works, killing, ctl>>

Resubmit(u) ==
    /\ urb[u] = "submit"
    /\ \/ killing # u /\ Move(u, "flying")
       \/ (killing = u \/ build.usbFails) /\ Move(u, "idle")
    /\ UNCHANGED <<capturing, handler, streaming, works, killing, ctl>>

-----------------------------------------------------------------------------
(* usb_kill_urb() for the URBs ctl.next .. ctl.last, then on to pc to.     *)

KillStep(to) ==
    \/ /\ killing = 0
       /\ ctl.next > ctl.last
       /\ ctl' = [pc |-> to, rx |-> ctl.rx]
       /\ UNCHANGED killing
    \/ /\ killing = 0
       /\ ctl.next <= ctl.last
       /\ killing' = ctl.next
       /\ UNCHANGED ctl
    \/ /\ killing # 0
       /\ urb[killing] = "idle" \/ (build.workqueue /\ urb[killing] # "flying")
       /\ killing' = 0
       /\ ctl' = [ctl EXCEPT !.next = @ + 1]

-----------------------------------------------------------------------------
(* start_capture                                                           *)

StartCapture(x) ==
    /\ ctl = Ready
    /\ x \notin capturing
    /\ \/ /\ capturing = {}
          /\ ctl' = [pc |-> "purge", rx |-> x]
          /\ UNCHANGED capturing
       \/ /\ capturing # {}
          /\ capturing' = capturing \cup {x}
          /\ UNCHANGED ctl
    /\ UNCHANGED <<handler, streaming, works, urb, killing>>

(* it930x_purge_psb() reads the stream endpoint itself; then the TS pins.  *)
Purge ==
    /\ ctl.pc = "purge"
    /\ ctl' \in {[pc |-> "setup", rx |-> ctl.rx], Ready}      \* or failure
    /\ UNCHANGED <<capturing, handler, streaming, works, urb, killing>>

(* itedtv_usb_start_streaming() up to the first submission.                *)
Setup ==
    /\ ctl.pc = "setup"
    /\ handler' = TRUE
    /\ \/ /\ works' = TRUE
          /\ streaming' = TRUE
          /\ ctl' = [pc |-> "submit", rx |-> ctl.rx, next |-> 1]
       \/ /\ works' \in {works, TRUE}                         \* out of memory
          /\ ctl' = [pc |-> "fail", rx |-> ctl.rx]
          /\ UNCHANGED streaming
    /\ UNCHANGED <<capturing, urb, killing>>

Submit ==
    /\ ctl.pc = "submit"
    /\ \/ /\ ctl.next <= NumUrbs
          /\ Move(ctl.next, "flying")
          /\ ctl' = [ctl EXCEPT !.next = @ + 1]
          /\ UNCHANGED capturing
       \/ /\ ctl.next <= NumUrbs
          /\ build.usbFails
          /\ ctl' = [pc |-> "unwind", rx |-> ctl.rx, next |-> 1, last |-> ctl.next - 1]
          /\ UNCHANGED <<capturing, urb>>
       \/ /\ ctl.next = NumUrbs + 1
          /\ capturing' = capturing \cup {ctl.rx}
          /\ ctl' = Ready
          /\ UNCHANGED urb
    /\ UNCHANGED <<handler, streaming, works, killing>>

(* A submission failed: the ones before it are killed.                     *)
Unwind ==
    /\ ctl.pc = "unwind"
    /\ KillStep("fail")
    /\ UNCHANGED <<capturing, handler, streaming, works, urb>>

Fail ==
    /\ ctl.pc = "fail"
    /\ streaming' = FALSE
    /\ ctl' = [pc |-> "flush", rx |-> ctl.rx, to |-> "destroy"]
    /\ UNCHANGED <<capturing, handler, works, urb, killing>>

WorkDrained == build.workqueue => \A u \in Urbs : urb[u] \in {"idle", "flying"}

(* flush_workqueue(); without the work queue there is nothing to wait for. *)
Flush ==
    /\ ctl.pc = "flush"
    /\ WorkDrained
    /\ ctl' = IF ctl.to = "kill"
              THEN [pc |-> "kill", rx |-> ctl.rx, next |-> 1, last |-> NumUrbs]
              ELSE [pc |-> "destroy", rx |-> ctl.rx]
    /\ UNCHANGED <<capturing, handler, streaming, works, urb, killing>>

(* itedtv_usb_clean_context(): destroy_workqueue() drains the queue; a     *)
(* failed start also frees the URBs and their buffers.                     *)
StartFailed ==
    /\ ctl.pc = "destroy"
    /\ WorkDrained
    /\ handler' = FALSE
    /\ works' = FALSE
    /\ ctl' = Ready
    /\ UNCHANGED <<capturing, streaming, urb, killing>>

-----------------------------------------------------------------------------
(* stop_capture                                                            *)

StopCapture(x) ==
    /\ ctl = Ready
    /\ x \in capturing
    /\ capturing' = capturing \ {x}
    /\ ctl' = IF capturing' = {} THEN [pc |-> "stop", rx |-> x] ELSE Ready
    /\ UNCHANGED <<handler, streaming, works, urb, killing>>

(* Mutant: the handler is cleared before the URBs are killed.              *)
StopStreamingCleansFirst ==
    /\ ctl.pc = "stop"
    /\ streaming' = FALSE
    /\ handler' = FALSE
    /\ ctl' = [pc |-> "flush", rx |-> ctl.rx, to |-> "kill"]
    /\ UNCHANGED <<capturing, works, urb, killing>>

(* itedtv_usb_stop_streaming()                                             *)
StopStreaming ==
    /\ ctl.pc = "stop"
    /\ streaming' = FALSE
    /\ ctl' = [pc |-> "flush", rx |-> ctl.rx, to |-> "kill"]
    /\ UNCHANGED <<capturing, handler, works, urb, killing>>

(* Mutant: the last URB is not killed.                                     *)
KillAllButLast ==
    /\ ctl.pc = "kill"
    /\ \/ /\ killing = 0
          /\ ctl.next = NumUrbs
          /\ ctl' = [pc |-> "clean", rx |-> ctl.rx]
          /\ UNCHANGED killing
       \/ ctl.next < NumUrbs /\ KillStep("clean")
    /\ UNCHANGED <<capturing, handler, streaming, works, urb>>

(* Mutant: stopping waits for the URBs without cancelling them.            *)
KillAllWaits ==
    /\ ctl.pc = "kill"
    /\ \A u \in Urbs : urb[u] = "idle"
    /\ ctl' = [pc |-> "clean", rx |-> ctl.rx]
    /\ UNCHANGED <<capturing, handler, streaming, works, urb, killing>>

KillAll ==
    /\ ctl.pc = "kill"
    /\ KillStep("clean")
    /\ UNCHANGED <<capturing, handler, streaming, works, urb>>

Clean ==
    /\ ctl.pc = "clean"
    /\ WorkDrained
    /\ handler' = FALSE
    /\ ctl' = Ready
    /\ UNCHANGED <<capturing, streaming, works, urb, killing>>

(* itedtv_bus_term() with the last reference to the unit, all files closed *)
BusTerm ==
    /\ ctl = Ready
    /\ capturing = {}
    /\ works
    /\ works' = FALSE
    /\ UNCHANGED <<capturing, handler, streaming, urb, killing, ctl>>

-----------------------------------------------------------------------------
Callback(u) == \/ RunWork(u) \/ CallHandler(u) \/ CheckStreaming(u) \/ Resubmit(u)
Control == \/ Purge \/ Setup \/ Submit \/ Unwind \/ Fail \/ Flush \/ StartFailed
           \/ StopStreaming \/ KillAll \/ Clean

Same == UNCHANGED build

Next == /\ Same
        /\ \/ \E u \in Urbs : Complete(u) \/ CompleteError(u) \/ Callback(u)
           \/ \E x \in Receivers : StartCapture(x) \/ StopCapture(x)
           \/ Control
           \/ BusTerm

(* Callbacks run to their end, a killed transfer is given back, and the    *)
(* thread in start_capture or stop_capture goes on.  Nothing makes the     *)
(* device send.                                                            *)
Fairness ==
    /\ \A u \in Urbs : /\ WF_vars(Same /\ Callback(u))
                       /\ WF_vars(Same /\ killing = u /\ CompleteError(u))
    /\ WF_vars(Same /\ Control)

Spec == Init /\ [][Next]_vars /\ Fairness

-----------------------------------------------------------------------------
(* Once the last receiver has stopped, and while a start has not come to   *)
(* its submissions, nothing is under way on the stream endpoint: the purge *)
(* reads it alone and the bytes kept by the stream handler are reset       *)
(* without a handler running.                                              *)
QuietUnlessStreaming ==
    (ctl = Ready /\ capturing = {}) \/ ctl.pc \in {"purge", "setup"}
        => \A u \in Urbs : urb[u] = "idle"

(* URBs and their buffers are never freed under the host controller or a   *)
(* running completion handler, and that handler never calls a stream       *)
(* handler that was cleared: every URB is back before                      *)
(* itedtv_usb_clean_context() forgets both.                                *)
CallbacksSafe ==
    \A u \in Urbs : /\ ~works => urb[u] = "idle"
                    /\ urb[u] = "handler" => handler

(* While no transfer fails, a stream keeps all its URBs: each one is with  *)
(* the host controller or on its way back to it.                           *)
NoUrbLost ==
    ~build.usbFails /\ capturing # {} /\ ctl = Ready => \A u \in Urbs : urb[u] # "idle"

(* Stopping the last receiver ends even when the device sends nothing.     *)
StopCompletes == (ctl.pc = "stop") ~> (ctl = Ready)
=============================================================================
