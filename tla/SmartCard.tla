------------------------------- MODULE SmartCard -------------------------------
(***************************************************************************)
(* The T=1 session of DriverHost_PX4 and of the PC/SC driver with the card *)
(* in a built-in reader: smart_card.cpp.  The host sends a block and waits *)
(* for the answer with a timeout, sends it again when none comes or when   *)
(* it is damaged, and rebuilds the session after a failure.                *)
(*                                                                         *)
(* The card is external.  It numbers its blocks and acknowledges the       *)
(* host's the way T=1 asks for, and may be slow: an answer that comes too  *)
(* late stays in the receive queue of the reader for a later read.  Blocks *)
(* are whole frames, as RX_READY announces them; a command or a response   *)
(* is the number of I-blocks it takes.                                     *)
(***************************************************************************)
EXTENDS Naturals, Sequences

CONSTANT Scenarios   \* cards, callers and bounds considered

ASSUME ScenarioAssumption ==
    \A x \in Scenarios :
        /\ x.retries \in Nat                   \* MAX_RETRIES
        /\ x.discard \in Nat                   \* MAX_DISCARD_CHUNKS
        /\ x.commands \subseteq Nat \ {0}      \* I-blocks of a command
        /\ x.responses \subseteq Nat \ {0}     \* I-blocks of a response
        /\ x.capacity \in Nat                  \* I-blocks the caller's buffer takes
        /\ x.acas \in BOOLEAN                  \* 38400 baud: IFS comes before RESYNCH
        /\ x.wtx \in BOOLEAN                   \* the card may ask for more time
        /\ x.apdus \in Nat                     \* bound on the commands followed
        /\ x.faults \in Nat                    \* bound on blocks lost or damaged
        /\ x.swaps \in Nat                     \* bound on removals of the card

VARIABLES
    open,     \* open_
    session,  \* initialized_, send_sequence_, receive_sequence_
    call,     \* the call in progress and where it stands
    issued,   \* commands issued so far
    result,   \* what the last completed Transmit() gave
    present,  \* a card is in the slot
    card,     \* its state
    inbox,    \* blocks on their way to the card
    fifo,     \* blocks in the receive queue of the reader
    runs,     \* the commands the card executed
    faults, swaps,
    scen      \* the scenario, fixed for a behaviour

hostvars == <<open, session, call, issued, result>>
cardvars == <<present, card, runs>>
bounds == <<faults, swaps>>
vars == <<hostvars, cardvars, inbox, fifo, bounds, scen>>

MaxRetries == scen.retries
MaxDiscard == scen.discard

NoBlock == [kind |-> "none"]
Atr == [kind |-> "ATR"]
Bad == [kind |-> "bad"]                      \* the checksum does not match
IBlock(n, more, a, part) ==
    [kind |-> "I", seq |-> n, more |-> more, apdu |-> a, part |-> part]
RBlock(n) == [kind |-> "R", seq |-> n]
SRequest(what) == [kind |-> "S", what |-> what]
SResponse(what) == [kind |-> "SR", what |-> what]

Invalid == [initialized |-> FALSE, s |-> 0, r |-> 0]     \* InvalidateSession()
Idle == [site |-> "idle", phase |-> "none", why |-> "none", apdu |-> 0, len |-> 0,
         off |-> 0, tries |-> 0, retry |-> 0, buf |-> <<>>]
NoResult == [apdu |-> 0, ok |-> FALSE, buf |-> <<>>]
NewCard == [on |-> FALSE, expect |-> 0, ns |-> 0, cmd |-> <<>>, last |-> NoBlock,
            len |-> 0, wtx |-> FALSE]

Init ==
    /\ open = FALSE
    /\ session = Invalid
    /\ call = Idle
    /\ issued = 0 /\ result = NoResult
    /\ present \in BOOLEAN
    /\ card = NewCard
    /\ inbox = <<>> /\ fifo = <<>> /\ runs = <<>>
    /\ faults = 0 /\ swaps = 0
    /\ scen \in Scenarios

Drop(s, k) == SubSeq(s, k + 1, Len(s))

-----------------------------------------------------------------------------
(* The calls of the card server and of the PC/SC driver, one at a time     *)

BeginReset(why, a, n) ==
    /\ session' = Invalid
    /\ call' = [Idle EXCEPT !.site = "reset", !.why = why, !.apdu = a, !.len = n]

(* DetectCard() finds no card, or fails.                                   *)
Forget == session' = Invalid /\ UNCHANGED call

Open ==
    /\ ~open
    /\ open' = TRUE
    /\ IF present THEN BeginReset("open", 0, 0) ELSE UNCHANGED <<session, call>>
    /\ UNCHANGED <<issued, result, cardvars, inbox, fifo, bounds>>

Close ==
    /\ open /\ call = Idle
    /\ open' = FALSE
    /\ session' = Invalid
    /\ UNCHANGED <<call, issued, result, cardvars, inbox, fifo, bounds>>

GetStatus ==
    /\ open /\ call = Idle
    /\ \/ Forget
       \/ present /\ ~session.initialized /\ BeginReset("status", 0, 0)
    /\ UNCHANGED <<open, issued, result, cardvars, inbox, fifo, bounds>>

Reset ==
    /\ open /\ call = Idle
    /\ \/ Forget
       \/ present /\ BeginReset("reset", 0, 0)
    /\ UNCHANGED <<open, issued, result, cardvars, inbox, fifo, bounds>>

Transmit ==
    /\ open /\ call = Idle
    /\ issued < scen.apdus
    /\ \E n \in scen.commands :
          \/ /\ Forget
             /\ UNCHANGED issued
          \/ /\ present /\ session.initialized
             /\ call' = [Idle EXCEPT !.site = "send", !.phase = "call",
                                     !.apdu = issued + 1, !.len = n]
             /\ issued' = issued + 1
             /\ UNCHANGED session
          \/ /\ present /\ ~session.initialized
             /\ BeginReset("transmit", issued + 1, n)
             /\ issued' = issued + 1
    /\ UNCHANGED <<open, result, cardvars, inbox, fifo, bounds>>

(* Mutant: a failed call leaves the session as it is.                      *)
FailKeepsSession ==
    /\ UNCHANGED session
    /\ call' = Idle
    /\ open' = (call.why # "open")
    /\ result' = IF call.apdu = 0 THEN result
                 ELSE [apdu |-> call.apdu, ok |-> FALSE, buf |-> <<>>]

(* A call fails: the session is given up, an Open() closed again.          *)
Fail ==
    /\ session' = Invalid
    /\ call' = Idle
    /\ open' = (call.why # "open")
    /\ result' = IF call.apdu = 0 THEN result
                 ELSE [apdu |-> call.apdu, ok |-> FALSE, buf |-> <<>>]

-----------------------------------------------------------------------------
(* Reset(): the reset line, the ATR, then InitializeT1()                   *)

(* it930x_bcas_reset_card() clears the receive queue; some readers still   *)
(* give stray bytes before the ATR.                                        *)
ResetCard ==
    /\ call.site = "reset"
    /\ \/ /\ present
          /\ card' = [NewCard EXCEPT !.on = TRUE]
          /\ fifo' \in {<<Atr>>, <<Bad, Atr>>}
          /\ call' = [call EXCEPT !.site = "atr"]
          /\ UNCHANGED <<open, session, result>>
       \/ /\ ~present
          /\ Fail
          /\ UNCHANGED <<card, fifo>>
    /\ inbox' = <<>>
    /\ UNCHANGED <<issued, present, runs, bounds>>

(* An ATR alone is taken; anything else in the read makes it malformed.    *)
ReadAtr ==
    /\ call.site = "atr"
    /\ \E k \in 1..Len(fifo) :
          /\ fifo' = Drop(fifo, k)
          /\ \/ /\ SubSeq(fifo, 1, k) = <<Atr>>
                /\ call' = [call EXCEPT !.site = IF scen.acas THEN "ifs1" ELSE "resynch",
                                        !.phase = "call", !.tries = 0]
                /\ UNCHANGED <<open, session, result>>
             \/ /\ SubSeq(fifo, 1, k) # <<Atr>>
                /\ call.tries = 0
                /\ call' = [call EXCEPT !.site = "reset", !.tries = 1]
                /\ UNCHANGED <<open, session, result>>
             \/ /\ SubSeq(fifo, 1, k) # <<Atr>>
                /\ call.tries = 1
                /\ Fail
    /\ UNCHANGED <<issued, cardvars, inbox, bounds>>

(* The ATR does not come in time, or a request to the reader fails.        *)
ResetFails ==
    /\ call.site \in {"reset", "atr"}
    /\ Fail
    /\ UNCHANGED <<issued, cardvars, inbox, fifo, bounds>>

-----------------------------------------------------------------------------
(* ExchangeBlock(), called from the sites of InitializeT1() and            *)
(* TransmitInitialized(): phases "call", "wait" and, after a request for   *)
(* more time, "wtx".                                                       *)

Block ==
    CASE call.site \in {"resynch", "resynch1"} -> SRequest("RESYNCH")
      [] call.site \in {"ifs", "ifs1"} -> SRequest("IFS")
      [] call.site = "send" ->
            IBlock(session.s, call.off + 1 < call.len, call.apdu, call.off + 1)
      [] call.site \in {"fetch", "chain"} -> RBlock(session.r)

Limit == IF call.site \in {"ifs1", "resynch1"} THEN 1 ELSE MaxRetries

(* SendBlock(); on the line a block may be lost or damaged.                *)
ToCard(b) ==
    \/ inbox' = Append(inbox, b) /\ UNCHANGED faults
    \/ /\ faults < scen.faults
       /\ faults' = faults + 1
       /\ inbox' \in {inbox, Append(inbox, Bad)}

SendBlock ==
    /\ call.phase = "call"
    /\ call.retry < Limit
    /\ ToCard(Block)
    /\ call' = [call EXCEPT !.phase = "wait"]
    /\ UNCHANGED <<open, session, issued, result, cardvars, fifo, swaps>>

(* The retries are used up, the deadline of the call has passed, or a      *)
(* request to the reader fails.  The first IFS to an ACAS card is followed *)
(* by RESYNCH and another IFS.                                             *)
GiveUp ==
    /\ call.phase # "none"
    /\ \/ /\ call.phase = "call" /\ call.site = "ifs1"
          /\ call.retry = Limit
          /\ call' = [call EXCEPT !.site = "resynch1", !.retry = 0]
          /\ UNCHANGED <<open, session, result>>
       \/ Fail
    /\ UNCHANGED <<issued, cardvars, inbox, fifo, bounds>>

(* Mutant: every request for more time starts the wait anew.               *)
ReceiveTimeoutExtends ==
    /\ call.phase \in {"wait", "wtx"} /\ fifo = <<>> /\ inbox = <<>>
    /\ call' = [call EXCEPT !.phase = "call", !.retry = @ + 1]
    /\ UNCHANGED <<open, session, issued, result, cardvars, inbox, fifo, bounds>>

ReceiveTimeout ==
    /\ \/ call.phase = "wait" /\ fifo = <<>>
       \/ call.phase = "wtx"                        \* the deadline of the call
    /\ call' = [call EXCEPT !.phase = "call",
                            !.retry = IF call.phase = "wtx" THEN Limit ELSE @ + 1]
    /\ UNCHANGED <<open, session, issued, result, cardvars, inbox, fifo, bounds>>

(* ReceiveBlock() read k frames and uses the first.  When there were more, *)
(* DiscardPendingCardData() empties the queue.                             *)
Discard(k) == fifo' = IF k = 1 THEN Tail(fifo) ELSE <<>>

(* It fails when MaxDiscard reads were not seen to empty it.               *)
ReceiveFlooded ==
    /\ call.phase \in {"wait", "wtx"}
    /\ \E k \in 2..Len(fifo) :
          /\ Len(fifo) - k >= MaxDiscard
          /\ fifo' = Drop(fifo, k + MaxDiscard)
    /\ Fail
    /\ UNCHANGED <<issued, cardvars, inbox, bounds>>

(* The exchange is over; the next one is at another site.                  *)
Goto(site) == call' = [call EXCEPT !.site = site, !.phase = "call", !.retry = 0,
                                   !.tries = 0]

(* InitializeT1() is done: Reset() returns, and Transmit() goes on.        *)
Initialized ==
    /\ session' = [initialized |-> TRUE, s |-> 0, r |-> 0]
    /\ IF call.why = "transmit" THEN Goto("send") ELSE call' = Idle
    /\ UNCHANGED <<open, result>>

Flip(n) == 1 - n

(* Mutant: every block of the response goes to the start of the buffer.    *)
DeliverOverwrites(f, s) ==
    \/ /\ f.seq # session.r
       /\ Fail
    \/ /\ f.seq = session.r
       /\ session' = [session EXCEPT !.s = s, !.r = Flip(@)]
       /\ LET buf == <<<<f.apdu, f.part>>>>
          IN  IF f.more
              THEN /\ call' = [call EXCEPT !.site = "chain", !.phase = "call",
                                           !.retry = 0, !.buf = buf]
                   /\ UNCHANGED result
              ELSE /\ call' = Idle
                   /\ result' = [apdu |-> call.apdu, ok |-> TRUE, buf |-> buf]
       /\ UNCHANGED open

(* An I-block of the card, in order: it is added to the response.          *)
Deliver(f, s) ==
    \/ /\ f.seq # session.r \/ Len(call.buf) >= scen.capacity
       /\ Fail
    \/ /\ f.seq = session.r /\ Len(call.buf) < scen.capacity
       /\ session' = [session EXCEPT !.s = s, !.r = Flip(@)]
       /\ LET buf == Append(call.buf, <<f.apdu, f.part>>)
          IN  IF f.more
              THEN /\ call' = [call EXCEPT !.site = "chain", !.phase = "call",
                                           !.retry = 0, !.buf = buf]
                   /\ UNCHANGED result
              ELSE /\ call' = Idle
                   /\ result' = [apdu |-> call.apdu, ok |-> TRUE, buf |-> buf]
       /\ UNCHANGED open

Again == IF call.tries + 1 < MaxRetries
         THEN /\ call' = [call EXCEPT !.tries = @ + 1, !.phase = "call", !.retry = 0]
              /\ UNCHANGED <<open, session, result>>
         ELSE Fail

MorePending == call.off + 1 < call.len

(* Mutant: an accepted last block is followed by one more block.           *)
AnswerSendNeverFetches(f) ==
    CASE f.kind = "R" /\ f.seq = session.s -> Again
      [] f.kind = "R" /\ f.seq # session.s ->
            /\ session' = [session EXCEPT !.s = Flip(@)]
            /\ call' = [call EXCEPT !.off = @ + 1, !.phase = "call",
                                    !.retry = 0, !.tries = 0]
            /\ UNCHANGED <<open, result>>
      [] f.kind = "I" /\ ~MorePending -> Deliver(f, Flip(session.s))
      [] OTHER -> Fail

(* The answer to a block of the command: an R-block asks for the block     *)
(* again or accepts it; the last block is answered by the response.        *)
AnswerSend(f) ==
    CASE f.kind = "R" /\ f.seq = session.s -> Again
      [] f.kind = "R" /\ f.seq # session.s /\ MorePending ->
            /\ session' = [session EXCEPT !.s = Flip(@)]
            /\ call' = [call EXCEPT !.off = @ + 1, !.phase = "call",
                                    !.retry = 0, !.tries = 0]
            /\ UNCHANGED <<open, result>>
      [] f.kind = "R" /\ f.seq # session.s /\ ~MorePending ->
            Goto("fetch") /\ UNCHANGED <<open, session, result>>
      [] f.kind = "I" /\ ~MorePending -> Deliver(f, Flip(session.s))
      [] OTHER -> Fail

(* The response got lost and is asked for with an R-block.                 *)
AnswerFetch(f) ==
    CASE f.kind = "I" -> Deliver(f, Flip(session.s))
      [] f.kind = "R" -> Again
      [] OTHER -> Fail

AnswerChain(f) == IF f.kind = "I" THEN Deliver(f, session.s) ELSE Fail

AnswerInit(f) ==
    CASE call.site \in {"resynch", "resynch1"} /\ f = SResponse("RESYNCH") ->
            Goto("ifs") /\ UNCHANGED <<open, session, result>>
      [] call.site \in {"ifs", "ifs1"} /\ f = SResponse("IFS") -> Initialized
      [] OTHER -> Fail

Receive ==
    /\ call.phase \in {"wait", "wtx"}
    /\ fifo # <<>>
    /\ Head(fifo) \notin {Bad, SRequest("WTX")}
    /\ \E k \in 1..Len(fifo) : Discard(k)
    /\ LET f == Head(fifo)
       IN  CASE call.site = "send" -> AnswerSend(f)
             [] call.site = "fetch" -> AnswerFetch(f)
             [] call.site = "chain" -> AnswerChain(f)
             [] OTHER -> AnswerInit(f)
    /\ UNCHANGED <<issued, cardvars, inbox, bounds>>

ReceiveBad ==
    /\ call.phase \in {"wait", "wtx"}
    /\ fifo # <<>>
    /\ Head(fifo) = Bad
    /\ \E k \in 1..Len(fifo) : Discard(k)
    /\ call' = [call EXCEPT !.phase = "call", !.retry = @ + 1]
    /\ UNCHANGED <<open, session, issued, result, cardvars, inbox, bounds>>

ReceiveWtx ==
    /\ call.phase \in {"wait", "wtx"}
    /\ fifo # <<>>
    /\ Head(fifo) = SRequest("WTX")
    /\ \E k \in 1..Len(fifo) : Discard(k)
    /\ ToCard(SResponse("WTX"))
    /\ call' = [call EXCEPT !.phase = "wtx"]
    /\ UNCHANGED <<open, session, issued, result, cardvars, swaps>>

-----------------------------------------------------------------------------
(* The card                                                                *)

ToHost(b) ==
    \/ fifo' = Append(fifo, b) /\ UNCHANGED faults
    \/ /\ faults < scen.faults
       /\ faults' = faults + 1
       /\ fifo' \in {fifo, Append(fifo, Bad)}

(* The card sends an I-block of its response.                              *)
Respond(c, a, part, len) ==
    LET b == IBlock(c.ns, part < len, a, part)
    IN  /\ card' = [c EXCEPT !.ns = Flip(@), !.last = b, !.len = len, !.wtx = FALSE]
        /\ ToHost(b)

CardAnswers(c, b) == card' = c /\ ToHost(b)

CardStep(b) ==
    \/ /\ b.kind = "I" /\ b.seq = card.expect /\ b.more
       /\ CardAnswers([card EXCEPT !.expect = Flip(@), !.last = NoBlock,
                                   !.cmd = Append(@, <<b.apdu, b.part>>)],
                      RBlock(Flip(card.expect)))
       /\ UNCHANGED runs
    \/ /\ b.kind = "I" /\ b.seq = card.expect /\ ~b.more
       /\ \E len \in scen.responses :
             LET c == [card EXCEPT !.expect = Flip(@), !.cmd = <<>>]
             IN  /\ runs' = Append(runs, [cmd |-> Append(card.cmd, <<b.apdu, b.part>>),
                                          apdu |-> b.apdu, len |-> len])
                 /\ \/ Respond(c, b.apdu, 1, len)
                    \/ /\ scen.wtx
                       /\ CardAnswers([c EXCEPT !.wtx = TRUE, !.len = len,
                                                !.last = IBlock(c.ns, 1 < len, b.apdu, 1)],
                                      SRequest("WTX"))
    \/ /\ (b.kind = "I" /\ b.seq # card.expect) \/ b.kind = "bad"
       /\ CardAnswers(card, IF card.wtx THEN SRequest("WTX") ELSE RBlock(card.expect))
       /\ UNCHANGED runs
    \/ /\ b.kind = "R"
       /\ \/ /\ card.wtx
             /\ CardAnswers(card, SRequest("WTX"))
          \/ /\ ~card.wtx /\ card.last.kind = "I" /\ b.seq = card.last.seq
             /\ CardAnswers(card, card.last)
          \/ /\ ~card.wtx /\ card.last.kind = "I" /\ b.seq # card.last.seq /\ card.last.more
             /\ Respond(card, card.last.apdu, card.last.part + 1, card.len)
          \/ /\ ~card.wtx
             /\ card.last.kind = "I" => b.seq # card.last.seq /\ ~card.last.more
             /\ CardAnswers(card, RBlock(card.expect))
       /\ UNCHANGED runs
    \/ /\ b = SRequest("RESYNCH")
       /\ CardAnswers([NewCard EXCEPT !.on = TRUE], SResponse("RESYNCH"))
       /\ UNCHANGED runs
    \/ /\ b = SRequest("IFS")
       /\ CardAnswers(card, SResponse("IFS"))
       /\ UNCHANGED runs
    \/ /\ b = SResponse("WTX") /\ card.wtx
       /\ \/ Respond(card, card.last.apdu, 1, card.len)
          \/ CardAnswers(card, SRequest("WTX"))
       /\ UNCHANGED runs
    \/ /\ b = SResponse("WTX") /\ ~card.wtx
       /\ UNCHANGED <<card, fifo, faults, runs>>

CardReceives ==
    /\ inbox # <<>>
    /\ inbox' = Tail(inbox)
    /\ IF present /\ card.on THEN CardStep(Head(inbox))
       ELSE UNCHANGED <<card, fifo, faults, runs>>
    /\ UNCHANGED <<hostvars, present, swaps>>

TakeOut ==
    /\ present
    /\ swaps < scen.swaps
    /\ present' = FALSE
    /\ card' = NewCard
    /\ swaps' = swaps + 1
    /\ UNCHANGED <<hostvars, inbox, fifo, faults, runs>>

PutIn ==
    /\ ~present
    /\ present' = TRUE
    /\ card' = NewCard
    /\ UNCHANGED <<hostvars, inbox, fifo, faults, swaps, runs>>

-----------------------------------------------------------------------------
Caller == Open \/ Close \/ GetStatus \/ Reset \/ Transmit
HostStep == \/ ResetCard \/ ReadAtr \/ ResetFails
            \/ SendBlock \/ GiveUp \/ ReceiveTimeout
            \/ Receive \/ ReceiveBad \/ ReceiveWtx \/ ReceiveFlooded

Same == UNCHANGED scen

Next == Same /\ (Caller \/ HostStep \/ CardReceives \/ TakeOut \/ PutIn)

(* The host runs, and its clock does.                                      *)
Fairness == WF_vars(Same /\ HostStep) /\ WF_vars(Same /\ ReceiveTimeout)

Spec == Init /\ [][Next]_vars /\ Fairness
-----------------------------------------------------------------------------
Parts(a, n) == [i \in 1..n |-> <<a, i>>]

(* A Transmit() that succeeds gives the response to its own command, whole *)
(* and in order: an answer that comes late, twice or after a retry is      *)
(* never taken for the answer to another block.                            *)
RightResponse ==
    result.ok => \E i \in 1..Len(runs) :
                    /\ runs[i].apdu = result.apdu
                    /\ result.buf = Parts(result.apdu, runs[i].len)

(* The card executes a command at most once, however often its blocks are  *)
(* sent again, and never one put together from blocks of two commands.     *)
ExecutedOnce ==
    /\ \A i, j \in 1..Len(runs) : runs[i].apdu = runs[j].apdu => i = j
    /\ \A i \in 1..Len(runs) :
          \E n \in scen.commands : runs[i].cmd = Parts(runs[i].apdu, n)

(* Between two calls the sequence numbers of an initialised session are    *)
(* those of the card: a failure never leaves them apart.                   *)
SequencesAgree ==
    call = Idle /\ session.initialized /\ present /\ card.on
        => session.s = card.expect /\ session.r = card.ns

(* Every call ends, whatever the card does.                                *)
CallsEnd == (call # Idle) ~> (call = Idle)
=============================================================================
