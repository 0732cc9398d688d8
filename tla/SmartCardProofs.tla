---------------------------- MODULE SmartCardProofs ----------------------------
(***************************************************************************)
(* The T=1 session of SmartCard for every number of retries, length of     *)
(* commands and responses, and whatever is lost, damaged, late or swapped. *)
(* The argument is that of an alternating bit: a queue holds at most two   *)
(* generations of blocks, the older before the younger ones.               *)
(***************************************************************************)
EXTENDS SmartCard, SequenceTheorems, TLAPS

Elems(q) == {q[i] : i \in 1..Len(q)}
Behind(q, x) == {q[j] : j \in {m \in 1..Len(q) : \E i \in 1..(m - 1) : q[i] = x}}

IsI(b) == b.kind = "I"
IsR(b) == b.kind = "R"

(* The card in the slot has been reset and would answer.                   *)
Live == present /\ card.on

Starting == {"atr", "resynch", "ifs1", "resynch1", "ifs"}
Exchanging == {"resynch", "ifs1", "resynch1", "ifs", "send", "fetch", "chain"}
Sites == {"idle", "reset", "atr"} \cup Exchanging
Bits == {0, 1}

Blocks == {NoBlock, Atr, Bad}
          \cup [kind : {"I"}, seq : Bits, more : BOOLEAN, apdu : Nat, part : Nat]
          \cup [kind : {"R"}, seq : Bits]
          \cup [kind : {"S", "SR"}, what : {"RESYNCH", "IFS", "WTX"}]

IsSession(x) ==
    /\ x = [initialized |-> x.initialized, s |-> x.s, r |-> x.r]
    /\ x.initialized \in BOOLEAN /\ x.s \in Bits /\ x.r \in Bits

IsCall(x) ==
    /\ x = [site |-> x.site, phase |-> x.phase, why |-> x.why, apdu |-> x.apdu,
            len |-> x.len, off |-> x.off, tries |-> x.tries, retry |-> x.retry,
            buf |-> x.buf]
    /\ x.site \in Sites

IsCard(x) ==
    /\ x = [on |-> x.on, expect |-> x.expect, ns |-> x.ns, cmd |-> x.cmd,
            last |-> x.last, len |-> x.len, wtx |-> x.wtx]
    /\ x.on \in BOOLEAN /\ x.expect \in Bits /\ x.ns \in Bits /\ x.wtx \in BOOLEAN
    /\ x.last \in Blocks /\ x.cmd \in Seq(Nat \X Nat) /\ x.len \in Nat

TypeInv ==
    /\ scen \in Scenarios
    /\ present \in BOOLEAN
    /\ issued \in Nat
    /\ IsSession(session) /\ IsCall(call) /\ IsCard(card)
    /\ inbox \in Seq(Blocks) /\ fifo \in Seq(Blocks)
    /\ runs \in Seq([cmd : Seq(Nat \X Nat), apdu : Nat, len : Nat \ {0}])

(* Where a call is and what it knows there.                                *)
CallInv ==
    /\ call.site = "idle" => call = Idle
    /\ session.initialized => call.site \in {"idle", "send", "fetch", "chain"}
    /\ call.site \in {"send", "fetch", "chain"} => session.initialized
    /\ call.phase # "none" => call.site \in Exchanging
    /\ call.apdu \in 0..issued
    /\ call.site \in Starting \cup {"reset"} =>
          /\ call.why = "transmit" => call.apdu # 0 /\ call.len \in scen.commands
          /\ call.off = 0 /\ call.buf = << >>
    /\ call.site \in {"send", "fetch"} =>
          /\ call.apdu # 0 /\ call.len \in scen.commands
          /\ call.off \in Nat /\ call.off < call.len /\ call.buf = << >>
    /\ call.site = "fetch" => ~MorePending
    /\ call.site = "chain" =>
          call.apdu # 0 /\ Len(call.buf) \in Nat /\ call.buf = Parts(call.apdu, Len(call.buf))

Executed(a) == \E i \in 1..Len(runs) : runs[i].apdu = a

(* What was executed was issued; a call that still resets the card for its *)
(* command has sent none of it.                                            *)
IssuedInv ==
    /\ \A i \in 1..Len(runs) : runs[i].apdu \in 0..issued
    /\ \A b \in Elems(inbox) : IsI(b) => b.apdu \in 0..issued
    /\ call.site \in Starting \cup {"reset"} /\ call.apdu # 0 =>
          /\ ~Executed(call.apdu)
          /\ \A b \in Elems(inbox) : IsI(b) => b.apdu # call.apdu

(* The block the card takes next continues its command; the ones behind it *)
(* repeat it.  While the card asks for more time it has a response ready.  *)
NextBlock(b) ==
    /\ b.part # 0 /\ ~card.wtx
    /\ card.cmd = Parts(b.apdu, b.part - 1)
    /\ ~Executed(b.apdu)
    /\ ~b.more => b.part \in scen.commands
CardInv ==
    Live => /\ card.wtx => IsI(card.last)
            /\ \A b \in Elems(inbox) :
                  /\ b = SRequest("RESYNCH") => \A x \in Elems(inbox) : ~IsI(x)
                  /\ IsI(b) /\ b.seq = card.expect =>
                        NextBlock(b) /\ \A y \in Behind(inbox, b) : IsI(y) => y = b

(* While the session is set up the card is as after its reset.             *)
StartInv ==
    call.site \in Starting =>
        /\ \A f \in Elems(fifo) : ~IsI(f) /\ (IsR(f) => f.seq = 0)
        /\ Live => /\ card.expect = 0 /\ card.ns = 0 /\ card.cmd = << >>
                   /\ card.last = NoBlock /\ ~card.wtx
                   /\ \A b \in Elems(inbox) : ~IsI(b) /\ ~IsR(b)

(* RESYNCH and IFS are answered in the order they were sent in.            *)
OrderInv ==
    Live =>
        /\ call.site = "atr" => Elems(inbox) = {} /\ \A f \in Elems(fifo) : f.kind # "SR"
        /\ call.site = "ifs1" => SRequest("RESYNCH") \notin Elems(inbox)
                                 /\ SResponse("RESYNCH") \notin Elems(fifo)
        /\ call.site \in {"resynch", "resynch1"} =>
              /\ SRequest("IFS") \notin Behind(inbox, SRequest("RESYNCH"))
              /\ SResponse("IFS") \notin Behind(fifo, SResponse("RESYNCH"))
              /\ SResponse("RESYNCH") \in Elems(fifo) => SRequest("IFS") \notin Elems(inbox)
        /\ call.site = "ifs" =>
              /\ SRequest("RESYNCH") \notin Behind(inbox, SRequest("IFS"))
              /\ SResponse("IFS") \in Elems(fifo) => SRequest("RESYNCH") \notin Elems(inbox)

(* The card has taken the block being sent; it has sent the block of the   *)
(* response that is waited for.                                            *)
Taken == card.expect # session.s
Sent == card.ns # session.r
Whole == call.site \in {"send", "fetch"} /\ ~MorePending     \* the last block is sent

(* The run of the command in progress, and the part n of its response.     *)
Reply(b, n, q) ==
    \E i \in 1..Len(runs) :
        /\ runs[i].apdu = call.apdu /\ n <= runs[i].len
        /\ b = IBlock(q, n < runs[i].len, call.apdu, n)

(* Host and card in a session.                                             *)
SessionInv ==
    session.initialized /\ Live =>
        /\ Taken => call.site \in {"send", "fetch"}
        /\ call.site = "fetch" => Taken
        /\ Sent => call.site = "chain" \/ (Taken /\ Whole)
        /\ card.wtx => Taken /\ Whole /\ ~Sent
        /\ Taken /\ Whole =>
              /\ Sent <=> ~card.wtx
              /\ card.cmd = << >>
              /\ \E i \in 1..Len(runs) :
                    /\ runs[i].apdu = call.apdu /\ runs[i].len = card.len
                    /\ card.last = IBlock(session.r, 1 < card.len, call.apdu, 1)
        /\ ~(Taken /\ Whole) /\ call.site # "chain" /\ IsI(card.last) =>
              card.last.seq # session.r /\ ~card.last.more
        /\ ~(Taken /\ Whole) /\ call.site = "send" =>
              /\ ~Executed(call.apdu)
              /\ card.cmd = Parts(call.apdu, IF Taken THEN call.off + 1 ELSE call.off)
        /\ call.site \in {"idle", "chain"} => card.cmd = << >>
        /\ call.site = "chain" =>
              \E i \in 1..Len(runs) :
                 /\ runs[i].apdu = call.apdu /\ runs[i].len = card.len
                 /\ Len(call.buf) < card.len
                 /\ card.last =
                       IF Sent
                       THEN IBlock(session.r, Len(call.buf) + 1 < card.len, call.apdu,
                                   Len(call.buf) + 1)
                       ELSE IBlock(Flip(session.r), TRUE, call.apdu, Len(call.buf))

(* What is on its way to the card in a session.                            *)
InboxInv ==
    session.initialized /\ Live =>
        /\ SRequest("RESYNCH") \notin Elems(inbox)
        /\ \A b \in Elems(inbox) :
              /\ IsI(b) /\ b.seq = session.s =>
                    (call.site = "send" /\ b = Block) \/ call.site = "fetch"
              /\ IsI(b) /\ b.seq # session.s => ~Taken
              /\ IsR(b) /\ b.seq = session.r => call.site \in {"fetch", "chain"}
              /\ IsR(b) /\ b.seq # session.r => ~Taken /\ ~Sent
              /\ IsI(b) /\ b.seq = session.s /\ call.site = "send" =>
                    \A y \in Behind(inbox, b) : ~IsR(y) /\ (IsI(y) => y.seq = session.s)
              /\ IsR(b) /\ b.seq = session.r =>
                    \A y \in Behind(inbox, b) : IsR(y) => y.seq = session.r

(* What is on its way to the host in a session.                            *)
FifoInv ==
    session.initialized =>
        \A f \in Elems(fifo) :
           /\ IsI(f) /\ f.seq = session.r =>
                 /\ call.site = "chain" \/ Whole
                 /\ Reply(f, Len(call.buf) + 1, session.r)
                 /\ Live => Sent /\ f = card.last /\ (call.site = "chain" \/ Taken)
                 /\ \A y \in Behind(fifo, f) : IsI(y) => y.seq = session.r
           /\ IsR(f) /\ f.seq # session.s =>
                 call.site \in {"send", "fetch"} /\ (Live => Taken)
           /\ IsR(f) /\ f.seq = session.s => call.site # "fetch"
           /\ /\ call.site = "send"
              /\ (IsR(f) /\ f.seq # session.s) \/ (IsI(f) /\ f.seq = session.r)
              =>
              \A y \in Behind(fifo, f) : IsR(y) => y.seq # session.s

IInv == /\ TypeInv /\ CallInv /\ IssuedInv /\ CardInv /\ StartInv /\ OrderInv
        /\ SessionInv /\ InboxInv /\ FifoInv /\ ExecutedOnce /\ RightResponse

-----------------------------------------------------------------------------
(* Queues: what is in one and in which order                               *)

Within(p, q) == /\ Elems(p) \subseteq Elems(q)
                /\ \A x : Behind(p, x) \subseteq Behind(q, x)

(* At most b was added at the end.                                         *)
Added(p, q, b) ==
    /\ Elems(p) \subseteq Elems(q) \cup {b}
    /\ \A x, y : y \in Behind(p, x) => y \in Behind(q, x) \/ (y = b /\ x \in Elems(q))

(* A queue from which the first k are taken.                               *)
LEMMA DropWithin ==
    ASSUME NEW S, NEW q \in Seq(S), NEW k \in 0..Len(q)
    PROVE  Drop(q, k) \in Seq(S) /\ Within(Drop(q, k), q)
<1> DEFINE p == Drop(q, k)
<1>1. /\ p \in Seq(S) /\ Len(p) = Len(q) - k
      /\ \A i \in 1..Len(p) : i + k \in 1..Len(q) /\ p[i] = q[i + k]
  BY DEF Drop
<1> HIDE DEF p
<1>2. Elems(p) \subseteq Elems(q)
  BY <1>1 DEF Elems
<1>3. ASSUME NEW x, NEW y \in Behind(p, x) PROVE y \in Behind(q, x)
  <2>1. PICK j \in 1..Len(p) : y = p[j] /\ \E i \in 1..(j - 1) : p[i] = x
    BY <1>3 DEF Behind
  <2>2. PICK i \in 1..(j - 1) : p[i] = x
    BY <2>1
  <2>3. j + k \in 1..Len(q) /\ i + k \in 1..(j + k - 1) /\ q[j + k] = y /\ q[i + k] = x
    BY <1>1, <2>1, <2>2
  <2> QED
    BY <2>3 DEF Behind
<1> QED
  BY <1>1, <1>2, <1>3 DEF Within, p

(* Everything else in a queue is behind its head.                          *)
LEMMA TailWithin ==
    ASSUME NEW S, NEW q \in Seq(S), q # << >>
    PROVE  /\ Tail(q) \in Seq(S) /\ Within(Tail(q), q)
           /\ Head(q) \in S /\ Head(q) \in Elems(q)
           /\ Elems(Tail(q)) \subseteq Behind(q, Head(q))
<1> DEFINE p == Tail(q)
<1>1. /\ p \in Seq(S) /\ Len(p) = Len(q) - 1 /\ Len(q) \in Nat /\ Len(q) > 0
      /\ \A i \in 1..Len(p) : i + 1 \in 1..Len(q) /\ p[i] = q[i + 1]
      /\ Head(q) = q[1] /\ 1 \in 1..Len(q) /\ q[1] \in S
  OBVIOUS
<1> HIDE DEF p
<1>2. Elems(p) \subseteq Elems(q)
  BY <1>1 DEF Elems
<1>3. ASSUME NEW x, NEW y \in Behind(p, x) PROVE y \in Behind(q, x)
  <2>1. PICK j \in 1..Len(p) : y = p[j] /\ \E i \in 1..(j - 1) : p[i] = x
    BY <1>3 DEF Behind
  <2>2. PICK i \in 1..(j - 1) : p[i] = x
    BY <2>1
  <2>3. j + 1 \in 1..Len(q) /\ i + 1 \in 1..(j + 1 - 1) /\ q[j + 1] = y /\ q[i + 1] = x
    BY <1>1, <2>1, <2>2
  <2> QED
    BY <2>3 DEF Behind
<1>4. Elems(p) \subseteq Behind(q, Head(q))
  <2> SUFFICES ASSUME NEW j \in 1..Len(p) PROVE p[j] \in Behind(q, q[1])
    BY <1>1 DEF Elems
  <2>1. j + 1 \in 1..Len(q) /\ 1 \in 1..(j + 1 - 1) /\ p[j] = q[j + 1]
    BY <1>1
  <2> QED
    BY <2>1 DEF Behind
<1>5. Head(q) \in Elems(q)
  BY <1>1 DEF Elems
<1> QED
  BY <1>1, <1>2, <1>3, <1>4, <1>5 DEF Within, p

(* Nothing is behind what is not there.                                    *)
LEMMA NothingBehind ==
    ASSUME NEW S, NEW q \in Seq(S), NEW x, NEW y \in Behind(q, x)
    PROVE  x \in Elems(q) /\ y \in Elems(q)
<1>1. PICK j \in 1..Len(q) : y = q[j] /\ \E i \in 1..(j - 1) : q[i] = x
  BY DEF Behind
<1>2. PICK i \in 1..(j - 1) : q[i] = x
  BY <1>1
<1>3. i \in 1..Len(q)
  BY <1>2
<1> QED
  BY <1>1, <1>2, <1>3 DEF Elems

(* An emptied queue.                                                       *)
LEMMA EmptyWithin ==
    ASSUME NEW q
    PROVE  /\ Elems(<< >>) = {} /\ Within(<< >>, q)
           /\ \A S : << >> \in Seq(S)
<1>1. Len(<< >>) = 0 /\ 1..0 = {}
  OBVIOUS
<1>2. Elems(<< >>) = {}
  BY <1>1 DEF Elems
<1>3. \A x : Behind(<< >>, x) = {}
  BY <1>1 DEF Behind
<1> QED
  BY <1>2, <1>3 DEF Within

(* A queue is within itself.                                               *)
LEMMA SameWithin == ASSUME NEW q PROVE Within(q, q)
BY DEF Within

(* A block put in a queue is behind all the others.                        *)
LEMMA AppendAdds ==
    ASSUME NEW S, NEW q \in Seq(S), NEW b \in S
    PROVE  Append(q, b) \in Seq(S) /\ Added(Append(q, b), q, b)
<1> DEFINE p == Append(q, b)
<1>1. /\ p \in Seq(S) /\ Len(p) = Len(q) + 1 /\ Len(q) \in Nat
      /\ \A i \in 1..Len(q) : p[i] = q[i]
      /\ p[Len(q) + 1] = b
  OBVIOUS
<1> HIDE DEF p
<1>2. \A i \in 1..Len(p) : i \in 1..Len(q) \/ i = Len(q) + 1
  BY <1>1
<1>3. Elems(p) \subseteq Elems(q) \cup {b}
  BY <1>1, <1>2 DEF Elems
<1>4. ASSUME NEW x, NEW y \in Behind(p, x)
      PROVE  y \in Behind(q, x) \/ (y = b /\ x \in Elems(q))
  <2>1. PICK j \in 1..Len(p) : y = p[j] /\ \E i \in 1..(j - 1) : p[i] = x
    BY <1>4 DEF Behind
  <2>2. PICK i \in 1..(j - 1) : p[i] = x
    BY <2>1
  <2>3. i \in 1..Len(q) /\ q[i] = x
    BY <1>1, <2>1, <2>2
  <2>4. j \in 1..Len(q) => y = q[j]
    BY <1>1, <2>1
  <2>5. j = Len(q) + 1 => y = b
    BY <1>1, <2>1
  <2> QED
    BY <1>2, <2>2, <2>3, <2>4, <2>5 DEF Behind, Elems
<1> QED
  BY <1>1, <1>3, <1>4 DEF Added, p

(* Blocks and their fields.                                                *)
LEMMA BlockFacts ==
    ASSUME NEW b \in Blocks
    PROVE  /\ IsI(b) => /\ b.seq \in Bits /\ b.more \in BOOLEAN
                        /\ b.apdu \in Nat /\ b.part \in Nat
           /\ IsR(b) => b.seq \in Bits
BY DEF Blocks, IsI, IsR, NoBlock, Atr, Bad

(* An I-block as either side makes it.                                     *)
LEMMA IBlockFacts ==
    ASSUME NEW n \in Bits, NEW more \in BOOLEAN, NEW a \in Nat, NEW p \in Nat
    PROVE  LET b == IBlock(n, more, a, p)
           IN  /\ b \in Blocks /\ IsI(b) /\ ~IsR(b) /\ b.kind = "I"
               /\ b.seq = n /\ b.more = more /\ b.apdu = a /\ b.part = p
               /\ \A what : b # SRequest(what) /\ b # SResponse(what)
BY DEF IBlock, Blocks, IsI, IsR, SRequest, SResponse

(* A block of a response.                                                  *)
Part(n, a, part, len) == IBlock(n, part < len, a, part)

(* It is an I-block with the fields it was given.                          *)
LEMMA ResponseFacts ==
    ASSUME NEW n \in Bits, NEW a \in Nat, NEW part \in Nat, NEW len \in Nat
    PROVE  LET z == Part(n, a, part, len)
           IN  /\ z \in Blocks /\ IsI(z) /\ ~IsR(z) /\ z.seq = n /\ z.apdu = a
               /\ z.part = part /\ (z.more <=> part < len)
<1> DEFINE more == part < len
<1>1. more \in BOOLEAN /\ Part(n, a, part, len) = IBlock(n, more, a, part)
  BY DEF Part
<1> HIDE DEF more
<1>2. LET z == IBlock(n, more, a, part)
      IN  /\ z \in Blocks /\ IsI(z) /\ ~IsR(z) /\ z.seq = n /\ z.apdu = a
          /\ z.part = part /\ (z.more <=> more)
  BY <1>1, IBlockFacts
<1> QED
  BY <1>1, <1>2, Zenon DEF more

(* An R-block as either side makes it.                                     *)
LEMMA RBlockFacts ==
    ASSUME NEW n \in Bits
    PROVE  LET b == RBlock(n)
           IN  /\ b \in Blocks /\ IsR(b) /\ ~IsI(b) /\ b.kind = "R" /\ b.seq = n
               /\ \A what : b # SRequest(what) /\ b # SResponse(what)
BY DEF RBlock, Blocks, IsI, IsR, SRequest, SResponse

(* The other blocks are neither.                                           *)
LEMMA OtherBlocks ==
    /\ \A what \in {"RESYNCH", "IFS", "WTX"} :
          /\ SRequest(what) \in Blocks /\ SRequest(what).kind = "S"
          /\ ~IsI(SRequest(what)) /\ ~IsR(SRequest(what))
          /\ SResponse(what) \in Blocks /\ SResponse(what).kind = "SR"
          /\ ~IsI(SResponse(what)) /\ ~IsR(SResponse(what))
          /\ SRequest(what) # Bad /\ SResponse(what) # Bad
          /\ \A w \in {"RESYNCH", "IFS", "WTX"} : SRequest(what) # SResponse(w)
    /\ SRequest("RESYNCH") # SRequest("IFS") /\ SResponse("RESYNCH") # SResponse("IFS")
    /\ SRequest("WTX") # SRequest("RESYNCH") /\ SRequest("WTX") # SRequest("IFS")
    /\ Bad \in Blocks /\ ~IsI(Bad) /\ ~IsR(Bad) /\ Bad.kind = "bad"
    /\ Atr \in Blocks /\ ~IsI(Atr) /\ ~IsR(Atr) /\ Atr.kind = "ATR"
    /\ NoBlock \in Blocks /\ ~IsI(NoBlock) /\ ~IsR(NoBlock) /\ NoBlock.kind = "none"
BY DEF SRequest, SResponse, Bad, Atr, NoBlock, Blocks, IsI, IsR

(* Sequence numbers are of one bit.                                        *)
LEMMA FlipFacts ==
    ASSUME NEW n \in Bits
    PROVE  /\ Flip(n) \in Bits /\ Flip(n) # n /\ Flip(Flip(n)) = n
           /\ \A m \in Bits : m # n => m = Flip(n)
BY DEF Flip, Bits

(* A command or response grows by its next part.                           *)
LEMMA PartsGrow ==
    ASSUME NEW a \in Nat, NEW n \in Nat
    PROVE  /\ Parts(a, n) \in Seq(Nat \X Nat) /\ Len(Parts(a, n)) = n
           /\ Parts(a, 0) = << >>
           /\ Append(Parts(a, n), <<a, n + 1>>) = Parts(a, n + 1)
<1>1. \A i \in 1..n : <<a, i>> \in Nat \X Nat
  OBVIOUS
<1>2. Parts(a, n) \in Seq(Nat \X Nat) /\ Len(Parts(a, n)) = n
  BY <1>1 DEF Parts
<1>3. Parts(a, 0) = << >>
  BY DEF Parts
<1>4. Append(Parts(a, n), <<a, n + 1>>) = Parts(a, n + 1)
  <2> DEFINE p == Append(Parts(a, n), <<a, n + 1>>)
             q == Parts(a, n + 1)
  <2>1. /\ p \in Seq(Nat \X Nat) /\ Len(p) = n + 1
        /\ \A i \in 1..n : p[i] = Parts(a, n)[i]
        /\ p[n + 1] = <<a, n + 1>>
    BY <1>2
  <2>2. q \in Seq(Nat \X Nat) /\ Len(q) = n + 1 /\ \A i \in 1..(n + 1) : q[i] = <<a, i>>
    BY DEF Parts
  <2>3. \A i \in 1..n : p[i] = <<a, i>>
    BY <2>1 DEF Parts
  <2> HIDE DEF p, q
  <2>4. \A i \in 1..(n + 1) : p[i] = q[i]
    <3>1. \A i \in 1..(n + 1) : i \in 1..n \/ i = n + 1
      OBVIOUS
    <3> QED
      BY <2>1, <2>2, <2>3, <3>1
  <2>5. p = q
    BY <2>1, <2>2, <2>4, SeqEqual
  <2> QED
    BY <2>5 DEF p, q
<1> QED
  BY <1>2, <1>3, <1>4

(* None of its parts.                                                      *)
LEMMA NoParts == \A a : Parts(a, 0) = << >>
BY DEF Parts

(* What the card executed.                                                 *)
LEMMA RunFacts ==
    ASSUME TypeInv
    PROVE  /\ Len(runs) \in Nat
           /\ \A i \in 1..Len(runs) : runs[i].apdu \in Nat /\ runs[i].len \in Nat
                                       /\ runs[i].len # 0
<1> DEFINE S == [cmd : Seq(Nat \X Nat), apdu : Nat, len : Nat \ {0}]
<1>1. \A x \in S : x.apdu \in Nat /\ x.len \in Nat /\ x.len # 0
  OBVIOUS
<1>2. runs \in Seq(S)
  BY DEF TypeInv
<1> HIDE DEF S
<1>3. Len(runs) \in Nat /\ \A i \in 1..Len(runs) : runs[i] \in S
  BY <1>2
<1> QED
  BY <1>1, <1>3

(* A block on the line arrives, damaged or not, or is lost.                *)
LEMMA ToCardAdds ==
    ASSUME inbox \in Seq(Blocks), NEW b \in Blocks, ToCard(b)
    PROVE  inbox' \in Seq(Blocks) /\ \E c \in {b, Bad} : Added(inbox', inbox, c)
<1>1. Bad \in Blocks
  BY OtherBlocks
<1>2. Added(inbox, inbox, b)
  BY DEF Added
<1>3. CASE inbox' = Append(inbox, b)
  BY <1>3, AppendAdds
<1>4. CASE inbox' = inbox
  BY <1>2, <1>4
<1>5. CASE inbox' = Append(inbox, Bad)
  BY <1>1, <1>5, AppendAdds
<1> QED
  BY <1>3, <1>4, <1>5 DEF ToCard

(* The same towards the host.                                              *)
LEMMA ToHostAdds ==
    ASSUME fifo \in Seq(Blocks), NEW b \in Blocks, ToHost(b)
    PROVE  fifo' \in Seq(Blocks) /\ \E c \in {b, Bad} : Added(fifo', fifo, c)
<1>1. Bad \in Blocks
  BY OtherBlocks
<1>2. Added(fifo, fifo, b)
  BY DEF Added
<1>3. CASE fifo' = Append(fifo, b)
  BY <1>3, AppendAdds
<1>4. CASE fifo' = fifo
  BY <1>2, <1>4
<1>5. CASE fifo' = Append(fifo, Bad)
  BY <1>1, <1>5, AppendAdds
<1> QED
  BY <1>3, <1>4, <1>5 DEF ToHost

-----------------------------------------------------------------------------
(* Steps of the host outside a session                                     *)

(* The session is given up: what is under way no longer matters, except    *)
(* that the card may still take it.                                        *)
LEMMA QuitStep ==
    ASSUME IInv, TypeInv', CallInv', RightResponse', ~session'.initialized,
           call'.site \in {"idle", "reset"},
           UNCHANGED <<card, present, runs, scen>>, Within(inbox', inbox),
           issued' \in {issued, issued + 1},
           call'.site = "reset" /\ call'.apdu # 0 =>
              \/ call'.apdu = issued + 1
              \/ call'.apdu = call.apdu /\ call.site \in Starting \cup {"reset"}
    PROVE  IInv'
<1>1. /\ TypeInv /\ IssuedInv /\ CardInv /\ ExecutedOnce /\ issued \in Nat
      /\ Elems(inbox') \subseteq Elems(inbox)
      /\ \A x : Behind(inbox', x) \subseteq Behind(inbox, x)
  BY DEF IInv, Within, TypeInv
<1>2. call'.site \notin Starting
  BY DEF Starting
<1>3. \A a : Executed(a)' <=> Executed(a)
  BY DEF Executed
<1>4. IssuedInv'
  <2>1. ~Executed(issued + 1)
    BY <1>1 DEF IssuedInv, Executed
  <2>2. \A b \in Elems(inbox) : IsI(b) => b.apdu # issued + 1
    BY <1>1 DEF IssuedInv
  <2> QED
    BY <1>1, <1>2, <1>3, <2>1, <2>2 DEF IssuedInv
<1>5. CardInv'
  <2>1. \A b : NextBlock(b)' <=> NextBlock(b)
    BY <1>3 DEF NextBlock
  <2> QED
    BY <1>1, <2>1 DEF CardInv, Live
<1>6. StartInv' /\ OrderInv'
  BY <1>2 DEF StartInv, OrderInv, Starting
<1>7. SessionInv' /\ InboxInv' /\ FifoInv'
  BY DEF SessionInv, InboxInv, FifoInv
<1>8. ExecutedOnce'
  BY <1>1 DEF ExecutedOnce
<1> QED
  BY <1>4, <1>5, <1>6, <1>7, <1>8 DEF IInv

(* No call and no session.                                                 *)
LEMMA IdleFacts ==
    /\ IsSession(Invalid) /\ ~Invalid.initialized
    /\ IsCall(Idle) /\ Idle.site = "idle" /\ Idle.apdu = 0 /\ Idle.phase = "none"
BY DEF Invalid, Idle, IsSession, IsCall, Bits, Sites

(* A call that fails.                                                      *)
LEMMA FailStep ==
    ASSUME IInv, Fail, UNCHANGED <<card, present, runs, scen, issued>>,
           inbox' \in Seq(Blocks), Within(inbox', inbox), fifo' \in Seq(Blocks)
    PROVE  IInv'
<1>1. TypeInv /\ RightResponse /\ session' = Invalid /\ call' = Idle
  BY DEF IInv, Fail
<1>2. TypeInv'
  BY <1>1, IdleFacts DEF TypeInv
<1>3. CallInv'
  BY <1>1, IdleFacts DEF CallInv, TypeInv, Starting
<1>4. RightResponse'
  <2>1. result'.ok => result' = result
    BY DEF Fail
  <2> QED
    BY <1>1, <2>1 DEF RightResponse
<1> QED
  BY <1>1, <1>2, <1>3, <1>4, IdleFacts, QuitStep

(* DetectCard() finds no card, or the reader is closed.                    *)
LEMMA ForgetStep ==
    ASSUME IInv, call = Idle, session' \in {Invalid, session}, ~session'.initialized,
           UNCHANGED <<call, issued, result, cardvars, inbox, fifo, scen>>
    PROVE  IInv'
<1>1. /\ TypeInv /\ RightResponse /\ CallInv
      /\ UNCHANGED <<card, present, runs>>
  BY DEF IInv, cardvars
<1>2. TypeInv'
  BY <1>1, IdleFacts DEF TypeInv
<1>3. CallInv'
  BY <1>1, <1>2, IdleFacts DEF CallInv, TypeInv, Starting
<1>4. RightResponse'
  BY <1>1 DEF RightResponse
<1> QED
  BY <1>1, <1>2, <1>3, <1>4, IdleFacts, QuitStep, SameWithin

(* A call begins with the reset of the card, or a reset is tried again.    *)
LEMMA BeginResetStep ==
    ASSUME IInv, NEW why, NEW a, NEW n, BeginReset(why, a, n),
           \/ why # "transmit" /\ a = 0 /\ issued' = issued
           \/ a = issued + 1 /\ n \in scen.commands /\ issued' = issued + 1,
           UNCHANGED <<result, cardvars, inbox, fifo, scen>>
    PROVE  IInv'
<1>1. /\ TypeInv /\ RightResponse /\ session' = Invalid
      /\ UNCHANGED <<card, present, runs>> /\ issued \in Nat
  BY DEF IInv, cardvars, BeginReset, TypeInv
<1>2. /\ IsCall(call)' /\ call'.site = "reset" /\ call'.phase = "none" /\ call'.why = why
      /\ call'.apdu = a /\ call'.len = n /\ call'.off = 0 /\ call'.buf = << >>
  BY DEF BeginReset, Idle, IsCall, Sites
<1>3. TypeInv'
  BY <1>1, <1>2, IdleFacts DEF TypeInv
<1>4. CallInv'
  BY <1>1, <1>2, IdleFacts DEF CallInv, Starting
<1>5. RightResponse'
  BY <1>1 DEF RightResponse
<1> QED
  BY <1>1, <1>2, <1>3, <1>4, <1>5, IdleFacts, QuitStep, SameWithin

(* Nothing the invariant speaks of changes.                                *)
LEMMA SameInv ==
    ASSUME IInv, UNCHANGED <<session, call, issued, result, cardvars, inbox, fifo, scen>>
    PROVE  IInv'
<1>1. UNCHANGED <<session, call, issued, result, card, present, runs, inbox, fifo, scen>>
  BY DEF cardvars
<1>2. /\ Live' = Live /\ Taken' = Taken /\ Sent' = Sent /\ Whole' = Whole
      /\ MorePending' = MorePending /\ Block' = Block
      /\ \A b : NextBlock(b)' = NextBlock(b)
      /\ \A a : Executed(a)' = Executed(a)
      /\ \A b, n, q : Reply(b, n, q)' = Reply(b, n, q)
  BY <1>1, Zenon DEF Live, Taken, Sent, Whole, MorePending, Block, NextBlock, Executed, Reply
<1>3. TypeInv' /\ ExecutedOnce' /\ RightResponse'
  BY <1>1 DEF IInv, TypeInv, ExecutedOnce, RightResponse
<1>4. CallInv' /\ IssuedInv' /\ CardInv'
  BY <1>1, <1>2 DEF IInv, CallInv, IssuedInv, CardInv
<1>5. StartInv' /\ OrderInv'
  BY <1>1, <1>2 DEF IInv, StartInv, OrderInv
<1>6. SessionInv'
  BY <1>1, <1>2 DEF IInv, SessionInv
<1>7. InboxInv' /\ FifoInv'
  BY <1>1, <1>2 DEF IInv, InboxInv, FifoInv
<1> QED
  BY <1>3, <1>4, <1>5, <1>6, <1>7 DEF IInv

(* A command begins in a session that is set up.                           *)
LEMMA TransmitStep ==
    ASSUME IInv, call = Idle, session.initialized, NEW n \in scen.commands,
           call' = [Idle EXCEPT !.site = "send", !.phase = "call",
                                !.apdu = issued + 1, !.len = n],
           issued' = issued + 1,
           UNCHANGED <<session, result, cardvars, inbox, fifo, scen>>
    PROVE  IInv'
<1>1. /\ TypeInv /\ CallInv /\ IssuedInv /\ CardInv /\ SessionInv /\ InboxInv /\ FifoInv
      /\ ExecutedOnce /\ RightResponse
      /\ card' = card /\ present' = present /\ runs' = runs
      /\ issued \in Nat /\ n \in Nat /\ n # 0
  BY ScenarioAssumption DEF IInv, cardvars, TypeInv
<1>2. /\ IsCall(call)' /\ call'.site = "send" /\ call'.phase = "call"
      /\ call'.apdu = issued + 1 /\ call'.len = n /\ call'.off = 0 /\ call'.buf = << >>
      /\ call.site = "idle"
  BY DEF Idle, IsCall, Sites, Exchanging
<1>3. TypeInv'
  BY <1>1, <1>2 DEF TypeInv
<1>4. CallInv'
  BY <1>1, <1>2 DEF CallInv, Starting, Exchanging
<1>5. \A a : Executed(a)' <=> Executed(a)
  BY <1>1 DEF Executed
<1>6. ~Executed(issued + 1)
  BY <1>1 DEF IssuedInv, Executed
<1>7. IssuedInv'
  BY <1>1, <1>2 DEF IssuedInv, Starting
<1>8. CardInv'
  <2>1. \A b : NextBlock(b)' <=> NextBlock(b)
    BY <1>1, <1>5 DEF NextBlock
  <2> QED
    BY <1>1, <2>1 DEF CardInv, Live
<1>9. StartInv' /\ OrderInv'
  BY <1>2 DEF StartInv, OrderInv, Starting
<1>10. (Live' <=> Live) /\ (Taken' <=> Taken) /\ (Sent' <=> Sent)
  BY <1>1 DEF Live, Taken, Sent
<1>11. Live => ~Taken /\ ~Sent /\ ~card.wtx /\ card.cmd = << >>
  BY <1>1, <1>2 DEF SessionInv, Whole
<1>12. SessionInv'
  <2>1. Parts(issued + 1, 0) = << >>
    BY NoParts
  <2>2. Live /\ IsI(card.last) => card.last.seq # session.r /\ ~card.last.more
    BY <1>1, <1>2, <1>11 DEF SessionInv
  <2> QED
    BY <1>1, <1>2, <1>5, <1>6, <1>10, <1>11, <2>1, <2>2 DEF SessionInv
<1>13. InboxInv'
  BY <1>1, <1>2, <1>10, <1>11 DEF InboxInv
<1>14. FifoInv'
  BY <1>1, <1>2, <1>10 DEF FifoInv, Whole
<1>15. ExecutedOnce' /\ RightResponse'
  BY <1>1 DEF ExecutedOnce, RightResponse
<1> QED
  BY <1>3, <1>4, <1>7, <1>8, <1>9, <1>12, <1>13, <1>14, <1>15 DEF IInv

(* The calls of the card server and of the PC/SC driver.                   *)
LEMMA CallerStep == ASSUME IInv, Caller, Same PROVE IInv'
<1>1. scen' = scen
  BY DEF Same
<1>2. CASE Open
  <2>1. CASE present
    BY <1>1, <1>2, <2>1, BeginResetStep DEF Open
  <2>2. CASE ~present
    <3>1. UNCHANGED <<session, call, issued, result, cardvars, inbox, fifo, scen>>
      BY <1>1, <1>2, <2>2 DEF Open
    <3> QED
      BY <3>1, SameInv
  <2> QED
    BY <2>1, <2>2
<1>3. CASE Close
  BY <1>1, <1>3, IdleFacts, ForgetStep DEF Close
<1>4. CASE GetStatus
  BY <1>1, <1>4, IdleFacts, ForgetStep, BeginResetStep DEF GetStatus, Forget
<1>5. CASE Reset
  BY <1>1, <1>5, IdleFacts, ForgetStep, BeginResetStep DEF Reset, Forget
<1>6. CASE Transmit
  BY <1>1, <1>6, IdleFacts, ForgetStep, BeginResetStep, TransmitStep DEF Transmit, Forget
<1> QED
  BY <1>2, <1>3, <1>4, <1>5, <1>6 DEF Caller

(* A card is taken out or put in: it is not reset yet.                     *)
LEMMA SwapStep ==
    ASSUME IInv, card' = NewCard, present' \in BOOLEAN,
           UNCHANGED <<hostvars, inbox, fifo, runs, scen>>
    PROVE  IInv'
<1>1. /\ UNCHANGED <<session, call, issued, result, inbox, fifo, runs, scen>>
      /\ ~Live'
  BY DEF hostvars, Live, NewCard
<1>2. /\ Whole' = Whole /\ MorePending' = MorePending
      /\ \A a : Executed(a)' = Executed(a)
      /\ \A b, n, q : Reply(b, n, q)' = Reply(b, n, q)
  BY <1>1, Zenon DEF Whole, MorePending, Executed, Reply
<1>3. IsCard(card)'
  BY OtherBlocks DEF NewCard, IsCard, Bits
<1>4. TypeInv' /\ ExecutedOnce' /\ RightResponse'
  BY <1>1, <1>3 DEF IInv, TypeInv, ExecutedOnce, RightResponse
<1>5. CallInv' /\ IssuedInv'
  BY <1>1, <1>2 DEF IInv, CallInv, IssuedInv
<1>6. CardInv' /\ OrderInv' /\ SessionInv' /\ InboxInv'
  BY <1>1 DEF CardInv, OrderInv, SessionInv, InboxInv
<1>7. StartInv'
  BY <1>1 DEF IInv, StartInv
<1>8. FifoInv'
  BY <1>1, <1>2 DEF IInv, FifoInv
<1> QED
  BY <1>4, <1>5, <1>6, <1>7, <1>8 DEF IInv

-----------------------------------------------------------------------------
(* Steps of the host within an exchange                                    *)

(* The exchange goes on: retries are counted, blocks are read.             *)
GoesOn ==
    /\ call' = [call EXCEPT !.phase = call'.phase, !.tries = call'.tries,
                            !.retry = call'.retry]
    /\ call.site \in Exchanging
    /\ fifo' \in Seq(Blocks) /\ Within(fifo', fifo)
    /\ UNCHANGED <<session, issued, result, cardvars, scen>>

(* What the host knows stays the same.                                     *)
LEMMA GoesOnKnows ==
    ASSUME IInv, GoesOn, inbox' \in Seq(Blocks)
    PROVE  /\ TypeInv' /\ CallInv' /\ SessionInv' /\ FifoInv'
           /\ ExecutedOnce' /\ RightResponse'
           /\ Live' = Live /\ Taken' = Taken /\ Sent' = Sent /\ Block' = Block
           /\ \A b : NextBlock(b)' = NextBlock(b)
           /\ \A a : Executed(a)' = Executed(a)
           /\ call'.site = call.site /\ call'.apdu = call.apdu
           /\ card' = card /\ runs' = runs
<1>1. /\ TypeInv /\ CallInv /\ SessionInv /\ FifoInv /\ ExecutedOnce /\ RightResponse
      /\ UNCHANGED <<session, issued, result, card, present, runs, scen>>
      /\ Elems(fifo') \subseteq Elems(fifo)
      /\ \A x : Behind(fifo', x) \subseteq Behind(fifo, x)
  BY DEF IInv, GoesOn, cardvars, Within
<1>2. /\ IsCall(call') /\ call'.site = call.site /\ call'.why = call.why
      /\ call'.apdu = call.apdu /\ call'.len = call.len /\ call'.off = call.off
      /\ call'.buf = call.buf
  BY <1>1 DEF GoesOn, TypeInv, IsCall
<1>3. /\ Live' = Live /\ Taken' = Taken /\ Sent' = Sent /\ Whole' = Whole
      /\ MorePending' = MorePending /\ Block' = Block
      /\ \A b : NextBlock(b)' = NextBlock(b)
      /\ \A a : Executed(a)' = Executed(a)
      /\ \A b, n, q : Reply(b, n, q)' = Reply(b, n, q)
  BY <1>1, <1>2, Zenon DEF Live, Taken, Sent, Whole, MorePending, Block, NextBlock,
     Executed, Reply
<1>4. TypeInv' /\ ExecutedOnce' /\ RightResponse'
  BY <1>1, <1>2 DEF GoesOn, TypeInv, ExecutedOnce, RightResponse
<1>5. CallInv'
  BY <1>1, <1>2, <1>3 DEF GoesOn, CallInv, Exchanging
<1>6. SessionInv'
  BY <1>1, <1>2, <1>3 DEF SessionInv
<1>7. FifoInv'
  BY <1>1, <1>2, <1>3 DEF FifoInv
<1> QED
  BY <1>1, <1>2, <1>3, <1>4, <1>5, <1>6, <1>7

(* The exchange goes on, and at most a block that is no part of the        *)
(* numbering is sent: a timeout, a damaged answer, more time.              *)
LEMMA QuietStep ==
    ASSUME IInv, GoesOn, inbox' \in Seq(Blocks),
           NEW c, Added(inbox', inbox, c), c.kind \in {"bad", "SR"}
    PROVE  IInv'
<1>1. /\ TypeInv' /\ CallInv' /\ SessionInv' /\ FifoInv' /\ ExecutedOnce' /\ RightResponse'
      /\ Live' = Live /\ Taken' = Taken /\ Sent' = Sent /\ Block' = Block
      /\ \A b : NextBlock(b)' = NextBlock(b)
      /\ \A a : Executed(a)' = Executed(a)
      /\ call'.site = call.site /\ call'.apdu = call.apdu /\ card' = card /\ runs' = runs
      /\ session' = session /\ issued' = issued
  BY GoesOnKnows DEF GoesOn
<1>2. /\ Elems(inbox') \subseteq Elems(inbox) \cup {c}
      /\ \A x, y : y \in Behind(inbox', x) => y \in Behind(inbox, x) \/ (y = c /\ x \in Elems(inbox))
      /\ Elems(fifo') \subseteq Elems(fifo)
      /\ \A x : Behind(fifo', x) \subseteq Behind(fifo, x)
  BY DEF GoesOn, Added, Within
<1>3. /\ ~IsI(c) /\ ~IsR(c)
      /\ \A what \in {"RESYNCH", "IFS"} : c # SRequest(what)
  BY OtherBlocks DEF IsI, IsR
<1>4. IssuedInv'
  BY <1>1, <1>2, <1>3 DEF IInv, IssuedInv
<1>5. CardInv'
  BY <1>1, <1>2, <1>3 DEF IInv, CardInv
<1>6. StartInv'
  BY <1>1, <1>2, <1>3 DEF IInv, StartInv
<1>7. OrderInv'
  <2>1. call.site # "atr"
    BY DEF GoesOn, Exchanging
  <2> QED
    BY <1>1, <1>2, <1>3, <2>1 DEF IInv, OrderInv
<1>8. InboxInv'
  BY <1>1, <1>2, <1>3 DEF IInv, InboxInv
<1> QED
  BY <1>1, <1>4, <1>5, <1>6, <1>7, <1>8 DEF IInv

(* The block of an exchange.                                               *)
LEMMA BlockOfSite ==
    ASSUME TypeInv, CallInv
    PROVE  /\ call.site \in {"resynch", "resynch1"} => Block = SRequest("RESYNCH")
           /\ call.site \in {"ifs", "ifs1"} => Block = SRequest("IFS")
           /\ call.site = "send" =>
                 /\ Block = IBlock(session.s, MorePending, call.apdu, call.off + 1)
                 /\ Block \in Blocks /\ IsI(Block) /\ ~IsR(Block) /\ Block.seq = session.s
                 /\ Block.more = MorePending /\ Block.apdu = call.apdu
                 /\ Block.part = call.off + 1 /\ call.off \in Nat
                 /\ \A what : Block # SRequest(what)
           /\ call.site \in {"fetch", "chain"} =>
                 /\ Block = RBlock(session.r)
                 /\ Block \in Blocks /\ IsR(Block) /\ ~IsI(Block) /\ Block.seq = session.r
                 /\ \A what : Block # SRequest(what)
           /\ call.site \in Exchanging => Block \in Blocks
<1>1. session.s \in Bits /\ session.r \in Bits /\ issued \in Nat
  BY DEF TypeInv, IsSession
<1>2. call.site \in {"resynch", "resynch1"} => Block = SRequest("RESYNCH")
  BY DEF Block
<1>3. call.site \in {"ifs", "ifs1"} => Block = SRequest("IFS")
  BY DEF Block
<1>4. ASSUME call.site = "send"
      PROVE  /\ Block = IBlock(session.s, MorePending, call.apdu, call.off + 1)
             /\ call.apdu \in Nat /\ call.off \in Nat /\ MorePending \in BOOLEAN
  BY <1>1, <1>4 DEF Block, MorePending, CallInv
<1>5. call.site \in {"fetch", "chain"} => Block = RBlock(session.r)
  BY DEF Block
<1>6. ASSUME call.site = "send"
      PROVE  /\ Block \in Blocks /\ IsI(Block) /\ ~IsR(Block) /\ Block.seq = session.s
             /\ Block.more = MorePending /\ Block.apdu = call.apdu
             /\ Block.part = call.off + 1
             /\ \A what : Block # SRequest(what)
  <2>1. call.off + 1 \in Nat
    BY <1>4, <1>6
  <2> QED
    BY <1>1, <1>4, <1>6, <2>1, IBlockFacts
<1>7. ASSUME call.site \in {"fetch", "chain"}
      PROVE  /\ Block \in Blocks /\ IsR(Block) /\ ~IsI(Block) /\ Block.seq = session.r
             /\ \A what : Block # SRequest(what)
  BY <1>1, <1>5, <1>7, RBlockFacts
<1>8. call.site \in Exchanging => Block \in Blocks
  BY <1>2, <1>3, <1>6, <1>7, OtherBlocks DEF Exchanging
<1> QED
  BY <1>2, <1>3, <1>4, <1>5, <1>6, <1>7, <1>8

(* RESYNCH or IFS is sent.                                                 *)
LEMMA SendSetupStep ==
    ASSUME IInv, GoesOn, inbox' \in Seq(Blocks), call.site \in Starting,
           Added(inbox', inbox, Block)
    PROVE  IInv'
<1>1. /\ TypeInv' /\ CallInv' /\ SessionInv' /\ FifoInv' /\ ExecutedOnce' /\ RightResponse'
      /\ Live' = Live /\ card' = card /\ runs' = runs
      /\ \A a : Executed(a)' = Executed(a)
      /\ call'.site = call.site /\ call'.apdu = call.apdu
      /\ session' = session /\ issued' = issued
  BY GoesOnKnows DEF GoesOn
<1>2. /\ Elems(inbox') \subseteq Elems(inbox) \cup {Block}
      /\ \A x, y : y \in Behind(inbox', x) =>
                      y \in Behind(inbox, x) \/ (y = Block /\ x \in Elems(inbox))
      /\ Elems(fifo') \subseteq Elems(fifo)
      /\ \A x : Behind(fifo', x) \subseteq Behind(fifo, x)
  BY DEF GoesOn, Added, Within
<1>3. /\ call.site \in {"resynch", "resynch1", "ifs", "ifs1"}
      /\ call.site \in {"resynch", "resynch1"} => Block = SRequest("RESYNCH")
      /\ call.site \in {"ifs", "ifs1"} => Block = SRequest("IFS")
      /\ ~IsI(Block) /\ ~IsR(Block)
  BY BlockOfSite, OtherBlocks DEF IInv, GoesOn, Starting, Exchanging
<1>4. /\ SRequest("RESYNCH") # SRequest("IFS")
      /\ StartInv /\ OrderInv /\ CardInv /\ IssuedInv /\ CallInv
  BY OtherBlocks DEF IInv
<1>5. ~session.initialized
  BY <1>4 DEF CallInv, Starting
<1>6. IssuedInv'
  BY <1>1, <1>2, <1>3, <1>4 DEF IssuedInv
<1>7. StartInv'
  BY <1>1, <1>2, <1>3, <1>4 DEF StartInv
<1>8. CardInv'
  <2>1. Live => \A b \in Elems(inbox') : ~IsI(b)
    BY <1>2, <1>3, <1>4 DEF StartInv
  <2> QED
    BY <1>1, <1>4, <2>1 DEF CardInv
<1>9. OrderInv'
  <2>1. CASE call.site \in {"resynch", "resynch1"}
    BY <1>1, <1>2, <1>3, <1>4, <2>1 DEF OrderInv
  <2>2. CASE call.site \in {"ifs", "ifs1"}
    BY <1>1, <1>2, <1>3, <1>4, <2>2 DEF OrderInv
  <2> QED
    BY <1>3, <2>1, <2>2
<1>10. InboxInv'
  BY <1>1, <1>5 DEF InboxInv
<1> QED
  BY <1>1, <1>6, <1>7, <1>8, <1>9, <1>10 DEF IInv

(* A block of the command is sent, for the first time or again.            *)
LEMMA SendCommandStep ==
    ASSUME IInv, GoesOn, inbox' \in Seq(Blocks), call.site = "send",
           Added(inbox', inbox, Block)
    PROVE  IInv'
<1>1. /\ TypeInv' /\ CallInv' /\ SessionInv' /\ FifoInv' /\ ExecutedOnce' /\ RightResponse'
      /\ Live' = Live /\ Taken' = Taken /\ Sent' = Sent /\ Block' = Block
      /\ \A b : NextBlock(b)' = NextBlock(b)
      /\ \A a : Executed(a)' = Executed(a)
      /\ call'.site = call.site /\ call'.apdu = call.apdu /\ card' = card /\ runs' = runs
      /\ session' = session /\ issued' = issued
  BY GoesOnKnows DEF GoesOn
<1>2. /\ Elems(inbox') \subseteq Elems(inbox) \cup {Block}
      /\ \A x, y : y \in Behind(inbox', x) =>
                      y \in Behind(inbox, x) \/ (y = Block /\ x \in Elems(inbox))
  BY DEF GoesOn, Added
<1>3. /\ TypeInv /\ CallInv /\ CardInv /\ InboxInv /\ SessionInv /\ IssuedInv
      /\ session.initialized
  BY DEF IInv, CallInv
<1>4. /\ IsI(Block) /\ ~IsR(Block) /\ Block.seq = session.s
      /\ Block.more = MorePending /\ Block.apdu = call.apdu /\ Block.part = call.off + 1
      /\ Block # SRequest("RESYNCH") /\ call.off \in Nat
  BY <1>3, BlockOfSite
<1>5. IssuedInv'
  <2>1. call.apdu \in 0..issued /\ call'.site \notin Starting \cup {"reset"}
    BY <1>1, <1>3 DEF CallInv, Starting
  <2> QED
    BY <1>1, <1>2, <1>3, <1>4, <2>1 DEF IssuedInv
<1>6. ASSUME Live, ~Taken PROVE NextBlock(Block)
  <2>1. ~Executed(call.apdu) /\ card.cmd = Parts(call.apdu, call.off) /\ ~card.wtx
    BY <1>3, <1>6 DEF SessionInv
  <2>2. ~MorePending => call.off + 1 \in scen.commands
    <3>1. call.len \in Nat /\ call.len \in scen.commands /\ call.off < call.len
      BY <1>3, ScenarioAssumption DEF CallInv, TypeInv
    <3>2. ~MorePending => call.off + 1 = call.len
      BY <1>4, <3>1 DEF MorePending
    <3> QED
      BY <3>1, <3>2
  <2>3. call.off + 1 # 0 /\ call.off + 1 - 1 = call.off
    BY <1>4
  <2> QED
    BY <1>4, <2>1, <2>2, <2>3 DEF NextBlock
<1>7. CardInv'
  <2> SUFFICES ASSUME Live, NEW b \in Elems(inbox')
               PROVE  /\ b = SRequest("RESYNCH") => \A x \in Elems(inbox') : ~IsI(x)
                      /\ IsI(b) /\ b.seq = card.expect =>
                            NextBlock(b) /\ \A y \in Behind(inbox', b) : IsI(y) => y = b
    BY <1>1, <1>3 DEF CardInv
  <2>1. b # SRequest("RESYNCH")
    BY <1>2, <1>3, <1>4 DEF InboxInv
  <2>2. ASSUME IsI(b), b.seq = card.expect
        PROVE  NextBlock(b) /\ \A y \in Behind(inbox', b) : IsI(y) => y = b
    <3>1. ~Taken /\ b.seq = session.s
      BY <1>2, <1>3, <1>4, <2>2 DEF InboxInv, Taken
    <3>2. b = Block
      BY <1>2, <1>3, <2>2, <3>1 DEF InboxInv
    <3>3. b \in Elems(inbox) => \A y \in Behind(inbox, b) : IsI(y) => y = b
      BY <1>3, <2>2 DEF CardInv
    <3>4. \A y \in Behind(inbox, b) : b \in Elems(inbox)
      BY <1>3, NothingBehind DEF TypeInv
    <3> QED
      BY <1>2, <1>6, <3>1, <3>2, <3>3, <3>4
  <2> QED
    BY <2>1, <2>2
<1>8. StartInv' /\ OrderInv'
  BY <1>1 DEF StartInv, OrderInv, Starting
<1>9. InboxInv'
  <2> SUFFICES ASSUME Live
               PROVE  InboxInv'
    BY <1>1 DEF InboxInv
  <2>1. SRequest("RESYNCH") \notin Elems(inbox')
    BY <1>2, <1>3, <1>4 DEF InboxInv
  <2>2. \A b \in Elems(inbox') :
           /\ IsI(b) /\ b.seq = session.s => b = Block
           /\ IsI(b) /\ b.seq # session.s => ~Taken
           /\ IsR(b) => b.seq # session.r /\ ~Taken /\ ~Sent
    BY <1>2, <1>3, <1>4 DEF InboxInv
  <2>3. ASSUME NEW b \in Elems(inbox'), IsI(b), b.seq = session.s,
               NEW y \in Behind(inbox', b)
        PROVE  ~IsR(y) /\ (IsI(y) => y.seq = session.s)
    <3>1. y \in Behind(inbox, b) => b \in Elems(inbox)
      BY <1>3, NothingBehind DEF TypeInv
    <3> QED
      BY <1>2, <1>3, <1>4, <2>3, <3>1 DEF InboxInv
  <2> QED
    BY <1>1, <2>1, <2>2, <2>3 DEF InboxInv
<1> QED
  BY <1>1, <1>5, <1>7, <1>8, <1>9 DEF IInv

(* The response is asked for, for the first time or again.                 *)
LEMMA SendRequestStep ==
    ASSUME IInv, GoesOn, inbox' \in Seq(Blocks), call.site \in {"fetch", "chain"},
           Added(inbox', inbox, Block)
    PROVE  IInv'
<1>1. /\ TypeInv' /\ CallInv' /\ SessionInv' /\ FifoInv' /\ ExecutedOnce' /\ RightResponse'
      /\ Live' = Live /\ Taken' = Taken /\ Sent' = Sent /\ Block' = Block
      /\ \A b : NextBlock(b)' = NextBlock(b)
      /\ \A a : Executed(a)' = Executed(a)
      /\ call'.site = call.site /\ call'.apdu = call.apdu /\ card' = card /\ runs' = runs
      /\ session' = session /\ issued' = issued
  BY GoesOnKnows DEF GoesOn
<1>2. /\ Elems(inbox') \subseteq Elems(inbox) \cup {Block}
      /\ \A x, y : y \in Behind(inbox', x) =>
                      y \in Behind(inbox, x) \/ (y = Block /\ x \in Elems(inbox))
  BY DEF GoesOn, Added
<1>3. /\ TypeInv /\ CallInv /\ CardInv /\ InboxInv /\ IssuedInv
      /\ session.initialized
  BY DEF IInv, CallInv
<1>4. /\ ~IsI(Block) /\ IsR(Block) /\ Block.seq = session.r /\ Block # SRequest("RESYNCH")
  BY <1>3, BlockOfSite
<1>5. call'.site \notin Starting \cup {"reset"}
  BY <1>1 DEF Starting
<1>6. IssuedInv'
  BY <1>1, <1>2, <1>3, <1>4, <1>5 DEF IssuedInv
<1>7. CardInv'
  BY <1>1, <1>2, <1>3, <1>4 DEF CardInv
<1>8. StartInv' /\ OrderInv'
  BY <1>1 DEF StartInv, OrderInv, Starting
<1>9. InboxInv'
  <2> SUFFICES ASSUME Live
               PROVE  InboxInv'
    BY <1>1 DEF InboxInv
  <2>1. SRequest("RESYNCH") \notin Elems(inbox')
    BY <1>2, <1>3, <1>4 DEF InboxInv
  <2>2. \A b \in Elems(inbox') :
           /\ IsI(b) /\ b.seq = session.s => call.site = "fetch"
           /\ IsI(b) /\ b.seq # session.s => ~Taken
           /\ IsR(b) /\ b.seq # session.r => ~Taken /\ ~Sent
    BY <1>2, <1>3, <1>4 DEF InboxInv
  <2>3. ASSUME NEW b \in Elems(inbox'), IsR(b), b.seq = session.r,
               NEW y \in Behind(inbox', b), IsR(y)
        PROVE  y.seq = session.r
    <3>1. y \in Behind(inbox, b) => b \in Elems(inbox)
      BY <1>3, NothingBehind DEF TypeInv
    <3> QED
      BY <1>2, <1>3, <1>4, <2>3, <3>1 DEF InboxInv
  <2> QED
    BY <1>1, <2>1, <2>2, <2>3 DEF InboxInv
<1> QED
  BY <1>1, <1>6, <1>7, <1>8, <1>9 DEF IInv

-----------------------------------------------------------------------------
(* Setting a session up                                                    *)

(* A card that was just reset.                                             *)
LEMMA ResetCardFacts ==
    ASSUME card' = [NewCard EXCEPT !.on = TRUE]
    PROVE  /\ IsCard(card') /\ card'.expect = 0 /\ card'.ns = 0 /\ card'.cmd = << >>
           /\ card'.last = NoBlock /\ ~card'.wtx /\ card'.on
<1>1. card' = [on |-> TRUE, expect |-> 0, ns |-> 0, cmd |-> << >>, last |-> NoBlock,
               len |-> 0, wtx |-> FALSE]
  BY DEF NewCard
<1>2. NoBlock \in Blocks /\ << >> \in Seq(Nat \X Nat)
  BY OtherBlocks
<1>3. /\ card'.on = TRUE /\ card'.expect = 0 /\ card'.ns = 0 /\ card'.cmd = << >>
      /\ card'.last = NoBlock /\ card'.len = 0 /\ card'.wtx = FALSE
  BY <1>1
<1>4. card' = [on |-> card'.on, expect |-> card'.expect, ns |-> card'.ns, cmd |-> card'.cmd,
               last |-> card'.last, len |-> card'.len, wtx |-> card'.wtx]
  BY <1>1, <1>3, Zenon
<1>5. card'.on \in BOOLEAN /\ card'.wtx \in BOOLEAN /\ ~card'.wtx
  BY <1>3
<1>6. card'.expect \in Bits /\ card'.ns \in Bits /\ card'.len \in Nat
  BY <1>3 DEF Bits
<1>7. card'.last \in Blocks /\ card'.cmd \in Seq(Nat \X Nat)
  BY <1>2, <1>3, Zenon
<1> QED
  BY <1>3, <1>4, <1>5, <1>6, <1>7, Zenon DEF IsCard

(* The card is reset: both queues are new.                                 *)
LEMMA ResetStep ==
    ASSUME IInv, call.site = "reset", card' = [NewCard EXCEPT !.on = TRUE],
           fifo' \in {<<Atr>>, <<Bad, Atr>>}, inbox' = << >>,
           call' = [call EXCEPT !.site = "atr"],
           UNCHANGED <<session, issued, result, present, runs, scen>>
    PROVE  IInv'
<1>1. /\ TypeInv /\ CallInv /\ IssuedInv /\ ExecutedOnce /\ RightResponse
      /\ ~session.initialized
  BY DEF IInv, CallInv
<1>2. /\ IsCall(call') /\ call'.site = "atr" /\ call'.phase = call.phase
      /\ call'.why = call.why /\ call'.apdu = call.apdu /\ call'.len = call.len
      /\ call'.off = call.off /\ call'.buf = call.buf
  BY <1>1 DEF TypeInv, IsCall, Sites
<1>3. /\ IsCard(card') /\ card'.expect = 0 /\ card'.ns = 0 /\ card'.cmd = << >>
      /\ card'.last = NoBlock /\ ~card'.wtx
  BY ResetCardFacts
<1>4. Elems(inbox') = {} /\ inbox' \in Seq(Blocks)
  BY EmptyWithin
<1>5. fifo' \in Seq(Blocks) /\ Elems(fifo') \subseteq {Bad, Atr}
  <2>1. \A b \in Blocks : <<b>> \in Seq(Blocks) /\ Elems(<<b>>) \subseteq {b}
    BY DEF Elems
  <2>2. \A a, b \in Blocks : <<a, b>> \in Seq(Blocks) /\ Elems(<<a, b>>) \subseteq {a, b}
    BY DEF Elems
  <2>3. Atr \in Blocks /\ Bad \in Blocks
    BY OtherBlocks
  <2>4. CASE fifo' = <<Atr>>
    BY <2>1, <2>3, <2>4
  <2>5. CASE fifo' = <<Bad, Atr>>
    BY <2>2, <2>3, <2>5
  <2> QED
    BY <2>4, <2>5
<1>6. TypeInv'
  BY <1>1, <1>2, <1>3, <1>4, <1>5 DEF TypeInv
<1>7. CallInv'
  BY <1>1, <1>2 DEF CallInv, Starting, Exchanging
<1>8. IssuedInv'
  <2>1. \A a : Executed(a)' = Executed(a)
    BY Zenon DEF Executed
  <2> QED
    BY <1>1, <1>2, <1>4, <2>1 DEF IssuedInv, Starting
<1>9. CardInv'
  BY <1>3, <1>4 DEF CardInv
<1>10. StartInv'
  BY <1>3, <1>4, <1>5, OtherBlocks DEF StartInv
<1>11. OrderInv'
  BY <1>2, <1>4, <1>5, OtherBlocks DEF OrderInv
<1>12. SessionInv' /\ InboxInv' /\ FifoInv'
  BY <1>1 DEF SessionInv, InboxInv, FifoInv
<1>13. ExecutedOnce' /\ RightResponse'
  BY <1>1 DEF ExecutedOnce, RightResponse
<1> QED
  BY <1>6, <1>7, <1>8, <1>9, <1>10, <1>11, <1>12, <1>13 DEF IInv

(* A step from one exchange of InitializeT1() to the next.                 *)
LEMMA SetupStep ==
    ASSUME IInv, call.site \in Starting, NEW site \in Starting \cap Exchanging,
           call' = [call EXCEPT !.site = site, !.phase = call'.phase,
                                !.tries = call'.tries, !.retry = call'.retry],
           fifo' \in Seq(Blocks), Within(fifo', fifo), OrderInv',
           UNCHANGED <<session, issued, result, cardvars, inbox, scen>>
    PROVE  IInv'
<1>1. /\ TypeInv /\ CallInv /\ IssuedInv /\ CardInv /\ StartInv
      /\ ExecutedOnce /\ RightResponse /\ ~session.initialized
      /\ card' = card /\ present' = present /\ runs' = runs
      /\ Elems(fifo') \subseteq Elems(fifo)
  BY DEF IInv, CallInv, cardvars, Within, Starting
<1>2. /\ IsCall(call') /\ call'.site = site
      /\ call'.why = call.why /\ call'.apdu = call.apdu /\ call'.len = call.len
      /\ call'.off = call.off /\ call'.buf = call.buf
  BY <1>1 DEF TypeInv, IsCall, Sites
<1>3. TypeInv'
  BY <1>1, <1>2 DEF TypeInv
<1>4. CallInv'
  BY <1>1, <1>2 DEF CallInv, Starting, Exchanging
<1>5. \A a : Executed(a)' = Executed(a)
  BY <1>1, Zenon DEF Executed
<1>6. IssuedInv'
  BY <1>1, <1>2, <1>5 DEF IssuedInv
<1>7. CardInv'
  <2>1. \A b : NextBlock(b)' = NextBlock(b)
    BY <1>1, <1>5, Zenon DEF NextBlock
  <2> QED
    BY <1>1, <2>1 DEF CardInv, Live
<1>8. StartInv'
  BY <1>1, <1>2 DEF StartInv, Live
<1>9. SessionInv' /\ InboxInv' /\ FifoInv'
  BY <1>1 DEF SessionInv, InboxInv, FifoInv
<1>10. ExecutedOnce' /\ RightResponse'
  BY <1>1 DEF ExecutedOnce, RightResponse
<1> QED
  BY <1>3, <1>4, <1>6, <1>7, <1>8, <1>9, <1>10 DEF IInv

(* InitializeT1() has ended: both sides begin to count at 0.               *)
LEMMA InitializedStep ==
    ASSUME IInv, call.site \in Starting, Initialized,
           Live => SRequest("RESYNCH") \notin Elems(inbox),
           fifo' \in Seq(Blocks), Within(fifo', fifo),
           UNCHANGED <<issued, cardvars, inbox, scen>>
    PROVE  IInv'
<1>1. /\ TypeInv /\ CallInv /\ IssuedInv /\ CardInv /\ StartInv
      /\ ExecutedOnce /\ RightResponse
      /\ card' = card /\ present' = present /\ runs' = runs /\ result' = result
      /\ Elems(fifo') \subseteq Elems(fifo)
  BY DEF IInv, cardvars, Within, Initialized
<1>2. IsSession(session') /\ session'.initialized /\ session'.s = 0 /\ session'.r = 0
  BY DEF Initialized, IsSession, Bits
<1>3. /\ IsCall(call') /\ call'.site \in {"idle", "send"}
      /\ call'.site = "idle" => call' = Idle
      /\ call'.site = "send" =>
            /\ call.why = "transmit" /\ call'.apdu = call.apdu /\ call'.len = call.len
            /\ call'.off = call.off /\ call'.buf = call.buf
  <2>1. CASE call.why = "transmit"
    BY <1>1, <2>1 DEF Initialized, Goto, TypeInv, IsCall, Sites, Exchanging
  <2>2. CASE call.why # "transmit"
    BY <2>2, IdleFacts DEF Initialized
  <2> QED
    BY <2>1, <2>2
<1>4. ASSUME call'.site = "send"
      PROVE  /\ call'.apdu \in 0..issued /\ call'.apdu # 0 /\ call'.len \in scen.commands
             /\ call'.off = 0 /\ call'.buf = << >>
             /\ ~Executed(call'.apdu)
  BY <1>1, <1>3, <1>4 DEF CallInv, IssuedInv
<1>5. TypeInv'
  BY <1>1, <1>2, <1>3 DEF TypeInv
<1>6. CallInv'
  <2>1. scen.commands \subseteq Nat \ {0}
    BY <1>1, ScenarioAssumption DEF TypeInv
  <2>2. call'.site = "idle" => call'.apdu = 0 /\ call'.phase = "none"
    BY <1>3, IdleFacts
  <2>3. call'.site \notin Starting \cup {"reset"} /\ issued \in Nat
    BY <1>1, <1>3 DEF Starting, TypeInv
  <2>4. call'.site = "send" => call'.off \in Nat /\ call'.off < call'.len
    BY <1>4, <2>1
  <2> QED
    BY <1>2, <1>3, <1>4, <2>2, <2>3, <2>4 DEF CallInv, Exchanging
<1>7. \A a : Executed(a)' = Executed(a)
  BY <1>1, Zenon DEF Executed
<1>8. IssuedInv'
  BY <1>1, <1>3 DEF IssuedInv, Starting
<1>9. CardInv'
  <2>1. \A b : NextBlock(b)' = NextBlock(b)
    BY <1>1, <1>7, Zenon DEF NextBlock
  <2> QED
    BY <1>1, <2>1 DEF CardInv, Live
<1>10. StartInv' /\ OrderInv'
  BY <1>3 DEF StartInv, OrderInv, Starting
<1>11. /\ Live' = Live
       /\ Live => /\ ~Taken' /\ ~Sent' /\ card.cmd = << >> /\ card.last = NoBlock /\ ~card.wtx
                  /\ \A b \in Elems(inbox) : ~IsI(b) /\ ~IsR(b)
  BY <1>1, <1>2 DEF Live, Taken, Sent, StartInv
<1>12. SessionInv'
  BY <1>1, <1>3, <1>4, <1>7, <1>11, NoParts, OtherBlocks DEF SessionInv
<1>13. InboxInv'
  BY <1>11 DEF InboxInv
<1>14. FifoInv'
  <2>1. \A f \in Elems(fifo') : ~IsI(f) /\ (IsR(f) => f.seq = 0)
    BY <1>1 DEF StartInv
  <2> QED
    BY <1>2, <1>3, <2>1 DEF FifoInv
<1>15. ExecutedOnce' /\ RightResponse'
  BY <1>1 DEF ExecutedOnce, RightResponse
<1> QED
  BY <1>5, <1>6, <1>8, <1>9, <1>10, <1>12, <1>13, <1>14, <1>15 DEF IInv

-----------------------------------------------------------------------------
(* Answers in a session                                                    *)

(* The first block in the queue is taken, and perhaps the others dropped.  *)
Reads(f) ==
    /\ f \in Blocks /\ f \in Elems(fifo)
    /\ fifo' \in Seq(Blocks) /\ Within(fifo', fifo)
    /\ Elems(fifo') \subseteq Behind(fifo, f)

(* ReceiveBlock() takes the first block.                                   *)
LEMMA DiscardReads ==
    ASSUME fifo \in Seq(Blocks), fifo # << >>, NEW k \in 1..Len(fifo), Discard(k)
    PROVE  Reads(Head(fifo))
<1>1. /\ Tail(fifo) \in Seq(Blocks) /\ Within(Tail(fifo), fifo)
      /\ Head(fifo) \in Blocks /\ Head(fifo) \in Elems(fifo)
      /\ Elems(Tail(fifo)) \subseteq Behind(fifo, Head(fifo))
  BY TailWithin
<1>2. CASE fifo' = Tail(fifo)
  BY <1>1, <1>2 DEF Reads
<1>3. CASE fifo' = << >>
  <2>1. << >> \in Seq(Blocks) /\ Elems(<< >>) = {} /\ Within(<< >>, fifo)
    BY EmptyWithin
  <2> QED
    BY <1>1, <1>3, <2>1 DEF Reads
<1> QED
  BY <1>2, <1>3 DEF Discard

(* What the host learns does not change what the card is sent.             *)
LEMMA Moved ==
    ASSUME IInv, IsSession(session'), IsCall(call'),
           call'.site \in {"idle", "send", "fetch", "chain"},
           fifo' \in Seq(Blocks), UNCHANGED <<issued, cardvars, inbox, scen>>
    PROVE  /\ TypeInv' /\ IssuedInv' /\ CardInv' /\ StartInv' /\ OrderInv' /\ ExecutedOnce'
           /\ Live' = Live /\ card' = card /\ runs' = runs
           /\ \A a : Executed(a)' = Executed(a)
<1>1. /\ TypeInv /\ IssuedInv /\ CardInv /\ ExecutedOnce
      /\ card' = card /\ present' = present /\ runs' = runs
  BY DEF IInv, cardvars
<1>2. \A a : Executed(a)' = Executed(a)
  BY <1>1, Zenon DEF Executed
<1>3. \A b : NextBlock(b)' = NextBlock(b)
  BY <1>1, <1>2, Zenon DEF NextBlock
<1>4. TypeInv' /\ ExecutedOnce'
  BY <1>1 DEF TypeInv, ExecutedOnce
<1>5. IssuedInv' /\ StartInv' /\ OrderInv'
  BY <1>1 DEF IssuedInv, StartInv, OrderInv, Starting
<1>6. CardInv' /\ Live' = Live
  BY <1>1, <1>3 DEF CardInv, Live
<1> QED
  BY <1>1, <1>2, <1>4, <1>5, <1>6

(* The card has acknowledged a block of the command: the next one follows. *)
LEMMA NextPartStep ==
    ASSUME IInv, NEW f, Reads(f), call.site = "send", IsR(f), f.seq # session.s, MorePending,
           session' = [session EXCEPT !.s = Flip(@)],
           call' = [call EXCEPT !.off = @ + 1, !.phase = "call", !.retry = 0, !.tries = 0],
           UNCHANGED <<result, issued, cardvars, inbox, scen>>
    PROVE  IInv'
<1>1. /\ TypeInv /\ CallInv /\ SessionInv /\ InboxInv /\ FifoInv /\ RightResponse
      /\ session.initialized
      /\ session.s \in Bits /\ session.r \in Bits /\ card.expect \in Bits
  BY DEF IInv, CallInv, TypeInv, IsSession, IsCard
<1>2. /\ IsSession(session') /\ session'.initialized /\ session'.s = Flip(session.s)
      /\ session'.r = session.r
      /\ Flip(session.s) \in Bits /\ Flip(session.s) # session.s
      /\ \A m \in Bits : m # session.s => m = Flip(session.s)
  BY <1>1, FlipFacts DEF TypeInv, IsSession
<1>3. /\ IsCall(call') /\ call'.site = "send" /\ call'.apdu = call.apdu
      /\ call'.len = call.len /\ call'.off = call.off + 1 /\ call'.buf = call.buf
  BY <1>1 DEF TypeInv, IsCall
<1>4. /\ TypeInv' /\ IssuedInv' /\ CardInv' /\ StartInv' /\ OrderInv' /\ ExecutedOnce'
      /\ Live' = Live /\ card' = card /\ runs' = runs
      /\ \A a : Executed(a)' = Executed(a)
  BY <1>2, <1>3, Moved DEF Reads
<1>5. CallInv'
  <2>1. call.off \in Nat /\ call.off + 1 < call.len
    BY <1>1 DEF CallInv, MorePending
  <2> QED
    BY <1>1, <1>2, <1>3, <2>1 DEF CallInv, Starting, Exchanging
<1>6. Live => Taken /\ ~Taken'
  <2>1. Live => Taken
    BY <1>1 DEF FifoInv, Reads
  <2> QED
    BY <1>1, <1>2, <1>4, <2>1 DEF Taken
<1>7. Live => ~Sent /\ ~Sent' /\ ~card.wtx
  BY <1>1, <1>2, <1>4 DEF SessionInv, Sent, Whole
<1>8. SessionInv'
  <2>1. Live => /\ IsI(card.last) => card.last.seq # session.r /\ ~card.last.more
                /\ ~Executed(call.apdu)
                /\ card.cmd = Parts(call.apdu, call.off + 1)
    BY <1>1, <1>6 DEF SessionInv, Whole
  <2> QED
    BY <1>2, <1>3, <1>4, <1>6, <1>7, <2>1 DEF SessionInv
<1>9. InboxInv'
  <2>1. Live => /\ SRequest("RESYNCH") \notin Elems(inbox)
                /\ \A b \in Elems(inbox) : ~IsR(b) /\ (IsI(b) => b.seq = session.s)
    BY <1>1, <1>6 DEF InboxInv
  <2> QED
    BY <1>2, <1>4, <1>6, <2>1 DEF InboxInv
<1>10. FifoInv'
  <2>1. \A y \in Elems(fifo') : y \in Elems(fifo) /\ y \in Behind(fifo, f) /\ y \in Blocks
    <3>1. fifo' \in Seq(Blocks) => \A y \in Elems(fifo') : y \in Blocks
      BY DEF Elems
    <3> QED
      BY <3>1 DEF Reads, Within
  <2>2. \A y \in Elems(fifo') : IsI(y) => y.seq # session.r
    BY <1>1, <2>1 DEF FifoInv, Whole
  <2>3. \A y \in Elems(fifo') : IsR(y) => y.seq = session'.s
    BY <1>1, <1>2, <2>1, BlockFacts DEF FifoInv, Reads
  <2> QED
    BY <1>2, <1>3, <2>2, <2>3 DEF FifoInv
<1>11. RightResponse'
  BY <1>1, <1>4 DEF RightResponse
<1> QED
  BY <1>4, <1>5, <1>8, <1>9, <1>10, <1>11 DEF IInv

(* The card has the whole command, and its response is asked for.          *)
LEMMA FetchStep ==
    ASSUME IInv, NEW f, Reads(f), call.site = "send", IsR(f), f.seq # session.s, ~MorePending,
           Goto("fetch"), UNCHANGED <<session, result, issued, cardvars, inbox, scen>>
    PROVE  IInv'
<1>1. /\ TypeInv /\ CallInv /\ SessionInv /\ InboxInv /\ FifoInv /\ RightResponse
      /\ session.initialized /\ Whole
  BY DEF IInv, CallInv, Whole
<1>2. /\ IsCall(call') /\ call'.site = "fetch" /\ call'.apdu = call.apdu
      /\ call'.len = call.len /\ call'.off = call.off /\ call'.buf = call.buf
  BY <1>1 DEF TypeInv, IsCall, Goto, Sites, Exchanging
<1>3. /\ TypeInv' /\ IssuedInv' /\ CardInv' /\ StartInv' /\ OrderInv' /\ ExecutedOnce'
      /\ Live' = Live /\ card' = card /\ runs' = runs
      /\ \A a : Executed(a)' = Executed(a)
  BY <1>1, <1>2, Moved DEF Reads, TypeInv
<1>4. MorePending' = MorePending /\ Whole'
  BY <1>2 DEF MorePending, Whole
<1>5. CallInv'
  BY <1>1, <1>2, <1>4 DEF CallInv, Starting, Exchanging
<1>6. /\ Live => Taken
      /\ Taken' = Taken /\ Sent' = Sent
      /\ \A b, n, q : Reply(b, n, q)' = Reply(b, n, q)
  <2>1. Live => Taken
    BY <1>1 DEF FifoInv, Reads
  <2> QED
    BY <1>2, <1>3, <2>1 DEF Taken, Sent, Reply
<1>7. SessionInv'
  BY <1>1, <1>2, <1>3, <1>4, <1>6 DEF SessionInv
<1>8. InboxInv'
  BY <1>1, <1>2, <1>3, <1>6 DEF InboxInv
<1>9. FifoInv'
  <2>1. /\ Elems(fifo') \subseteq Elems(fifo) /\ Elems(fifo') \subseteq Behind(fifo, f)
        /\ \A x : Behind(fifo', x) \subseteq Behind(fifo, x)
    BY DEF Reads, Within
  <2>2. \A y \in Elems(fifo') : IsR(y) => y.seq # session.s
    BY <1>1, <2>1 DEF FifoInv, Reads
  <2> QED
    BY <1>1, <1>2, <1>3, <1>4, <1>6, <2>1, <2>2 DEF FifoInv
<1>10. RightResponse'
  BY <1>1, <1>3 DEF RightResponse
<1> QED
  BY <1>3, <1>5, <1>7, <1>8, <1>9, <1>10 DEF IInv

(* A block of the response, the next one, is added to what was received.   *)
LEMMA DeliverStep ==
    ASSUME IInv, NEW f, Reads(f), IsI(f), f.seq = session.r, NEW s,
           \/ call.site = "chain" /\ s = session.s
           \/ Whole /\ s = Flip(session.s),
           session' = [session EXCEPT !.s = s, !.r = Flip(@)],
           NEW buf, buf = Append(call.buf, <<f.apdu, f.part>>),
           f.more => /\ call' = [call EXCEPT !.site = "chain", !.phase = "call",
                                             !.retry = 0, !.buf = buf]
                     /\ result' = result
           , ~f.more => /\ call' = Idle
                        /\ result' = [apdu |-> call.apdu, ok |-> TRUE, buf |-> buf],
           UNCHANGED <<issued, cardvars, inbox, scen>>
    PROVE  IInv'
<1> DEFINE n == Len(call.buf) + 1
<1>1. /\ TypeInv /\ CallInv /\ SessionInv /\ InboxInv /\ FifoInv /\ RightResponse
      /\ call.site \in {"send", "fetch", "chain"} /\ session.initialized
      /\ session.s \in Bits /\ session.r \in Bits /\ issued \in Nat
      /\ card.expect \in Bits /\ card.ns \in Bits /\ card.len \in Nat
      /\ Len(runs) \in Nat /\ \A i \in 1..Len(runs) : runs[i].len \in Nat
  <2>1. Len(runs) \in Nat /\ \A i \in 1..Len(runs) : runs[i].len \in Nat
    BY RunFacts DEF IInv
  <2> QED
    BY <2>1 DEF IInv, CallInv, TypeInv, IsSession, IsCard, Whole
<1>2. /\ s \in Bits /\ Flip(session.r) \in Bits /\ Flip(session.r) # session.r
      /\ Flip(Flip(session.r)) = session.r
      /\ \A m \in Bits : m # session.r => m = Flip(session.r)
      /\ Flip(session.s) # session.s
      /\ \A m \in Bits : m # session.s => m = Flip(session.s)
  BY <1>1, FlipFacts
<1>3. IsSession(session') /\ session'.initialized /\ session'.s = s /\ session'.r = Flip(session.r)
  BY <1>1, <1>2 DEF TypeInv, IsSession
<1>4. /\ call.apdu \in Nat /\ call.apdu # 0 /\ call.apdu \in 0..issued
      /\ Len(call.buf) \in Nat /\ call.buf = Parts(call.apdu, Len(call.buf))
      /\ n \in Nat /\ (call.site # "chain" => n = 1)
  <2>1. call.apdu \in 0..issued /\ call.apdu # 0
    BY <1>1 DEF CallInv
  <2>2. call.site \in {"send", "fetch"} => call.buf = << >>
    BY <1>1 DEF CallInv
  <2>3. call.site = "chain" => Len(call.buf) \in Nat /\ call.buf = Parts(call.apdu, Len(call.buf))
    BY <1>1 DEF CallInv
  <2>4. Len(<< >>) = 0 /\ Parts(call.apdu, 0) = << >>
    BY NoParts
  <2> QED
    BY <1>1, <2>1, <2>2, <2>3, <2>4
<1>5. PICK i \in 1..Len(runs) :
         /\ runs[i].apdu = call.apdu /\ n <= runs[i].len
         /\ f = IBlock(session.r, n < runs[i].len, call.apdu, n)
  BY <1>1 DEF FifoInv, Reply, Reads
<1> HIDE DEF n
<1>6. f.apdu = call.apdu /\ f.part = n /\ f.more = (n < runs[i].len) /\ f.more \in BOOLEAN
  <2> DEFINE m == n < runs[i].len
  <2>1. m \in BOOLEAN
    OBVIOUS
  <2>2. f = IBlock(session.r, m, call.apdu, n)
    BY <1>5, Zenon
  <2> HIDE DEF m
  <2>3. f.apdu = call.apdu /\ f.part = n /\ f.more = m
    BY <1>1, <1>4, <2>1, <2>2, IBlockFacts
  <2> QED
    BY <2>1, <2>3, Zenon DEF m
<1>7. buf = Parts(call.apdu, n) /\ Len(buf) = n
  <2>1. PICK k \in Nat : k = Len(call.buf)
    BY <1>4
  <2>2. buf = Append(Parts(call.apdu, k), <<call.apdu, k + 1>>) /\ n = k + 1
    BY <1>4, <1>6, <2>1, Zenon DEF n
  <2>3. /\ Append(Parts(call.apdu, k), <<call.apdu, k + 1>>) = Parts(call.apdu, k + 1)
        /\ Len(Parts(call.apdu, k + 1)) = k + 1
    <3>1. k + 1 \in Nat
      OBVIOUS
    <3> QED
      BY <1>4, <3>1, PartsGrow
  <2> QED
    BY <2>2, <2>3, Zenon
<1>8. /\ f.more => /\ IsCall(call') /\ call'.site = "chain" /\ call'.apdu = call.apdu
                   /\ call'.buf = buf
      /\ ~f.more => IsCall(call') /\ call' = Idle /\ call'.site = "idle" /\ call'.apdu = 0
                    /\ call'.phase = "none"
  BY <1>1, IdleFacts DEF TypeInv, IsCall, Sites, Exchanging
<1>9. /\ TypeInv' /\ IssuedInv' /\ CardInv' /\ StartInv' /\ OrderInv' /\ ExecutedOnce'
      /\ Live' = Live /\ card' = card /\ runs' = runs
  BY <1>3, <1>6, <1>8, Moved DEF Reads
<1>10. CallInv'
  <2>1. CASE f.more
    BY <1>3, <1>4, <1>7, <1>8, <2>1 DEF CallInv, Starting, Exchanging
  <2>2. CASE ~f.more
    BY <1>1, <1>3, <1>8, <2>2 DEF CallInv, Starting, Exchanging
  <2> QED
    BY <1>6, <2>1, <2>2
<1>11. Live => Sent /\ f = card.last /\ (call.site = "chain" \/ Taken)
  BY <1>1 DEF FifoInv, Reads
<1>12. Live => ~Taken' /\ ~Sent' /\ ~card.wtx /\ card.cmd = << >>
  <2>1. Live => ~card.wtx /\ card.cmd = << >>
    BY <1>1, <1>11 DEF SessionInv, Whole
  <2>2. Live => card.ns = Flip(session.r)
    BY <1>1, <1>2, <1>11 DEF Sent
  <2>3. Live => card.expect = s
    BY <1>1, <1>2, <1>11 DEF SessionInv, Taken, Whole
  <2> QED
    BY <1>3, <1>9, <2>1, <2>2, <2>3 DEF Taken, Sent
<1>13. SessionInv'
  <2>1. CASE ~f.more
    BY <1>2, <1>3, <1>8, <1>9, <1>11, <1>12, <2>1 DEF SessionInv
  <2>2. CASE f.more
    <3>1. Live => \E j \in 1..Len(runs) :
                     /\ runs[j].apdu = call.apdu /\ runs[j].len = card.len
                     /\ f = IBlock(session.r, n < card.len, call.apdu, n)
      <4>1. CASE call.site = "chain"
        BY <1>1, <1>11, <4>1 DEF SessionInv, n
      <4>2. CASE call.site # "chain"
        BY <1>1, <1>4, <1>11, <4>2 DEF SessionInv
      <4> QED
        BY <4>1, <4>2
    <3>2. ASSUME Live, NEW j \in 1..Len(runs), runs[j].len = card.len,
                 f = IBlock(session.r, n < card.len, call.apdu, n)
          PROVE  n < card.len /\ f = IBlock(Flip(session'.r), TRUE, call.apdu, n)
      <4> DEFINE m == n < card.len
      <4>1. m \in BOOLEAN
        OBVIOUS
      <4>2. f = IBlock(session.r, m, call.apdu, n)
        BY <3>2, Zenon
      <4> HIDE DEF m
      <4>3. f.more = m
        BY <1>1, <1>4, <4>1, <4>2, IBlockFacts
      <4>4. m = TRUE
        BY <2>2, <4>1, <4>3
      <4>5. n < card.len
        BY <4>4 DEF m
      <4> QED
        BY <1>2, <1>3, <4>2, <4>4, <4>5, Zenon
    <3>3. Live => \E j \in 1..Len(runs) :
                     /\ runs[j].apdu = call.apdu /\ runs[j].len = card.len /\ n < card.len
                     /\ card.last = IBlock(Flip(session'.r), TRUE, call.apdu, n)
      BY <1>11, <3>1, <3>2
    <3> QED
      BY <1>3, <1>7, <1>8, <1>9, <1>12, <2>2, <3>3 DEF SessionInv
  <2> QED
    BY <1>6, <2>1, <2>2
<1>14. InboxInv'
  <2>1. Live => SRequest("RESYNCH") \notin Elems(inbox)
    BY <1>1 DEF InboxInv
  <2>2. Live => \A b \in Elems(inbox) : IsR(b) => b.seq = session.r
    BY <1>1, <1>11 DEF InboxInv
  <2>3. Live => \A b \in Elems(inbox) : IsI(b) => b.seq # s
    BY <1>1, <1>2, <1>11 DEF InboxInv, Whole
  <2> QED
    BY <1>2, <1>3, <1>9, <1>12, <2>1, <2>2, <2>3 DEF InboxInv
<1>15. FifoInv'
  <2>1. \A y \in Elems(fifo') : y \in Elems(fifo) /\ y \in Behind(fifo, f) /\ y \in Blocks
    <3>1. fifo' \in Seq(Blocks) => \A y \in Elems(fifo') : y \in Blocks
      BY DEF Elems
    <3> QED
      BY <3>1 DEF Reads, Within
  <2>2. \A y \in Elems(fifo') : IsI(y) => y.seq = session.r
    BY <1>1, <2>1 DEF FifoInv, Reads
  <2>3. \A y \in Elems(fifo') : IsR(y) => y.seq = s
    BY <1>1, <1>2, <2>1, BlockFacts DEF FifoInv, Reads, Whole
  <2> QED
    BY <1>2, <1>3, <2>2, <2>3, <1>6, <1>8 DEF FifoInv
<1>16. RightResponse'
  <2>1. CASE f.more
    BY <1>1, <1>9, <2>1 DEF RightResponse
  <2>2. CASE ~f.more
    <3>1. n = runs[i].len
      BY <1>1, <1>4, <1>5, <1>6, <2>2
    <3>2. result'.apdu = call.apdu /\ result'.buf = buf
      BY <2>2
    <3> QED
      BY <1>5, <1>7, <1>9, <3>1, <3>2 DEF RightResponse
  <2> QED
    BY <1>6, <2>1, <2>2
<1> QED
  BY <1>9, <1>10, <1>13, <1>14, <1>15, <1>16 DEF IInv

-----------------------------------------------------------------------------
(* The host's steps                                                        *)

(* The reset of the card and its ATR.                                      *)
LEMMA ResetSteps ==
    ASSUME IInv, ResetCard \/ ReadAtr \/ ResetFails, Same
    PROVE  IInv'
<1>1. TypeInv /\ CallInv /\ OrderInv /\ fifo \in Seq(Blocks) /\ inbox \in Seq(Blocks) /\ scen' = scen
  BY DEF IInv, TypeInv, Same
<1>2. CASE ResetCard
  <2>1. inbox' \in Seq(Blocks) /\ Within(inbox', inbox)
    BY <1>2, EmptyWithin DEF ResetCard
  <2>2. CASE Fail /\ UNCHANGED <<card, fifo>>
    <3>1. UNCHANGED <<card, present, runs, scen, issued, fifo>>
      BY <1>1, <1>2, <2>2 DEF ResetCard
    <3> QED
      BY <1>1, <2>1, <2>2, <3>1, FailStep
  <2>3. CASE ~(Fail /\ UNCHANGED <<card, fifo>>)
    BY <1>1, <1>2, <2>3, ResetStep DEF ResetCard
  <2> QED
    BY <2>2, <2>3
<1>3. CASE ReadAtr
  <2>1. PICK k \in 1..Len(fifo) :
           /\ fifo' = Drop(fifo, k)
           /\ \/ /\ call' = [call EXCEPT !.site = IF scen.acas THEN "ifs1" ELSE "resynch",
                                         !.phase = "call", !.tries = 0]
                 /\ UNCHANGED <<open, session, result>>
              \/ /\ call' = [call EXCEPT !.site = "reset", !.tries = 1]
                 /\ UNCHANGED <<open, session, result>>
              \/ Fail
    BY <1>3 DEF ReadAtr
  <2>2. fifo' \in Seq(Blocks) /\ Within(fifo', fifo)
    <3>1. k \in 0..Len(fifo)
      OBVIOUS
    <3> QED
      BY <1>1, <2>1, <3>1, DropWithin
  <2>3. /\ call.site = "atr" /\ UNCHANGED <<issued, cardvars, inbox, scen>>
        /\ UNCHANGED <<card, present, runs>>
    BY <1>1, <1>3 DEF ReadAtr, cardvars
  <2>4. CASE Fail
    BY <1>1, <2>2, <2>3, <2>4, FailStep, SameWithin
  <2>5. CASE /\ call' = [call EXCEPT !.site = "reset", !.tries = 1]
             /\ UNCHANGED <<session, result>>
    <3>1. /\ IsCall(call') /\ call'.site = "reset" /\ call'.why = call.why
          /\ call'.phase = call.phase
          /\ call'.apdu = call.apdu /\ call'.len = call.len /\ call'.off = call.off
          /\ call'.buf = call.buf
      BY <1>1, <2>5 DEF TypeInv, IsCall, Sites
    <3>2. TypeInv'
      BY <1>1, <2>2, <2>3, <2>5, <3>1 DEF TypeInv
    <3>3. CallInv' /\ ~session'.initialized
      BY <1>1, <2>3, <2>5, <3>1 DEF CallInv, Starting, Exchanging
    <3>4. RightResponse'
      BY <2>3, <2>5 DEF IInv, RightResponse
    <3>5. call.site \in Starting \cup {"reset"}
      BY <2>3 DEF Starting
    <3> QED
      BY <2>3, <3>1, <3>2, <3>3, <3>4, <3>5, QuitStep, SameWithin
  <2>6. CASE /\ call' = [call EXCEPT !.site = IF scen.acas THEN "ifs1" ELSE "resynch",
                                     !.phase = "call", !.tries = 0]
             /\ UNCHANGED <<session, result>>
    <3>1. PICK site \in {"ifs1", "resynch"} :
             call' = [call EXCEPT !.site = site, !.phase = "call", !.tries = 0]
      BY <2>6
    <3>2. /\ call' = [call EXCEPT !.site = site, !.phase = call'.phase,
                                  !.tries = call'.tries, !.retry = call'.retry]
          /\ call'.site = site
      BY <1>1, <3>1 DEF TypeInv, IsCall
    <3>3. OrderInv'
      <4>1. Live' = Live /\ inbox' = inbox
        BY <2>3 DEF Live
      <4>2. Live => Elems(inbox) = {} /\ \A f \in Elems(fifo) : f.kind # "SR"
        BY <1>1, <2>3 DEF OrderInv
      <4>3. Live => \A what \in {"RESYNCH", "IFS"} : SResponse(what) \notin Elems(fifo)
        BY <4>2, OtherBlocks
      <4>4. Live => \A x : Behind(inbox, x) = {}
        BY <1>1, <4>2, NothingBehind
      <4>5. /\ Elems(fifo') \subseteq Elems(fifo)
            /\ \A x, y : y \in Behind(fifo', x) => x \in Elems(fifo')
        BY <2>2, NothingBehind DEF Within
      <4> QED
        BY <3>1, <3>2, <4>1, <4>2, <4>3, <4>4, <4>5 DEF OrderInv
    <3>4. call.site \in Starting /\ site \in Starting \cap Exchanging
      BY <2>3 DEF Starting, Exchanging
    <3> QED
      BY <2>2, <2>3, <2>6, <3>2, <3>3, <3>4, SetupStep
  <2> QED
    BY <2>1, <2>4, <2>5, <2>6
<1>4. CASE ResetFails
  <2>1. UNCHANGED <<card, present, runs, scen, issued, fifo, inbox>>
    BY <1>1, <1>4 DEF ResetFails, cardvars
  <2> QED
    BY <1>1, <1>4, <2>1, FailStep, SameWithin DEF ResetFails
<1> QED
  BY <1>2, <1>3, <1>4

(* A block is sent, or sent again.                                         *)
LEMMA SendBlockStep == ASSUME IInv, SendBlock, Same PROVE IInv'
<1>1. /\ TypeInv /\ CallInv /\ inbox \in Seq(Blocks) /\ fifo' = fifo /\ fifo \in Seq(Blocks)
      /\ call.site \in Exchanging /\ Block \in Blocks
  BY BlockOfSite DEF IInv, TypeInv, CallInv, SendBlock
<1>2. GoesOn
  <2>1. call' = [call EXCEPT !.phase = call'.phase, !.tries = call'.tries,
                             !.retry = call'.retry]
    BY <1>1 DEF SendBlock, TypeInv, IsCall
  <2> QED
    BY <1>1, <2>1, SameWithin DEF GoesOn, SendBlock, Same
<1>3. inbox' \in Seq(Blocks) /\ \E c \in {Block, Bad} : Added(inbox', inbox, c)
  BY <1>1, ToCardAdds DEF SendBlock
<1>4. CASE Added(inbox', inbox, Bad)
  BY <1>2, <1>3, <1>4, QuietStep, OtherBlocks
<1>5. CASE Added(inbox', inbox, Block)
  BY <1>1, <1>2, <1>3, <1>5, SendSetupStep, SendCommandStep, SendRequestStep
     DEF Exchanging, Starting
<1> QED
  BY <1>3, <1>4, <1>5

(* The wait for an answer ends, or goes on after a damaged one or for more *)
(* time.                                                                   *)
LEMMA WaitSteps ==
    ASSUME IInv, ReceiveTimeout \/ ReceiveBad \/ ReceiveWtx, Same
    PROVE  IInv'
<1>1. /\ TypeInv /\ CallInv /\ inbox \in Seq(Blocks) /\ fifo \in Seq(Blocks) /\ scen' = scen
      /\ call.site \in Exchanging
  BY DEF IInv, TypeInv, CallInv, ReceiveTimeout, ReceiveBad, ReceiveWtx, Same
<1>2. /\ call' = [call EXCEPT !.phase = call'.phase, !.tries = call'.tries,
                              !.retry = call'.retry]
      /\ UNCHANGED <<session, issued, result, cardvars>>
  BY <1>1 DEF ReceiveTimeout, ReceiveBad, ReceiveWtx, TypeInv, IsCall
<1>3. fifo' \in Seq(Blocks) /\ Within(fifo', fifo)
  <2>1. CASE ReceiveTimeout
    BY <1>1, <2>1, SameWithin DEF ReceiveTimeout
  <2>2. CASE ReceiveBad \/ ReceiveWtx
    <3>1. fifo # << >> /\ \E k \in 1..Len(fifo) : Discard(k)
      BY <2>2 DEF ReceiveBad, ReceiveWtx
    <3> QED
      BY <1>1, <3>1, DiscardReads DEF Reads
  <2> QED
    BY <2>1, <2>2
<1>4. inbox' \in Seq(Blocks) /\ \E c \in {SResponse("WTX"), Bad} : Added(inbox', inbox, c)
  <2>1. CASE ReceiveWtx
    BY <1>1, <2>1, ToCardAdds, OtherBlocks DEF ReceiveWtx
  <2>2. CASE inbox' = inbox
    BY <1>1, <2>2 DEF Added
  <2> QED
    BY <2>1, <2>2 DEF ReceiveTimeout, ReceiveBad
<1>5. GoesOn
  BY <1>1, <1>2, <1>3 DEF GoesOn
<1> QED
  BY <1>4, <1>5, QuietStep, OtherBlocks

(* The retries are used up, or the queue is flooded.                       *)
LEMMA GiveUpSteps ==
    ASSUME IInv, GiveUp \/ ReceiveFlooded, Same
    PROVE  IInv'
<1>1. /\ TypeInv /\ CallInv /\ OrderInv /\ inbox \in Seq(Blocks) /\ fifo \in Seq(Blocks)
      /\ scen' = scen /\ UNCHANGED <<issued, cardvars, inbox>>
      /\ UNCHANGED <<card, present, runs>>
  BY DEF IInv, TypeInv, Same, GiveUp, ReceiveFlooded, cardvars
<1>2. CASE ReceiveFlooded
  <2>1. PICK k \in 2..Len(fifo) :
           Len(fifo) - k >= MaxDiscard /\ fifo' = Drop(fifo, k + MaxDiscard)
    BY <1>2 DEF ReceiveFlooded
  <2>2. k + MaxDiscard \in 0..Len(fifo)
    <3>1. MaxDiscard \in Nat
      BY <1>1, ScenarioAssumption DEF TypeInv, MaxDiscard
    <3>2. Len(fifo) \in Nat
      BY <1>1
    <3> QED
      BY <2>1, <3>1, <3>2
  <2>3. fifo' \in Seq(Blocks)
    BY <1>1, <2>1, <2>2, DropWithin
  <2> QED
    BY <1>1, <1>2, <2>3, FailStep, SameWithin DEF ReceiveFlooded
<1>3. CASE GiveUp /\ Fail
  BY <1>1, <1>3, FailStep, SameWithin DEF GiveUp
<1>4. CASE GiveUp /\ ~Fail
  <2>1. /\ call.site = "ifs1" /\ fifo' = fifo
        /\ call' = [call EXCEPT !.site = "resynch1", !.retry = 0]
        /\ UNCHANGED <<session, result>>
    BY <1>4 DEF GiveUp
  <2>2. /\ call' = [call EXCEPT !.site = "resynch1", !.phase = call'.phase,
                                !.tries = call'.tries, !.retry = call'.retry]
        /\ call'.site = "resynch1"
    BY <1>1, <2>1 DEF TypeInv, IsCall
  <2>3. OrderInv'
    <3>1. Live => /\ SRequest("RESYNCH") \notin Elems(inbox)
                  /\ SResponse("RESYNCH") \notin Elems(fifo)
      BY <1>1, <2>1 DEF OrderInv
    <3>2. /\ \A x, y : y \in Behind(inbox, x) => x \in Elems(inbox)
          /\ \A x, y : y \in Behind(fifo, x) => x \in Elems(fifo)
      BY <1>1, NothingBehind
    <3> QED
      BY <1>1, <2>1, <2>2, <3>1, <3>2 DEF OrderInv, Live
  <2>4. call.site \in Starting /\ "resynch1" \in Starting \cap Exchanging
    BY <2>1 DEF Starting, Exchanging
  <2> QED
    BY <1>1, <2>1, <2>2, <2>3, <2>4, SetupStep, SameWithin
<1> QED
  BY <1>2, <1>3, <1>4

(* An answer of the setting-up of the session.                             *)
LEMMA AnswerInitStep ==
    ASSUME IInv, NEW f, Reads(f), call.site \in Starting \cap Exchanging, AnswerInit(f),
           UNCHANGED <<issued, cardvars, inbox, scen>>
    PROVE  IInv'
<1>1. /\ TypeInv /\ OrderInv /\ inbox \in Seq(Blocks) /\ f \in Elems(fifo)
      /\ fifo' \in Seq(Blocks) /\ Within(fifo', fifo)
      /\ Elems(fifo') \subseteq Behind(fifo, f)
      /\ card' = card /\ present' = present /\ runs' = runs /\ inbox' = inbox
  BY DEF IInv, TypeInv, Reads, cardvars
<1>2. CASE Fail
  BY <1>1, <1>2, FailStep, SameWithin
<1>3. CASE call.site \in {"resynch", "resynch1"} /\ f = SResponse("RESYNCH")
  <2>1. Goto("ifs") /\ UNCHANGED <<session, result>>
    BY <1>3 DEF AnswerInit
  <2>2. /\ call' = [call EXCEPT !.site = "ifs", !.phase = call'.phase,
                                !.tries = call'.tries, !.retry = call'.retry]
        /\ call'.site = "ifs"
    BY <1>1, <2>1 DEF TypeInv, IsCall, Goto
  <2>3. OrderInv'
    <3>1. Live => SRequest("IFS") \notin Elems(inbox) /\ SResponse("IFS") \notin Elems(fifo')
      BY <1>1, <1>3 DEF OrderInv
    <3>2. \A x, y : y \in Behind(inbox, x) => x \in Elems(inbox)
      BY <1>1, NothingBehind
    <3> QED
      BY <1>1, <2>2, <3>1, <3>2 DEF OrderInv, Live
  <2>4. call.site \in Starting /\ "ifs" \in Starting \cap Exchanging
    BY DEF Starting, Exchanging
  <2> QED
    BY <1>1, <2>1, <2>2, <2>3, <2>4, SetupStep
<1>4. CASE call.site \in {"ifs", "ifs1"} /\ f = SResponse("IFS")
  <2>1. Initialized
    BY <1>4 DEF AnswerInit
  <2>2. Live => SRequest("RESYNCH") \notin Elems(inbox)
    BY <1>1, <1>4 DEF OrderInv
  <2> QED
    BY <1>1, <2>1, <2>2, InitializedStep
<1> QED
  BY <1>2, <1>3, <1>4 DEF AnswerInit

(* A block of the response is taken, or refused.                           *)
LEMMA DeliverSteps ==
    ASSUME IInv, NEW f, Reads(f), IsI(f), NEW s, Deliver(f, s),
           \/ call.site = "chain" /\ s = session.s
           \/ Whole /\ s = Flip(session.s),
           UNCHANGED <<issued, cardvars, inbox, scen>>
    PROVE  IInv'
<1>1. /\ inbox' = inbox /\ inbox \in Seq(Blocks) /\ fifo' \in Seq(Blocks)
      /\ card' = card /\ present' = present /\ runs' = runs
  BY DEF IInv, TypeInv, Reads, cardvars
<1>2. CASE Fail
  BY <1>1, <1>2, FailStep, SameWithin
<1>3. CASE ~Fail
  <2> DEFINE buf == Append(call.buf, <<f.apdu, f.part>>)
  <2>1. /\ f.seq = session.r
        /\ session' = [session EXCEPT !.s = s, !.r = Flip(@)]
        /\ f.more => /\ call' = [call EXCEPT !.site = "chain", !.phase = "call",
                                             !.retry = 0, !.buf = buf]
                     /\ result' = result
        /\ ~f.more => /\ call' = Idle
                      /\ result' = [apdu |-> call.apdu, ok |-> TRUE, buf |-> buf]
    BY <1>3 DEF Deliver
  <2>2. PICK z : z = buf
    OBVIOUS
  <2> HIDE DEF buf
  <2>3. z = Append(call.buf, <<f.apdu, f.part>>)
    BY <2>2 DEF buf
  <2> QED
    BY <2>1, <2>2, <2>3, DeliverStep
<1> QED
  BY <1>2, <1>3

(* An answer to a block of the command, or to a request for the response.  *)
LEMMA AnswerStep ==
    ASSUME IInv, NEW f, Reads(f),
           \/ call.site = "send" /\ AnswerSend(f)
           \/ call.site = "fetch" /\ AnswerFetch(f)
           \/ call.site = "chain" /\ AnswerChain(f),
           UNCHANGED <<issued, cardvars, inbox, scen>>
    PROVE  IInv'
<1>1. /\ TypeInv /\ CallInv /\ inbox \in Seq(Blocks)
      /\ fifo' \in Seq(Blocks) /\ Within(fifo', fifo)
      /\ card' = card /\ present' = present /\ runs' = runs /\ inbox' = inbox
      /\ call.site \in Exchanging
  BY DEF IInv, TypeInv, Reads, cardvars, Exchanging
<1>2. CASE Fail
  BY <1>1, <1>2, FailStep, SameWithin
<1>3. CASE Again
  <2>1. CASE call.tries + 1 < MaxRetries
    <3>1. /\ call' = [call EXCEPT !.phase = call'.phase, !.tries = call'.tries,
                                  !.retry = call'.retry]
          /\ UNCHANGED <<session, result>>
      BY <1>1, <1>3, <2>1 DEF Again, TypeInv, IsCall
    <3>2. GoesOn
      BY <1>1, <3>1 DEF GoesOn
    <3>3. Added(inbox', inbox, Bad)
      BY <1>1 DEF Added
    <3> QED
      BY <1>1, <3>2, <3>3, QuietStep, OtherBlocks
  <2>2. CASE ~(call.tries + 1 < MaxRetries)
    BY <1>2, <1>3, <2>2 DEF Again
  <2> QED
    BY <2>1, <2>2
<1>4. CASE call.site = "send" /\ AnswerSend(f) /\ IsR(f) /\ f.seq # session.s
  <2>1. CASE MorePending
    BY <1>4, <2>1, NextPartStep DEF AnswerSend, IsR
  <2>2. CASE ~MorePending
    BY <1>4, <2>2, FetchStep DEF AnswerSend, IsR
  <2> QED
    BY <2>1, <2>2
<1>5. CASE call.site = "send" /\ AnswerSend(f) /\ IsI(f) /\ ~MorePending
  <2>1. Deliver(f, Flip(session.s)) /\ Whole
    BY <1>5 DEF AnswerSend, IsI, Whole
  <2> QED
    BY <1>5, <2>1, DeliverSteps
<1>6. CASE call.site = "fetch" /\ AnswerFetch(f) /\ IsI(f)
  <2>1. Deliver(f, Flip(session.s)) /\ Whole
    BY <1>1, <1>6 DEF AnswerFetch, IsI, Whole, CallInv
  <2> QED
    BY <1>6, <2>1, DeliverSteps
<1>7. CASE call.site = "chain" /\ AnswerChain(f) /\ IsI(f)
  <2>1. Deliver(f, session.s)
    BY <1>7 DEF AnswerChain, IsI
  <2> QED
    BY <1>7, <2>1, DeliverSteps
<1> QED
  BY <1>2, <1>3, <1>4, <1>5, <1>6, <1>7 DEF AnswerSend, AnswerFetch, AnswerChain, IsI, IsR

(* ReceiveBlock() gives an answer.                                         *)
LEMMA ReceiveStep == ASSUME IInv, Receive, Same PROVE IInv'
<1>1. /\ fifo \in Seq(Blocks) /\ fifo # << >> /\ call.site \in Exchanging
      /\ UNCHANGED <<issued, cardvars, inbox, scen>>
  BY DEF IInv, TypeInv, CallInv, Receive, Same
<1>2. PICK f : f = Head(fifo)
  OBVIOUS
<1>3. Reads(f)
  <2>1. PICK k \in 1..Len(fifo) : Discard(k)
    BY DEF Receive
  <2> QED
    BY <1>1, <1>2, <2>1, DiscardReads
<1>4. \/ call.site = "send" /\ AnswerSend(f)
      \/ call.site = "fetch" /\ AnswerFetch(f)
      \/ call.site = "chain" /\ AnswerChain(f)
      \/ call.site \in Starting \cap Exchanging /\ AnswerInit(f)
  BY <1>1, <1>2 DEF Receive, Exchanging, Starting
<1> QED
  BY <1>1, <1>3, <1>4, AnswerStep, AnswerInitStep

-----------------------------------------------------------------------------
(* The card's steps                                                        *)

(* The card takes the first block sent to it.                              *)
Gets(b) ==
    /\ b \in Blocks /\ b \in Elems(inbox)
    /\ inbox' \in Seq(Blocks) /\ Within(inbox', inbox)
    /\ Elems(inbox') \subseteq Behind(inbox, b)
    /\ UNCHANGED <<session, call, issued, result, present, scen>>

(* The card's state stays as it is.                                        *)
LEMMA CardKeeps ==
    ASSUME IInv, NEW b, Gets(b), UNCHANGED <<card, runs>>, fifo' \in Seq(Blocks)
    PROVE  /\ TypeInv' /\ CallInv' /\ IssuedInv' /\ CardInv' /\ SessionInv' /\ InboxInv'
           /\ ExecutedOnce' /\ RightResponse'
           /\ Live' = Live /\ Taken' = Taken /\ Sent' = Sent /\ Whole' = Whole
           /\ \A f, n, q : Reply(f, n, q)' = Reply(f, n, q)
<1>1. /\ UNCHANGED <<session, call, issued, result, present, scen, card, runs>>
      /\ Elems(inbox') \subseteq Elems(inbox)
      /\ \A x : Behind(inbox', x) \subseteq Behind(inbox, x)
  BY DEF Gets, Within
<1>2. /\ Live' = Live /\ Taken' = Taken /\ Sent' = Sent /\ Whole' = Whole
      /\ MorePending' = MorePending /\ Block' = Block
      /\ \A x : NextBlock(x)' = NextBlock(x)
      /\ \A a : Executed(a)' = Executed(a)
      /\ \A f, n, q : Reply(f, n, q)' = Reply(f, n, q)
  BY <1>1, Zenon DEF Live, Taken, Sent, Whole, MorePending, Block, NextBlock, Executed, Reply
<1>3. TypeInv' /\ ExecutedOnce' /\ RightResponse'
  BY <1>1 DEF IInv, Gets, TypeInv, ExecutedOnce, RightResponse
<1>4. CallInv'
  BY <1>1, <1>2 DEF IInv, CallInv
<1>5. IssuedInv'
  BY <1>1, <1>2 DEF IInv, IssuedInv
<1>6. CardInv'
  BY <1>1, <1>2 DEF IInv, CardInv
<1>7. SessionInv'
  BY <1>1, <1>2 DEF IInv, SessionInv
<1>8. InboxInv'
  BY <1>1, <1>2 DEF IInv, InboxInv
<1> QED
  BY <1>2, <1>3, <1>4, <1>5, <1>6, <1>7, <1>8

(* The card answers with a block that is no part of the numbering, or not. *)
LEMMA QuietAnswer ==
    ASSUME IInv, NEW b, Gets(b), UNCHANGED <<card, runs>>, fifo' \in Seq(Blocks),
           NEW c, Added(fifo', fifo, c), c.kind \in {"bad", "S"}
    PROVE  IInv'
<1>1. /\ TypeInv' /\ CallInv' /\ IssuedInv' /\ CardInv' /\ SessionInv' /\ InboxInv'
      /\ ExecutedOnce' /\ RightResponse'
      /\ Live' = Live /\ Taken' = Taken /\ Sent' = Sent /\ Whole' = Whole
      /\ \A f, n, q : Reply(f, n, q)' = Reply(f, n, q)
  BY CardKeeps
<1>2. /\ UNCHANGED <<session, call, card>> /\ b \in Elems(inbox)
      /\ Elems(inbox') \subseteq Elems(inbox)
      /\ \A x : Behind(inbox', x) \subseteq Behind(inbox, x)
      /\ Elems(fifo') \subseteq Elems(fifo) \cup {c}
      /\ \A x, y : y \in Behind(fifo', x) => y \in Behind(fifo, x) \/ (y = c /\ x \in Elems(fifo))
  BY DEF Gets, Within, Added
<1>3. /\ ~IsI(c) /\ ~IsR(c) /\ c.kind # "SR"
      /\ \A what \in {"RESYNCH", "IFS"} : c # SResponse(what)
  BY OtherBlocks DEF IsI, IsR
<1>4. StartInv'
  BY <1>1, <1>2, <1>3 DEF IInv, StartInv
<1>5. OrderInv'
  BY <1>1, <1>2, <1>3 DEF IInv, OrderInv
<1>6. FifoInv'
  BY <1>1, <1>2, <1>3 DEF IInv, FifoInv
<1> QED
  BY <1>1, <1>4, <1>5, <1>6 DEF IInv

(* The card asks for the block it expects.                                 *)
LEMMA AskAnswer ==
    ASSUME IInv, NEW b, Gets(b), Live, UNCHANGED <<card, runs>>, fifo' \in Seq(Blocks),
           Added(fifo', fifo, RBlock(card.expect))
    PROVE  IInv'
<1> DEFINE c == RBlock(card.expect)
<1>1. /\ TypeInv' /\ CallInv' /\ IssuedInv' /\ CardInv' /\ SessionInv' /\ InboxInv'
      /\ ExecutedOnce' /\ RightResponse'
      /\ Live' = Live /\ Taken' = Taken /\ Sent' = Sent /\ Whole' = Whole
      /\ \A f, n, q : Reply(f, n, q)' = Reply(f, n, q)
  BY CardKeeps
<1>2. /\ IsR(c) /\ ~IsI(c) /\ c.seq = card.expect /\ c.kind = "R"
      /\ \A what : c # SResponse(what)
  BY RBlockFacts DEF IInv, TypeInv, IsCard
<1> HIDE DEF c
<1>3. /\ UNCHANGED <<session, call, card>> /\ b \in Elems(inbox)
      /\ Elems(inbox') \subseteq Elems(inbox)
      /\ \A x : Behind(inbox', x) \subseteq Behind(inbox, x)
      /\ Elems(fifo') \subseteq Elems(fifo) \cup {c}
      /\ \A x, y : y \in Behind(fifo', x) => y \in Behind(fifo, x) \/ (y = c /\ x \in Elems(fifo))
  BY DEF Gets, Within, Added, c
<1>4. StartInv'
  BY <1>1, <1>2, <1>3 DEF IInv, StartInv
<1>5. OrderInv'
  BY <1>1, <1>2, <1>3 DEF IInv, OrderInv
<1>6. FifoInv'
  <2> SUFFICES ASSUME session.initialized
               PROVE  FifoInv'
    BY <1>3 DEF FifoInv
  <2>1. CASE Taken
    <3>1. c.seq # session.s /\ call.site \in {"send", "fetch"}
      BY <1>2, <2>1 DEF IInv, SessionInv, Taken
    <3>2. \A x, y : y \in Behind(fifo', x) /\ x = c => y = c \/ x \in Elems(fifo)
      BY <1>3, NothingBehind DEF IInv, TypeInv
    <3> QED
      BY <1>1, <1>2, <1>3, <2>1, <3>1, <3>2 DEF IInv, FifoInv
  <2>2. CASE ~Taken
    <3>1. c.seq = session.s /\ call.site # "fetch"
      BY <1>2, <2>2 DEF IInv, SessionInv, Taken
    <3>2. \A f \in Elems(fifo) :
             /\ ~(IsR(f) /\ f.seq # session.s)
             /\ call.site = "send" => ~(IsI(f) /\ f.seq = session.r)
      BY <2>2 DEF IInv, FifoInv
    <3> QED
      BY <1>1, <1>2, <1>3, <2>2, <3>1, <3>2 DEF IInv, FifoInv
  <2> QED
    BY <2>1, <2>2
<1> QED
  BY <1>1, <1>4, <1>5, <1>6 DEF IInv

(* The card sends its last block again.                                    *)
LEMMA RepeatAnswer ==
    ASSUME IInv, NEW b, Gets(b), Live, UNCHANGED <<card, runs>>, fifo' \in Seq(Blocks),
           IsR(b), ~card.wtx, IsI(card.last), b.seq = card.last.seq,
           Added(fifo', fifo, card.last)
    PROVE  IInv'
<1>1. /\ TypeInv' /\ CallInv' /\ IssuedInv' /\ CardInv' /\ SessionInv' /\ InboxInv'
      /\ ExecutedOnce' /\ RightResponse'
      /\ Live' = Live /\ Taken' = Taken /\ Sent' = Sent /\ Whole' = Whole
      /\ \A f, n, q : Reply(f, n, q)' = Reply(f, n, q)
  BY CardKeeps
<1>2. PICK c : c = card.last
  OBVIOUS
<1>3. /\ UNCHANGED <<session, call, card>> /\ b \in Elems(inbox)
      /\ Elems(inbox') \subseteq Elems(inbox)
      /\ \A x : Behind(inbox', x) \subseteq Behind(inbox, x)
      /\ Elems(fifo') \subseteq Elems(fifo) \cup {c}
      /\ \A x, y : y \in Behind(fifo', x) => y \in Behind(fifo, x) \/ (y = c /\ x \in Elems(fifo))
  BY <1>2 DEF Gets, Within, Added
<1>4. IsI(c) /\ ~IsR(c)
  BY <1>2 DEF IsI, IsR
<1>5. call.site \notin Starting
  BY <1>2, <1>3, OtherBlocks DEF IInv, StartInv
<1>6. StartInv' /\ OrderInv'
  BY <1>3, <1>5 DEF StartInv, OrderInv, Starting
<1>7. FifoInv'
  <2> SUFFICES ASSUME session.initialized
               PROVE  FifoInv'
    BY <1>3 DEF FifoInv
  <2>1. CASE c.seq = session.r
    <3>1. call.site \in {"fetch", "chain"} /\ (call.site = "fetch" => Taken /\ Whole)
      BY <1>2, <1>3, <2>1 DEF IInv, InboxInv, SessionInv, CallInv, Whole
    <3>2. Sent /\ Reply(c, Len(call.buf) + 1, session.r)
      <4>1. CASE call.site = "fetch"
        <5>1. call.buf = << >> /\ Len(<< >>) + 1 = 1
          BY <4>1 DEF IInv, CallInv
        <5>2. PICK i \in 1..Len(runs) :
                 /\ runs[i].apdu = call.apdu /\ runs[i].len = card.len
                 /\ card.last = IBlock(session.r, 1 < card.len, call.apdu, 1)
          BY <3>1, <4>1 DEF IInv, SessionInv
        <5>3. 1 <= runs[i].len
          BY RunFacts DEF IInv
        <5>4. Sent
          BY <3>1, <4>1 DEF IInv, SessionInv
        <5> QED
          BY <1>2, <5>1, <5>2, <5>3, <5>4 DEF Reply
      <4>2. CASE call.site = "chain"
        <5>1. PICK i \in 1..Len(runs) :
                 /\ runs[i].apdu = call.apdu /\ runs[i].len = card.len
                 /\ Len(call.buf) < card.len
                 /\ card.last =
                       IF Sent
                       THEN IBlock(session.r, Len(call.buf) + 1 < card.len, call.apdu,
                                   Len(call.buf) + 1)
                       ELSE IBlock(Flip(session.r), TRUE, call.apdu, Len(call.buf))
          BY <4>2 DEF IInv, SessionInv
        <5>2. Sent
          <6>1. session.r \in Bits /\ Flip(session.r) # session.r
            BY FlipFacts DEF IInv, TypeInv, IsSession
          <6> QED
            BY <1>2, <2>1, <5>1, <6>1 DEF IBlock
        <5>3. Len(call.buf) + 1 <= runs[i].len
          BY <4>2, <5>1, RunFacts DEF IInv, CallInv
        <5> QED
          BY <1>2, <5>1, <5>2, <5>3 DEF Reply
      <4> QED
        BY <3>1, <4>1, <4>2
    <3>3. \A y \in Behind(fifo', c) : y = c \/ (y \in Behind(fifo, c) /\ c \in Elems(fifo))
      BY <1>3, NothingBehind DEF IInv, TypeInv
    <3> QED
      BY <1>1, <1>2, <1>3, <1>4, <2>1, <3>1, <3>2, <3>3 DEF IInv, FifoInv
  <2>2. CASE c.seq # session.r
    <3>1. \A f \in Elems(fifo) : ~(IsI(f) /\ f.seq = session.r)
      BY <1>2, <2>2 DEF IInv, FifoInv
    <3> QED
      BY <1>1, <1>3, <1>4, <2>2, <3>1 DEF IInv, FifoInv
  <2> QED
    BY <2>1, <2>2
<1> QED
  BY <1>1, <1>6, <1>7 DEF IInv

(* The card answers IFS.                                                   *)
LEMMA IfsAnswer ==
    ASSUME IInv, Gets(SRequest("IFS")), Live, UNCHANGED <<card, runs>>, fifo' \in Seq(Blocks),
           Added(fifo', fifo, SResponse("IFS"))
    PROVE  IInv'
<1> DEFINE b == SRequest("IFS")
           c == SResponse("IFS")
<1>1. /\ TypeInv' /\ CallInv' /\ IssuedInv' /\ CardInv' /\ SessionInv' /\ InboxInv'
      /\ ExecutedOnce' /\ RightResponse'
      /\ Live' = Live /\ Taken' = Taken /\ Sent' = Sent /\ Whole' = Whole
      /\ \A f, n, q : Reply(f, n, q)' = Reply(f, n, q)
  BY CardKeeps
<1>2. ~IsI(c) /\ ~IsR(c) /\ c # SResponse("RESYNCH")
  BY OtherBlocks
<1> HIDE DEF b, c
<1>3. /\ UNCHANGED <<session, call, card>> /\ b \in Elems(inbox)
      /\ Elems(inbox') \subseteq Elems(inbox) /\ Elems(inbox') \subseteq Behind(inbox, b)
      /\ \A x : Behind(inbox', x) \subseteq Behind(inbox, x)
      /\ Elems(fifo') \subseteq Elems(fifo) \cup {c}
      /\ \A x, y : y \in Behind(fifo', x) => y \in Behind(fifo, x) \/ (y = c /\ x \in Elems(fifo))
  BY DEF Gets, Within, Added, b, c
<1>4. StartInv'
  BY <1>1, <1>2, <1>3 DEF IInv, StartInv
<1>5. OrderInv'
  BY <1>1, <1>2, <1>3 DEF IInv, OrderInv, b, c
<1>6. FifoInv'
  BY <1>1, <1>2, <1>3 DEF IInv, FifoInv
<1> QED
  BY <1>1, <1>4, <1>5, <1>6 DEF IInv

(* The card answers RESYNCH: it is as after its reset.                     *)
LEMMA ResynchAnswer ==
    ASSUME IInv, Gets(SRequest("RESYNCH")), Live, card' = [NewCard EXCEPT !.on = TRUE],
           runs' = runs, fifo' \in Seq(Blocks),
           NEW c \in {SResponse("RESYNCH"), Bad}, Added(fifo', fifo, c)
    PROVE  IInv'
<1> DEFINE b == SRequest("RESYNCH")
<1>1. /\ TypeInv /\ CallInv /\ IssuedInv /\ CardInv /\ StartInv /\ OrderInv /\ InboxInv
      /\ ExecutedOnce /\ RightResponse
  BY DEF IInv
<1>2. ~IsI(c) /\ ~IsR(c) /\ c # SResponse("IFS") /\ SRequest("RESYNCH") # SRequest("IFS")
  BY OtherBlocks
<1> HIDE DEF b
<1>3. /\ UNCHANGED <<session, call, issued, result, present, scen>> /\ b \in Elems(inbox)
      /\ Elems(inbox') \subseteq Elems(inbox) /\ Elems(inbox') \subseteq Behind(inbox, b)
      /\ \A x : Behind(inbox', x) \subseteq Behind(inbox, x)
      /\ Elems(fifo') \subseteq Elems(fifo) \cup {c}
      /\ \A x, y : y \in Behind(fifo', x) => y \in Behind(fifo, x) \/ (y = c /\ x \in Elems(fifo))
      /\ inbox' \in Seq(Blocks)
  BY DEF Gets, Within, Added, b
<1>4. /\ IsCard(card') /\ card'.expect = 0 /\ card'.ns = 0 /\ card'.cmd = << >>
      /\ card'.last = NoBlock /\ ~card'.wtx /\ card'.on
  BY ResetCardFacts
<1>5. ~session.initialized /\ Live'
  BY <1>1, <1>3, <1>4 DEF InboxInv, Live, b
<1>6. \A a : Executed(a)' = Executed(a)
  BY Zenon DEF Executed
<1>7. TypeInv' /\ CallInv' /\ ExecutedOnce' /\ RightResponse'
  <2>1. MorePending' = MorePending
    BY <1>3 DEF MorePending
  <2> QED
    BY <1>1, <1>3, <1>4, <2>1 DEF TypeInv, CallInv, ExecutedOnce, RightResponse
<1>8. IssuedInv'
  BY <1>1, <1>3, <1>6 DEF IssuedInv
<1>9. CardInv'
  <2>1. \A x \in Elems(inbox') : ~IsI(x)
    BY <1>1, <1>3 DEF CardInv, b
  <2> QED
    BY <1>4, <2>1 DEF CardInv
<1>10. StartInv'
  BY <1>1, <1>2, <1>3, <1>4 DEF StartInv
<1>11. OrderInv'
  BY <1>1, <1>2, <1>3 DEF OrderInv, b
<1>12. SessionInv' /\ InboxInv' /\ FifoInv'
  BY <1>3, <1>5 DEF SessionInv, InboxInv, FifoInv
<1> QED
  BY <1>7, <1>8, <1>9, <1>10, <1>11, <1>12 DEF IInv

(* The card's state after a block, but for its being on.                   *)
CardBecomes(expect, ns, cmd, last, len, wtx) ==
    card' = [on |-> card.on, expect |-> expect, ns |-> ns, cmd |-> cmd, last |-> last,
             len |-> len, wtx |-> wtx]

(* It has the fields it was given.                                         *)
LEMMA CardFields ==
    ASSUME IsCard(card), NEW x \in Bits, NEW ns \in Bits, NEW cmd \in Seq(Nat \X Nat),
           NEW z \in Blocks, NEW len \in Nat, NEW wtx \in BOOLEAN,
           CardBecomes(x, ns, cmd, z, len, wtx)
    PROVE  /\ IsCard(card') /\ card'.on = card.on /\ card'.expect = x /\ card'.ns = ns
           /\ card'.cmd = cmd /\ card'.last = z /\ card'.len = len /\ card'.wtx = wtx
<1>1. card'.on = card.on /\ card'.wtx = wtx
  BY Zenon DEF CardBecomes
<1>2. card'.expect = x /\ card'.ns = ns
  BY Zenon DEF CardBecomes
<1>3. card'.cmd = cmd /\ card'.last = z
  BY Zenon DEF CardBecomes
<1>4. card'.len = len
  BY Zenon DEF CardBecomes
<1>5. card.on \in BOOLEAN
  BY DEF IsCard
<1>6. card' = [on |-> card'.on, expect |-> card'.expect, ns |-> card'.ns, cmd |-> card'.cmd,
               last |-> card'.last, len |-> card'.len, wtx |-> card'.wtx]
  BY <1>1, <1>2, <1>3, <1>4, Zenon DEF CardBecomes
<1>7. IsCard(card')
  BY <1>1, <1>2, <1>3, <1>4, <1>5, <1>6, Zenon DEF IsCard
<1> QED
  BY <1>1, <1>2, <1>3, <1>4, <1>7, Zenon

(* The block of a command the card takes: host and card are at one.        *)
LEMMA TakesBlock ==
    ASSUME IInv, NEW b, Gets(b), Live, IsI(b), b.seq = card.expect
    PROVE  /\ NextBlock(b) /\ b.apdu \in 0..issued /\ b.apdu \in Nat /\ b.part \in Nat
           /\ b.more \in BOOLEAN
           /\ card.expect \in Bits /\ Flip(card.expect) \in Bits
           /\ Flip(card.expect) # card.expect
           /\ Append(card.cmd, <<b.apdu, b.part>>) = Parts(b.apdu, b.part)
           /\ Parts(b.apdu, b.part) \in Seq(Nat \X Nat)
           /\ call.site \notin Starting
           /\ \A y \in Elems(inbox') : y # SRequest("RESYNCH") /\ (IsI(y) => y = b)
           /\ session.initialized =>
                 /\ ~Taken /\ ~Sent /\ ~card.wtx /\ call.site = "send" /\ b = Block
                 /\ card.expect = session.s /\ card.ns = session.r
                 /\ b.more = MorePending /\ b.apdu = call.apdu /\ b.part = call.off + 1
                 /\ \A y \in Elems(inbox') : ~IsR(y)
                 /\ \A f \in Elems(fifo) : /\ ~(IsI(f) /\ f.seq = session.r)
                                           /\ ~(IsR(f) /\ f.seq # session.s)
<1>1. /\ TypeInv /\ CallInv /\ IssuedInv /\ CardInv /\ StartInv /\ SessionInv /\ InboxInv
      /\ FifoInv
      /\ b \in Blocks /\ b \in Elems(inbox) /\ Elems(inbox') \subseteq Elems(inbox)
      /\ Elems(inbox') \subseteq Behind(inbox, b)
  BY DEF IInv, Gets, Within
<1>2. /\ NextBlock(b) /\ b.apdu \in 0..issued /\ b.apdu \in Nat /\ b.part \in Nat
      /\ b.more \in BOOLEAN
  BY <1>1, BlockFacts DEF CardInv, IssuedInv
<1>3. card.expect \in Bits /\ Flip(card.expect) \in Bits /\ Flip(card.expect) # card.expect
  BY <1>1, FlipFacts DEF TypeInv, IsCard
<1>4. /\ Append(card.cmd, <<b.apdu, b.part>>) = Parts(b.apdu, b.part)
      /\ Parts(b.apdu, b.part) \in Seq(Nat \X Nat)
  <2>1. PICK n \in Nat : n = b.part - 1
    BY <1>2 DEF NextBlock
  <2>2. b.part = n + 1 /\ card.cmd = Parts(b.apdu, n)
    BY <1>2, <2>1 DEF NextBlock
  <2>3. Append(Parts(b.apdu, n), <<b.apdu, n + 1>>) = Parts(b.apdu, n + 1)
    BY <1>2, PartsGrow
  <2>4. Parts(b.apdu, b.part) \in Seq(Nat \X Nat)
    BY <1>2, PartsGrow
  <2> QED
    BY <2>2, <2>3, <2>4
<1>5. call.site \notin Starting
  BY <1>1 DEF StartInv
<1>6. \A y \in Elems(inbox') : y # SRequest("RESYNCH") /\ (IsI(y) => y = b)
  BY <1>1 DEF CardInv
<1>7. ASSUME session.initialized
      PROVE  /\ ~Taken /\ ~Sent /\ ~card.wtx /\ call.site = "send" /\ b = Block
             /\ card.expect = session.s /\ card.ns = session.r
             /\ b.more = MorePending /\ b.apdu = call.apdu /\ b.part = call.off + 1
             /\ \A y \in Elems(inbox') : ~IsR(y)
             /\ \A f \in Elems(fifo) : /\ ~(IsI(f) /\ f.seq = session.r)
                                       /\ ~(IsR(f) /\ f.seq # session.s)
  <2>1. ~Taken /\ b.seq = session.s /\ card.expect = session.s
    BY <1>1, <1>7 DEF InboxInv, Taken
  <2>2. call.site = "send" /\ b = Block
    BY <1>1, <1>7, <2>1 DEF InboxInv, SessionInv
  <2>3. ~Sent /\ ~card.wtx /\ card.ns = session.r
    BY <1>1, <1>7, <2>1, <2>2 DEF SessionInv, Sent
  <2>4. b.more = MorePending /\ b.apdu = call.apdu /\ b.part = call.off + 1
    BY <1>1, <2>2, BlockOfSite
  <2>5. \A y \in Elems(inbox') : ~IsR(y)
    BY <1>1, <1>7, <2>1, <2>2 DEF InboxInv
  <2>6. \A f \in Elems(fifo) : /\ ~(IsI(f) /\ f.seq = session.r)
                               /\ ~(IsR(f) /\ f.seq # session.s)
    BY <1>1, <1>7, <2>1, <2>3 DEF FifoInv
  <2> QED
    BY <2>1, <2>2, <2>3, <2>4, <2>5, <2>6
<1> QED
  BY <1>2, <1>3, <1>4, <1>5, <1>6, <1>7

(* The card takes a block that more blocks of the command follow.          *)
LEMMA TakeStep ==
    ASSUME IInv, NEW b, Gets(b), Live, IsI(b), b.seq = card.expect, b.more,
           card' = [card EXCEPT !.expect = Flip(@), !.last = NoBlock,
                                !.cmd = Append(@, <<b.apdu, b.part>>)],
           runs' = runs, fifo' \in Seq(Blocks),
           NEW c \in {RBlock(Flip(card.expect)), Bad}, Added(fifo', fifo, c)
    PROVE  IInv'
<1>1. /\ TypeInv /\ CallInv /\ IssuedInv /\ SessionInv /\ InboxInv /\ FifoInv
      /\ ExecutedOnce /\ RightResponse
  BY DEF IInv
<1>2. /\ NextBlock(b) /\ b.apdu \in Nat /\ b.part \in Nat
      /\ Flip(card.expect) \in Bits /\ Flip(card.expect) # card.expect
      /\ Append(card.cmd, <<b.apdu, b.part>>) = Parts(b.apdu, b.part)
      /\ Parts(b.apdu, b.part) \in Seq(Nat \X Nat)
      /\ call.site \notin Starting
      /\ \A y \in Elems(inbox') : y # SRequest("RESYNCH") /\ (IsI(y) => y = b)
  BY TakesBlock
<1>3. ASSUME session.initialized
      PROVE  /\ ~Taken /\ ~Sent /\ ~card.wtx /\ call.site = "send" /\ b = Block
             /\ card.expect = session.s /\ card.ns = session.r
             /\ MorePending /\ b.apdu = call.apdu /\ b.part = call.off + 1
             /\ \A y \in Elems(inbox') : ~IsR(y)
             /\ \A f \in Elems(fifo) : /\ ~(IsI(f) /\ f.seq = session.r)
                                       /\ ~(IsR(f) /\ f.seq # session.s)
  BY <1>3, TakesBlock
<1>4. /\ UNCHANGED <<session, call, issued, result, present, scen>>
      /\ inbox' \in Seq(Blocks) /\ Elems(inbox') \subseteq Elems(inbox)
      /\ \A x : Behind(inbox', x) \subseteq Behind(inbox, x)
      /\ Elems(fifo') \subseteq Elems(fifo) \cup {c}
      /\ \A x, y : y \in Behind(fifo', x) => y \in Behind(fifo, x) \/ (y = c /\ x \in Elems(fifo))
  BY DEF Gets, Within, Added
<1>5. /\ IsCard(card') /\ card'.on = card.on /\ card'.expect = Flip(card.expect)
      /\ card'.ns = card.ns /\ card'.last = NoBlock /\ card'.wtx = card.wtx
      /\ card'.cmd = Parts(b.apdu, b.part)
  <2>1. NoBlock \in Blocks
    BY OtherBlocks
  <2> QED
    BY <1>1, <1>2, <2>1 DEF TypeInv, IsCard
<1>6. /\ ~IsI(c) /\ (IsR(c) => c.seq = Flip(card.expect))
  BY <1>2, RBlockFacts, OtherBlocks
<1>7. /\ Live' = Live /\ Whole' = Whole /\ MorePending' = MorePending /\ Block' = Block
      /\ \A a : Executed(a)' = Executed(a)
  BY <1>4, <1>5, Zenon DEF Live, Whole, MorePending, Block, Executed
<1>8. TypeInv' /\ CallInv' /\ ExecutedOnce' /\ RightResponse'
  BY <1>1, <1>4, <1>5, <1>7 DEF TypeInv, CallInv, ExecutedOnce, RightResponse
<1>9. IssuedInv'
  BY <1>1, <1>4, <1>7 DEF IssuedInv
<1>10. CardInv'
  BY <1>2, <1>5 DEF CardInv, NextBlock
<1>11. StartInv' /\ OrderInv'
  BY <1>2, <1>4 DEF StartInv, OrderInv, Starting
<1>12. session.initialized => Taken' /\ ~Sent' /\ ~Whole'
  BY <1>2, <1>3, <1>4, <1>5, <1>7 DEF Taken, Sent, Whole
<1>13. SessionInv'
  <2>1. ~IsI(NoBlock)
    BY OtherBlocks
  <2>2. session.initialized => ~Executed(call.apdu)
    BY <1>2, <1>3 DEF NextBlock
  <2> QED
    BY <1>3, <1>4, <1>5, <1>7, <1>12, <2>1, <2>2 DEF SessionInv
<1>14. InboxInv'
  BY <1>1, <1>2, <1>3, <1>4, <1>7, <1>12 DEF InboxInv
<1>15. FifoInv'
  <2> SUFFICES ASSUME session.initialized
               PROVE  FifoInv'
    BY <1>4 DEF FifoInv
  <2>1. \A f \in Elems(fifo') : /\ ~(IsI(f) /\ f.seq = session.r)
                                /\ IsR(f) /\ f.seq # session.s => f = c
    BY <1>3, <1>4, <1>6
  <2>2. c \notin Elems(fifo) \/ ~(IsR(c) /\ c.seq # session.s)
    BY <1>3
  <2>3. \A x, y : y \in Behind(fifo, x) => x \in Elems(fifo)
    BY <1>1, NothingBehind DEF TypeInv
  <2>4. IsR(c) /\ c.seq # session.s => \A y : y \notin Behind(fifo', c)
    BY <1>4, <2>2, <2>3
  <2> QED
    BY <1>3, <1>4, <1>12, <2>1, <2>4 DEF FifoInv
<1> QED
  BY <1>8, <1>9, <1>10, <1>11, <1>13, <1>14, <1>15 DEF IInv

(* The card executes a command.                                            *)
LEMMA RunsGrow ==
    ASSUME TypeInv, NEW run \in [cmd : Seq(Nat \X Nat), apdu : Nat, len : Nat \ {0}],
           runs' = Append(runs, run)
    PROVE  /\ runs' \in Seq([cmd : Seq(Nat \X Nat), apdu : Nat, len : Nat \ {0}])
           /\ Len(runs') = Len(runs) + 1 /\ Len(runs) \in Nat
           /\ runs'[Len(runs')] = run /\ Len(runs') \in 1..Len(runs')
           /\ \A i \in 1..Len(runs) : i \in 1..Len(runs') /\ runs'[i] = runs[i]
           /\ \A i \in 1..Len(runs') : i \in 1..Len(runs) \/ i = Len(runs')
<1> DEFINE S == [cmd : Seq(Nat \X Nat), apdu : Nat, len : Nat \ {0}]
<1>1. runs \in Seq(S) /\ run \in S
  BY DEF TypeInv
<1> HIDE DEF S
<1>2. /\ runs' \in Seq(S) /\ Len(runs') = Len(runs) + 1 /\ Len(runs) \in Nat
      /\ runs'[Len(runs) + 1] = run
      /\ \A i \in 1..Len(runs) : runs'[i] = runs[i]
  BY <1>1
<1>3. runs' \in Seq([cmd : Seq(Nat \X Nat), apdu : Nat, len : Nat \ {0}])
  BY <1>2 DEF S
<1>4. PICK n \in Nat : n = Len(runs)
  BY <1>2
<1>5. /\ Len(runs') = n + 1 /\ n + 1 \in 1..(n + 1)
      /\ \A i \in 1..n : i \in 1..(n + 1)
      /\ \A i \in 1..(n + 1) : i \in 1..n \/ i = n + 1
  BY <1>2, <1>4
<1> QED
  BY <1>2, <1>3, <1>4, <1>5, Zenon

(* The card takes the last block and executes the command; it responds, or *)
(* asks for more time first.                                               *)
LEMMA ExecuteStep ==
    ASSUME IInv, NEW b, Gets(b), Live, IsI(b), b.seq = card.expect, ~b.more,
           NEW len \in scen.responses, NEW z, z = Part(card.ns, b.apdu, 1, len),
           runs' = Append(runs, [cmd |-> Append(card.cmd, <<b.apdu, b.part>>),
                                 apdu |-> b.apdu, len |-> len]),
           NEW wtx \in BOOLEAN,
           CardBecomes(Flip(card.expect), IF wtx THEN card.ns ELSE Flip(card.ns), << >>, z,
                       len, wtx),
           fifo' \in Seq(Blocks), NEW c, Added(fifo', fifo, c),
           c.kind \in {"bad", "S"} \/ (c = z /\ ~wtx)
    PROVE  IInv'
<1>1. /\ TypeInv /\ CallInv /\ IssuedInv /\ SessionInv /\ InboxInv /\ FifoInv
      /\ ExecutedOnce /\ RightResponse
  BY DEF IInv
<1>2. /\ NextBlock(b) /\ b.apdu \in Nat /\ b.part \in Nat /\ b.apdu \in 0..issued
      /\ Flip(card.expect) \in Bits /\ Flip(card.expect) # card.expect
      /\ Append(card.cmd, <<b.apdu, b.part>>) = Parts(b.apdu, b.part)
      /\ Parts(b.apdu, b.part) \in Seq(Nat \X Nat)
      /\ call.site \notin Starting
      /\ \A y \in Elems(inbox') : y # SRequest("RESYNCH") /\ (IsI(y) => y = b)
  BY TakesBlock
<1>3. ASSUME session.initialized
      PROVE  /\ ~Taken /\ ~Sent /\ ~card.wtx /\ call.site = "send" /\ b = Block
             /\ card.expect = session.s /\ card.ns = session.r
             /\ ~MorePending /\ b.apdu = call.apdu /\ b.part = call.off + 1
             /\ \A y \in Elems(inbox') : ~IsR(y)
             /\ \A f \in Elems(fifo) : /\ ~(IsI(f) /\ f.seq = session.r)
                                       /\ ~(IsR(f) /\ f.seq # session.s)
  BY <1>3, TakesBlock
<1>4. /\ UNCHANGED <<session, call, issued, result, present, scen>>
      /\ inbox' \in Seq(Blocks) /\ Elems(inbox') \subseteq Elems(inbox)
      /\ \A x : Behind(inbox', x) \subseteq Behind(inbox, x)
      /\ Elems(fifo') \subseteq Elems(fifo) \cup {c}
      /\ \A x, y : y \in Behind(fifo', x) => y \in Behind(fifo, x) \/ (y = c /\ x \in Elems(fifo))
      /\ b \in Elems(inbox)
  BY DEF Gets, Within, Added
<1>5. len \in Nat /\ len # 0
  BY <1>1, ScenarioAssumption DEF TypeInv
<1>6. /\ z \in Blocks /\ IsI(z) /\ ~IsR(z) /\ z.seq = card.ns
  <2>1. card.ns \in Bits
    BY <1>1 DEF TypeInv, IsCard
  <2>2. PICK q \in Bits : q = card.ns
    BY <2>1
  <2>3. PICK a \in Nat : a = b.apdu
    BY <1>2
  <2>4. PICK w \in Nat : w = len
    BY <1>5
  <2>5. PICK y : y = Part(q, a, 1, w)
    OBVIOUS
  <2>6. y \in Blocks /\ IsI(y) /\ ~IsR(y) /\ y.seq = q
    BY <2>5, ResponseFacts
  <2>7. y = z
    BY <2>2, <2>3, <2>4, <2>5, Zenon
  <2> QED
    BY <2>2, <2>6, <2>7, Zenon
<1>7. /\ IsCard(card') /\ card'.on = card.on /\ card'.expect = Flip(card.expect)
      /\ card'.ns = (IF wtx THEN card.ns ELSE Flip(card.ns))
      /\ card'.last = z /\ card'.wtx = wtx /\ card'.cmd = << >> /\ card'.len = len
  <2>1. (IF wtx THEN card.ns ELSE Flip(card.ns)) \in Bits
    BY <1>1, FlipFacts DEF TypeInv, IsCard
  <2>2. PICK ns \in Bits : ns = IF wtx THEN card.ns ELSE Flip(card.ns)
    BY <2>1
  <2>3. PICK cmd \in Seq(Nat \X Nat) : cmd = << >>
    BY EmptyWithin
  <2>4. PICK x \in Bits : x = Flip(card.expect)
    BY <1>2
  <2>5. PICK w \in Nat : w = len
    BY <1>5
  <2>6. PICK y \in Blocks : y = z
    BY <1>6
  <2>7. CardBecomes(x, ns, cmd, y, w, wtx) /\ IsCard(card)
    <3>1. IsCard(card)
      BY <1>1 DEF TypeInv
    <3> QED
      BY <2>2, <2>3, <2>4, <2>5, <2>6, <3>1, Zenon
  <2>8. /\ IsCard(card') /\ card'.on = card.on /\ card'.expect = x /\ card'.ns = ns
        /\ card'.cmd = cmd /\ card'.last = y /\ card'.len = w /\ card'.wtx = wtx
    BY <2>7, CardFields
  <2> QED
    BY <2>2, <2>3, <2>4, <2>5, <2>6, <2>8, Zenon
<1>8. PICK run : run = [cmd |-> Parts(b.apdu, b.part), apdu |-> b.apdu, len |-> len]
  OBVIOUS
<1>9. /\ run \in [cmd : Seq(Nat \X Nat), apdu : Nat, len : Nat \ {0}]
      /\ run.cmd = Parts(b.apdu, b.part) /\ run.apdu = b.apdu /\ run.len = len
      /\ runs' = Append(runs, run)
  BY <1>2, <1>5, <1>8
<1>10. /\ runs' \in Seq([cmd : Seq(Nat \X Nat), apdu : Nat, len : Nat \ {0}])
       /\ runs'[Len(runs')] = run /\ Len(runs') \in 1..Len(runs')
       /\ \A i \in 1..Len(runs) : i \in 1..Len(runs') /\ runs'[i] = runs[i]
       /\ \A i \in 1..Len(runs') : i \in 1..Len(runs) \/ i = Len(runs')
  BY <1>1, <1>9, RunsGrow
<1>11. Live' = Live /\ Whole' = Whole /\ MorePending' = MorePending /\ Block' = Block
  BY <1>4, <1>7, Zenon DEF Live, Whole, MorePending, Block
<1>12. TypeInv' /\ CallInv'
  BY <1>1, <1>4, <1>7, <1>10, <1>11 DEF TypeInv, CallInv
<1>13. RightResponse'
  BY <1>1, <1>4, <1>10 DEF RightResponse
<1>14. ExecutedOnce'
  <2>1. \A i \in 1..Len(runs) : runs[i].apdu # b.apdu
    BY <1>2 DEF NextBlock, Executed
  <2>2. b.part \in scen.commands
    BY <1>2 DEF NextBlock
  <2>3. \A i, j \in 1..Len(runs') : runs'[i].apdu = runs'[j].apdu => i = j
    BY <1>1, <1>9, <1>10, <2>1 DEF ExecutedOnce
  <2>4. \A i \in 1..Len(runs') :
           \E n \in scen.commands : runs'[i].cmd = Parts(runs'[i].apdu, n)
    <3>1. \A i \in 1..Len(runs) : \E n \in scen.commands : runs[i].cmd = Parts(runs[i].apdu, n)
      BY <1>1 DEF ExecutedOnce
    <3>2. run.cmd = Parts(run.apdu, b.part)
      BY <1>9
    <3> QED
      BY <1>10, <2>2, <3>1, <3>2
  <2> QED
    BY <1>4, <2>3, <2>4 DEF ExecutedOnce, Parts
<1>15. IssuedInv'
  <2>1. \A i \in 1..Len(runs') : runs'[i].apdu \in 0..issued
    BY <1>1, <1>2, <1>9, <1>10 DEF IssuedInv
  <2>2. call.site \in Starting \cup {"reset"} /\ call.apdu # 0 =>
           \A i \in 1..Len(runs') : runs'[i].apdu # call.apdu
    BY <1>1, <1>4, <1>9, <1>10 DEF IssuedInv, Executed
  <2> QED
    BY <1>1, <1>4, <2>1, <2>2 DEF IssuedInv, Executed
<1>16. CardInv'
  BY <1>2, <1>6, <1>7 DEF CardInv
<1>17. StartInv' /\ OrderInv'
  BY <1>2, <1>4 DEF StartInv, OrderInv, Starting
<1>18. session.initialized => Taken' /\ Whole' /\ (Sent' <=> ~wtx)
  <2>1. session.initialized => Flip(session.r) # session.r
    BY <1>1, FlipFacts DEF TypeInv, IsSession
  <2> QED
    BY <1>2, <1>3, <1>4, <1>7, <1>11, <2>1 DEF Taken, Sent, Whole
<1>19. SessionInv'
  <2> SUFFICES ASSUME session.initialized
               PROVE  SessionInv'
    BY <1>4 DEF SessionInv
  <2>1. z = IBlock(session.r, 1 < len, call.apdu, 1)
    BY <1>3, Zenon DEF Part
  <2>2. \E i \in 1..Len(runs') :
           /\ runs'[i].apdu = call'.apdu /\ runs'[i].len = card'.len
           /\ card'.last = IBlock(session'.r, 1 < card'.len, call'.apdu, 1)
    BY <1>3, <1>4, <1>7, <1>9, <1>10, <2>1
  <2> QED
    BY <1>3, <1>4, <1>7, <1>18, <2>2 DEF SessionInv
<1>20. InboxInv'
  BY <1>1, <1>2, <1>3, <1>4, <1>11, <1>18 DEF InboxInv
<1>21. FifoInv'
  <2> SUFFICES ASSUME session.initialized
               PROVE  FifoInv'
    BY <1>4 DEF FifoInv
  <2>1. ~IsR(c) /\ (IsI(c) => c = z /\ ~wtx)
    BY <1>6 DEF IsI, IsR
  <2>2. \A f \in Elems(fifo') : /\ IsI(f) /\ f.seq = session.r => f = z /\ f = c /\ ~wtx
                                /\ ~(IsR(f) /\ f.seq # session.s)
    BY <1>3, <1>4, <2>1
  <2>3. \A y : y \notin Behind(fifo', z) \/ y = c
    <3>1. z \notin Elems(fifo)
      BY <1>3, <1>6
    <3>2. \A x, y : y \in Behind(fifo, x) => x \in Elems(fifo)
      BY <1>1, NothingBehind DEF TypeInv
    <3> QED
      BY <1>4, <3>1, <3>2
  <2>4. Reply(z, Len(call.buf) + 1, session.r)'
    <3>1. call.buf = << >> /\ Len(<< >>) + 1 = 1 /\ 1 <= len
      BY <1>1, <1>3, <1>5 DEF CallInv
    <3>2. z = IBlock(session.r, 1 < len, call.apdu, 1)
      BY <1>3, Zenon DEF Part
    <3> QED
      BY <1>3, <1>4, <1>9, <1>10, <3>1, <3>2 DEF Reply
  <2> QED
    BY <1>3, <1>4, <1>6, <1>7, <1>18, <2>1, <2>2, <2>3, <2>4 DEF FifoInv
<1> QED
  BY <1>12, <1>13, <1>14, <1>15, <1>16, <1>17, <1>19, <1>20, <1>21 DEF IInv

(* Block b makes the card send part n of its response: the first after     *)
(* more time, or the next one.                                             *)
Due(b, n) ==
    \/ b = SResponse("WTX") /\ card.wtx /\ n = 1
    \/ /\ IsR(b) /\ ~card.wtx /\ IsI(card.last) /\ b.seq # card.last.seq
       /\ card.last.more /\ n = card.last.part + 1

(* The card sends another block of its response.                           *)
LEMMA RespondStep ==
    ASSUME IInv, NEW b, Gets(b), Live, runs' = runs,
           NEW n \in Nat, NEW z, z = Part(card.ns, card.last.apdu, n, card.len), Due(b, n),
           CardBecomes(card.expect, Flip(card.ns), card.cmd, z, card.len, FALSE),
           fifo' \in Seq(Blocks), NEW c \in {z, Bad}, Added(fifo', fifo, c),
           z \in Blocks, IsI(z), ~IsR(z), z.seq = card.ns
    PROVE  IInv'
<1>1. /\ TypeInv /\ CallInv /\ IssuedInv /\ CardInv /\ StartInv /\ SessionInv /\ InboxInv
      /\ FifoInv /\ ExecutedOnce /\ RightResponse
      /\ card.ns \in Bits /\ card.len \in Nat /\ Flip(card.ns) \in Bits
      /\ card.expect \in Bits /\ card.cmd \in Seq(Nat \X Nat) /\ IsCard(card)
      /\ session.r \in Bits
  BY FlipFacts DEF IInv, TypeInv, IsCard, IsSession
<1>2. z \in Blocks /\ IsI(z) /\ ~IsR(z) /\ z.seq = card.ns
  OBVIOUS
<1>3. /\ IsCard(card') /\ card'.on = card.on /\ card'.expect = card.expect
      /\ card'.ns = Flip(card.ns) /\ card'.last = z /\ card'.wtx = FALSE
      /\ card'.cmd = card.cmd /\ card'.len = card.len
  <2>1. PICK ns \in Bits : ns = Flip(card.ns)
    BY <1>1
  <2>2. PICK cmd \in Seq(Nat \X Nat) : cmd = card.cmd
    BY <1>1
  <2>3. PICK x \in Bits : x = card.expect
    BY <1>1
  <2>4. PICK w \in Nat : w = card.len
    BY <1>1
  <2>5. PICK y \in Blocks : y = z
    BY <1>2
  <2>6. CardBecomes(x, ns, cmd, y, w, FALSE) /\ FALSE \in BOOLEAN
    BY <2>1, <2>2, <2>3, <2>4, <2>5, Zenon
  <2>7. /\ IsCard(card') /\ card'.on = card.on /\ card'.expect = x /\ card'.ns = ns
        /\ card'.cmd = cmd /\ card'.last = y /\ card'.len = w /\ card'.wtx = FALSE
    BY <1>1, <2>6, CardFields
  <2> QED
    BY <2>1, <2>2, <2>3, <2>4, <2>5, <2>7, Zenon
<1>4. /\ UNCHANGED <<session, call, issued, result, present, scen>>
      /\ inbox' \in Seq(Blocks) /\ Elems(inbox') \subseteq Elems(inbox)
      /\ Elems(inbox') \subseteq Behind(inbox, b)
      /\ \A x : Behind(inbox', x) \subseteq Behind(inbox, x)
      /\ Elems(fifo') \subseteq Elems(fifo) \cup {c}
      /\ \A x, y : y \in Behind(fifo', x) => y \in Behind(fifo, x) \/ (y = c /\ x \in Elems(fifo))
      /\ b \in Elems(inbox) /\ b \in Blocks
  BY DEF Gets, Within, Added
<1>5. /\ Live' = Live /\ Whole' = Whole /\ MorePending' = MorePending /\ Block' = Block
      /\ Taken' = Taken
      /\ \A a : Executed(a)' = Executed(a)
      /\ \A f, m, q : Reply(f, m, q)' = Reply(f, m, q)
  BY <1>3, <1>4, Zenon DEF Live, Whole, MorePending, Block, Taken, Executed, Reply
<1>6. TypeInv' /\ CallInv' /\ ExecutedOnce' /\ RightResponse'
  BY <1>1, <1>3, <1>4, <1>5 DEF TypeInv, CallInv, ExecutedOnce, RightResponse
<1>7. IssuedInv'
  BY <1>1, <1>4, <1>5 DEF IssuedInv
<1>8. CardInv'
  <2>1. \A x : NextBlock(x) => NextBlock(x)'
    BY <1>3, <1>4, <1>5 DEF NextBlock, Parts
  <2> QED
    BY <1>1, <1>3, <1>4, <1>5, <2>1 DEF CardInv
<1>9. StartInv' /\ OrderInv'
  <2>1. call.site \notin Starting
    BY <1>1, OtherBlocks DEF StartInv, Due
  <2> QED
    BY <1>4, <2>1 DEF StartInv, OrderInv, Starting
<1>10. ASSUME session.initialized
       PROVE  /\ ~Sent /\ card.ns = session.r
              /\ call.site = "chain" \/ (Taken /\ Whole)
              /\ \E i \in 1..Len(runs) :
                    /\ runs[i].apdu = call.apdu /\ runs[i].len = card.len
                    /\ n <= card.len
                    /\ z = IBlock(session.r, n < card.len, call.apdu, n)
              /\ n = Len(call.buf) + 1
              /\ call.site = "chain" => Len(call.buf) < card.len
              /\ \A y \in Elems(inbox') : IsR(y) => y.seq = session.r
  <2>1. CASE b = SResponse("WTX")
    <3>1. card.wtx /\ n = 1
      BY <2>1, OtherBlocks DEF Due
    <3>2. Taken /\ Whole /\ ~Sent
      BY <1>1, <1>10, <3>1 DEF SessionInv
    <3>3. PICK i \in 1..Len(runs) :
             /\ runs[i].apdu = call.apdu /\ runs[i].len = card.len
             /\ card.last = IBlock(session.r, 1 < card.len, call.apdu, 1)
      BY <1>1, <1>10, <3>2 DEF SessionInv
    <3>4. card.last.apdu = call.apdu
      BY <3>3 DEF IBlock
    <3>5. card.ns = session.r
      BY <3>2 DEF Sent
    <3>6. 1 <= card.len
      BY <1>1, <3>3, RunFacts
    <3>7. z = IBlock(session.r, n < card.len, call.apdu, n)
      BY <3>4, <3>5, Zenon DEF Part
    <3>8. call.buf = << >> /\ Len(<< >>) = 0
      BY <1>1, <3>2 DEF CallInv, Whole
    <3>9. \A y \in Elems(inbox') : IsR(y) => y.seq = session.r
      BY <1>1, <1>4, <1>10, <3>2 DEF InboxInv
    <3>10. call.site # "chain"
      BY <3>2 DEF Whole
    <3> QED
      BY <3>1, <3>2, <3>3, <3>5, <3>6, <3>7, <3>8, <3>9, <3>10
  <2>2. CASE IsR(b) /\ ~card.wtx
    <3>1. IsI(card.last) /\ b.seq # card.last.seq /\ card.last.more /\ n = card.last.part + 1
      BY <2>2 DEF Due
    <3>2. ~(Taken /\ Whole)
      <4>1. ASSUME Taken, Whole PROVE FALSE
        <5>1. card.last.seq = session.r
          BY <1>1, <1>10, <4>1 DEF SessionInv, IBlock
        <5> QED
          BY <1>1, <1>4, <1>10, <2>2, <3>1, <4>1, <5>1 DEF InboxInv
      <4> QED
        BY <4>1
    <3>3. call.site = "chain"
      BY <1>1, <1>10, <3>1, <3>2 DEF SessionInv
    <3>4. PICK i \in 1..Len(runs) :
             /\ runs[i].apdu = call.apdu /\ runs[i].len = card.len
             /\ Len(call.buf) < card.len
             /\ card.last =
                   IF Sent
                   THEN IBlock(session.r, Len(call.buf) + 1 < card.len, call.apdu,
                               Len(call.buf) + 1)
                   ELSE IBlock(Flip(session.r), TRUE, call.apdu, Len(call.buf))
      BY <1>1, <1>10, <3>3 DEF SessionInv
    <3>5. ~Sent
      <4>1. Sent => card.last.seq = session.r
        BY <3>4 DEF IBlock
      <4> QED
        BY <1>1, <1>4, <1>10, <2>2, <3>1, <4>1 DEF InboxInv
    <3>6. /\ card.last.apdu = call.apdu /\ card.last.part = Len(call.buf)
          /\ card.last.seq = Flip(session.r)
      BY <3>4, <3>5 DEF IBlock
    <3>7. b.seq = session.r
      <4>1. b.seq \in Bits
        BY <1>4, <2>2, BlockFacts
      <4> QED
        BY <1>1, <3>1, <3>6, <4>1, FlipFacts
    <3>8. card.ns = session.r
      BY <3>5 DEF Sent
    <3>9. n = Len(call.buf) + 1 /\ n <= card.len
      <4>1. Len(call.buf) \in Nat
        BY <1>1, <3>3 DEF CallInv
      <4>2. PICK k \in Nat : k = Len(call.buf)
        BY <4>1
      <4>3. PICK w \in Nat : w = card.len
        BY <1>1
      <4>4. n = k + 1 /\ k < w
        BY <3>1, <3>4, <3>6, <4>2, <4>3
      <4>5. k + 1 <= w
        BY <4>4
      <4> QED
        BY <4>2, <4>3, <4>4, <4>5
    <3>10. z = IBlock(session.r, n < card.len, call.apdu, n)
      BY <3>6, <3>8, Zenon DEF Part
    <3>11. \A y \in Elems(inbox') : IsR(y) => y.seq = session.r
      BY <1>1, <1>4, <1>10, <2>2, <3>7 DEF InboxInv
    <3> QED
      BY <3>3, <3>4, <3>5, <3>8, <3>9, <3>10, <3>11
  <2> QED
    BY <2>1, <2>2 DEF Due
<1>11. session.initialized => Sent'
  BY <1>1, <1>3, <1>4, <1>10, FlipFacts DEF Sent
<1>12. SessionInv'
  <2> SUFFICES ASSUME session.initialized
               PROVE  SessionInv'
    BY <1>4 DEF SessionInv
  <2>1. CASE call.site = "chain"
    <3>1. ~Taken /\ card.cmd = << >>
      BY <1>1, <2>1 DEF SessionInv
    <3>2. \E i \in 1..Len(runs') :
             /\ runs'[i].apdu = call'.apdu /\ runs'[i].len = card'.len
             /\ Len(call'.buf) < card'.len
             /\ card'.last = IBlock(session'.r, Len(call'.buf) + 1 < card'.len, call'.apdu,
                                    Len(call'.buf) + 1)
      BY <1>3, <1>4, <1>10, <2>1
    <3> QED
      BY <1>3, <1>4, <1>5, <1>11, <2>1, <3>1, <3>2 DEF SessionInv
  <2>2. CASE call.site # "chain"
    <3>1. Taken /\ Whole /\ n = 1 /\ card.cmd = << >> /\ call.site \in {"send", "fetch"}
      <4>1. Taken /\ Whole /\ call.site \in {"send", "fetch"}
        BY <1>10, <2>2 DEF Whole
      <4>2. card.cmd = << >> /\ call.buf = << >> /\ Len(<< >>) + 1 = 1
        BY <1>1, <4>1 DEF SessionInv, CallInv
      <4> QED
        BY <1>10, <4>1, <4>2
    <3>2. \E i \in 1..Len(runs') :
             /\ runs'[i].apdu = call'.apdu /\ runs'[i].len = card'.len
             /\ card'.last = IBlock(session'.r, 1 < card'.len, call'.apdu, 1)
      BY <1>3, <1>4, <1>10, <3>1
    <3> QED
      BY <1>1, <1>3, <1>4, <1>5, <1>11, <3>1, <3>2 DEF SessionInv
  <2> QED
    BY <2>1, <2>2
<1>13. InboxInv'
  BY <1>1, <1>4, <1>5, <1>10 DEF InboxInv
<1>14. FifoInv'
  <2> SUFFICES ASSUME session.initialized
               PROVE  FifoInv'
    BY <1>4 DEF FifoInv
  <2>1. \A f \in Elems(fifo) : ~(IsI(f) /\ f.seq = session.r)
    BY <1>1, <1>10 DEF FifoInv
  <2>2. ~IsR(c) /\ (IsI(c) => c = z)
    BY <1>2, OtherBlocks
  <2>3. z \notin Elems(fifo)
    BY <1>2, <1>10, <2>1
  <2>4. \A y : y \notin Behind(fifo', z)
    <3>1. \A x, y : y \in Behind(fifo, x) => x \in Elems(fifo)
      BY <1>1, NothingBehind DEF TypeInv
    <3> QED
      BY <1>4, <2>3, <3>1
  <2>5. Reply(z, Len(call.buf) + 1, session.r)
    BY <1>10 DEF Reply
  <2>6. \A f \in Elems(fifo') : /\ IsI(f) /\ f.seq = session.r => f = z
                                /\ IsR(f) => f \in Elems(fifo)
    BY <1>4, <2>1, <2>2
  <2>7. \A f \in Elems(fifo) : \A y \in Behind(fifo', f) : IsR(y) => y \in Behind(fifo, f)
    BY <1>4, <2>2
  <2> QED
    BY <1>1, <1>3, <1>4, <1>5, <1>10, <1>11, <2>2, <2>4, <2>5, <2>6, <2>7 DEF FifoInv
<1> QED
  BY <1>6, <1>7, <1>8, <1>9, <1>12, <1>13, <1>14 DEF IInv

(* The card takes a block.                                                 *)
LEMMA CardStepStep ==
    ASSUME IInv, NEW b, Gets(b), Live, CardStep(b)
    PROVE  IInv'
<1>1. /\ TypeInv /\ CardInv /\ fifo \in Seq(Blocks) /\ b \in Blocks /\ IsCard(card)
      /\ card.expect \in Bits /\ card.ns \in Bits /\ card.last \in Blocks
      /\ card.len \in Nat /\ card.wtx \in BOOLEAN
      /\ card = [on |-> card.on, expect |-> card.expect, ns |-> card.ns, cmd |-> card.cmd,
                 last |-> card.last, len |-> card.len, wtx |-> card.wtx]
  BY DEF IInv, TypeInv, Gets, IsCard
<1>2. ASSUME NEW c \in Blocks, ToHost(c)
      PROVE  fifo' \in Seq(Blocks) /\ \E d \in {c, Bad} : Added(fifo', fifo, d)
  BY <1>1, <1>2, ToHostAdds
<1>3. ASSUME runs' = runs, card' = card, NEW c \in Blocks, ToHost(c),
             \/ c.kind = "S" \/ c = RBlock(card.expect)
             \/ c = SResponse("IFS") /\ b = SRequest("IFS")
             \/ c = card.last /\ IsR(b) /\ ~card.wtx /\ IsI(card.last) /\ b.seq = card.last.seq
      PROVE  IInv'
  <2>1. PICK d \in {c, Bad} : fifo' \in Seq(Blocks) /\ Added(fifo', fifo, d)
    BY <1>2, <1>3
  <2>2. CASE d = Bad
    BY <1>3, <2>1, <2>2, QuietAnswer, OtherBlocks
  <2>3. CASE d = c
    BY <1>3, <2>1, <2>3, QuietAnswer, AskAnswer, IfsAnswer, RepeatAnswer
  <2> QED
    BY <2>1, <2>2, <2>3
<1>4. /\ SRequest("WTX") \in Blocks /\ SRequest("WTX").kind = "S"
      /\ RBlock(card.expect) \in Blocks /\ RBlock(Flip(card.expect)) \in Blocks
      /\ SResponse("IFS") \in Blocks /\ SResponse("RESYNCH") \in Blocks /\ Bad \in Blocks
  BY <1>1, OtherBlocks, RBlockFacts, FlipFacts
<1>5. CASE /\ b.kind = "I" /\ b.seq = card.expect /\ b.more
           /\ CardAnswers([card EXCEPT !.expect = Flip(@), !.last = NoBlock,
                                       !.cmd = Append(@, <<b.apdu, b.part>>)],
                          RBlock(Flip(card.expect)))
           /\ UNCHANGED runs
  <2>1. PICK d \in {RBlock(Flip(card.expect)), Bad} :
           fifo' \in Seq(Blocks) /\ Added(fifo', fifo, d)
    BY <1>2, <1>4, <1>5 DEF CardAnswers
  <2> QED
    BY <1>5, <2>1, TakeStep DEF CardAnswers, IsI
<1>6. CASE /\ (b.kind = "I" /\ b.seq # card.expect) \/ b.kind = "bad"
           /\ CardAnswers(card, IF card.wtx THEN SRequest("WTX") ELSE RBlock(card.expect))
           /\ UNCHANGED runs
  BY <1>1, <1>3, <1>4, <1>6 DEF CardAnswers
<1>7. CASE b = SRequest("IFS") /\ CardAnswers(card, SResponse("IFS")) /\ UNCHANGED runs
  BY <1>3, <1>4, <1>7 DEF CardAnswers
<1>8. CASE /\ b = SRequest("RESYNCH")
           /\ CardAnswers([NewCard EXCEPT !.on = TRUE], SResponse("RESYNCH"))
           /\ UNCHANGED runs
  <2>1. PICK d \in {SResponse("RESYNCH"), Bad} :
           fifo' \in Seq(Blocks) /\ Added(fifo', fifo, d)
    BY <1>2, <1>4, <1>8 DEF CardAnswers
  <2> QED
    BY <1>8, <2>1, ResynchAnswer DEF CardAnswers
<1>9. CASE b = SResponse("WTX") /\ ~card.wtx /\ UNCHANGED <<card, fifo, runs>>
  <2>1. Added(fifo', fifo, Bad)
    BY <1>9 DEF Added
  <2> QED
    BY <1>1, <1>9, <2>1, QuietAnswer, OtherBlocks
<1>10. ASSUME NEW n \in Nat, Respond(card, card.last.apdu, n, card.len), runs' = runs,
              IsI(card.last), Due(b, n)
       PROVE  IInv'
  <2>1. PICK z : z = Part(card.ns, card.last.apdu, n, card.len)
    OBVIOUS
  <2>2. z \in Blocks /\ IsI(z) /\ ~IsR(z) /\ z.seq = card.ns
    <3>1. card.last.apdu \in Nat
      BY <1>1, <1>10, BlockFacts
    <3> QED
      BY <1>1, <2>1, <3>1, ResponseFacts
  <2>3. ToHost(z) /\ card' = [card EXCEPT !.ns = Flip(@), !.last = z, !.len = card.len,
                                          !.wtx = FALSE]
    BY <1>10, <2>1, Zenon DEF Respond, Part
  <2>4. CardBecomes(card.expect, Flip(card.ns), card.cmd, z, card.len, FALSE)
    BY <1>1, <2>3 DEF CardBecomes
  <2>5. PICK c \in {z, Bad} : fifo' \in Seq(Blocks) /\ Added(fifo', fifo, c)
    BY <1>2, <2>2, <2>3
  <2> QED
    BY <1>10, <2>1, <2>2, <2>4, <2>5, RespondStep
<1>11. CASE /\ b = SResponse("WTX") /\ card.wtx
            /\ \/ Respond(card, card.last.apdu, 1, card.len)
               \/ CardAnswers(card, SRequest("WTX"))
            /\ UNCHANGED runs
  <2>1. CASE Respond(card, card.last.apdu, 1, card.len)
    <3>1. IsI(card.last) /\ 1 \in Nat
      BY <1>1, <1>11 DEF CardInv
    <3> QED
      BY <1>10, <1>11, <2>1, <3>1 DEF Due
  <2>2. CASE CardAnswers(card, SRequest("WTX"))
    BY <1>3, <1>4, <1>11, <2>2 DEF CardAnswers
  <2> QED
    BY <1>11, <2>1, <2>2
<1>12. CASE /\ b.kind = "R"
            /\ \/ /\ card.wtx
                  /\ CardAnswers(card, SRequest("WTX"))
               \/ /\ ~card.wtx /\ card.last.kind = "I" /\ b.seq = card.last.seq
                  /\ CardAnswers(card, card.last)
               \/ /\ ~card.wtx /\ card.last.kind = "I" /\ b.seq # card.last.seq
                  /\ card.last.more
                  /\ Respond(card, card.last.apdu, card.last.part + 1, card.len)
               \/ /\ ~card.wtx
                  /\ card.last.kind = "I" => b.seq # card.last.seq /\ ~card.last.more
                  /\ CardAnswers(card, RBlock(card.expect))
            /\ UNCHANGED runs
  <2>1. CASE CardAnswers(card, SRequest("WTX")) \/ CardAnswers(card, RBlock(card.expect))
    BY <1>3, <1>4, <1>12, <2>1 DEF CardAnswers
  <2>2. CASE /\ ~card.wtx /\ card.last.kind = "I" /\ b.seq = card.last.seq
             /\ CardAnswers(card, card.last)
    BY <1>1, <1>3, <1>12, <2>2 DEF CardAnswers, IsI, IsR
  <2>3. CASE /\ ~card.wtx /\ card.last.kind = "I" /\ b.seq # card.last.seq /\ card.last.more
             /\ Respond(card, card.last.apdu, card.last.part + 1, card.len)
    <3>1. IsI(card.last) /\ IsR(b) /\ card.last.part + 1 \in Nat
      BY <1>1, <1>12, <2>3, BlockFacts DEF IsI, IsR
    <3> QED
      BY <1>10, <1>12, <2>3, <3>1 DEF Due, IsI
  <2> QED
    BY <1>12, <2>1, <2>2, <2>3
<1>13. ASSUME b.kind = "I", b.seq = card.expect, ~b.more, NEW len \in scen.responses,
              runs' = Append(runs, [cmd |-> Append(card.cmd, <<b.apdu, b.part>>),
                                    apdu |-> b.apdu, len |-> len]),
              NEW c, c = [card EXCEPT !.expect = Flip(@), !.cmd = << >>],
              \/ Respond(c, b.apdu, 1, len)
              \/ CardAnswers([c EXCEPT !.wtx = TRUE, !.len = len,
                                       !.last = IBlock(c.ns, 1 < len, b.apdu, 1)],
                             SRequest("WTX"))
       PROVE  IInv'
  <2>1. PICK z : z = Part(card.ns, b.apdu, 1, len)
    OBVIOUS
  <2>2. z \in Blocks
    <3>1. b.apdu \in Nat /\ len \in Nat
      BY <1>1, <1>13, BlockFacts, ScenarioAssumption DEF IsI, TypeInv
    <3> QED
      BY <1>1, <2>1, <3>1, ResponseFacts
  <2>3. c = [on |-> card.on, expect |-> Flip(card.expect), ns |-> card.ns, cmd |-> << >>,
             last |-> card.last, len |-> card.len, wtx |-> card.wtx] /\ c.ns = card.ns
    BY <1>1, <1>13
  <2>4. CASE Respond(c, b.apdu, 1, len)
    <3>1. ToHost(z) /\ card' = [c EXCEPT !.ns = Flip(@), !.last = z, !.len = len,
                                         !.wtx = FALSE]
      BY <2>1, <2>3, <2>4, Zenon DEF Respond, Part
    <3>2. CardBecomes(Flip(card.expect), Flip(card.ns), << >>, z, len, FALSE)
      BY <2>3, <3>1 DEF CardBecomes
    <3>3. CardBecomes(Flip(card.expect), IF FALSE THEN card.ns ELSE Flip(card.ns), << >>, z,
                      len, FALSE) /\ FALSE \in BOOLEAN
      BY <3>2
    <3>4. PICK d \in {z, Bad} : fifo' \in Seq(Blocks) /\ Added(fifo', fifo, d)
      BY <1>2, <2>2, <3>1
    <3>5. d.kind \in {"bad", "S"} \/ (d = z /\ ~FALSE)
      BY <3>4, OtherBlocks
    <3> QED
      BY <1>13, <2>1, <3>3, <3>4, <3>5, ExecuteStep DEF IsI
  <2>5. CASE CardAnswers([c EXCEPT !.wtx = TRUE, !.len = len,
                                   !.last = IBlock(c.ns, 1 < len, b.apdu, 1)],
                         SRequest("WTX"))
    <3>1. ToHost(SRequest("WTX")) /\ card' = [c EXCEPT !.wtx = TRUE, !.len = len, !.last = z]
      BY <2>1, <2>3, <2>5, Zenon DEF CardAnswers, Part
    <3>2. CardBecomes(Flip(card.expect), card.ns, << >>, z, len, TRUE)
      BY <2>3, <3>1 DEF CardBecomes
    <3>3. CardBecomes(Flip(card.expect), IF TRUE THEN card.ns ELSE Flip(card.ns), << >>, z,
                      len, TRUE) /\ TRUE \in BOOLEAN
      BY <3>2
    <3>4. PICK d \in {SRequest("WTX"), Bad} : fifo' \in Seq(Blocks) /\ Added(fifo', fifo, d)
      BY <1>2, <1>4, <3>1
    <3>5. d.kind \in {"bad", "S"}
      BY <1>4, <3>4, OtherBlocks
    <3> QED
      BY <1>13, <2>1, <3>3, <3>4, <3>5, ExecuteStep DEF IsI
  <2> QED
    BY <1>13, <2>4, <2>5
<1> QED
  BY <1>5, <1>6, <1>7, <1>8, <1>9, <1>11, <1>12, <1>13 DEF CardStep

(* The card takes the next block, or has not been reset.                   *)
LEMMA CardReceivesStep == ASSUME IInv, CardReceives, Same PROVE IInv'
<1>1. PICK b : b = Head(inbox)
  OBVIOUS
<1>2. Gets(b)
  <2>1. inbox \in Seq(Blocks) /\ inbox # << >>
    BY DEF IInv, TypeInv, CardReceives
  <2>2. /\ inbox' = Tail(inbox)
        /\ UNCHANGED <<session, call, issued, result, present, scen>>
    BY DEF CardReceives, Same, hostvars
  <2> QED
    BY <1>1, <2>1, <2>2, TailWithin DEF Gets
<1>3. CASE Live
  BY <1>1, <1>2, <1>3, CardStepStep DEF CardReceives, Live
<1>4. CASE ~Live
  <2>1. UNCHANGED <<card, fifo, runs>> /\ fifo \in Seq(Blocks)
    BY <1>4 DEF CardReceives, Live, IInv, TypeInv
  <2>2. Added(fifo', fifo, Bad)
    BY <2>1 DEF Added
  <2> QED
    BY <1>2, <2>1, <2>2, QuietAnswer, OtherBlocks
<1> QED
  BY <1>3, <1>4

-----------------------------------------------------------------------------
(* The theorems                                                            *)

(* The reader is closed, nothing is under way and nothing was executed.    *)
LEMMA InitIInv == ASSUME Init PROVE IInv
<1>1. /\ session = Invalid /\ call = Idle /\ card = NewCard /\ issued = 0
      /\ inbox = << >> /\ fifo = << >> /\ runs = << >> /\ result = NoResult
      /\ present \in BOOLEAN /\ scen \in Scenarios
  BY DEF Init
<1>2. /\ IsCard(card) /\ ~card.on
  BY <1>1, OtherBlocks DEF NewCard, IsCard, Bits
<1>3. /\ Elems(inbox) = {} /\ Elems(fifo) = {} /\ Len(runs) = 0 /\ 1..0 = {}
      /\ \A S : << >> \in Seq(S)
  BY <1>1, EmptyWithin
<1>4. TypeInv
  BY <1>1, <1>2, <1>3, IdleFacts DEF TypeInv
<1>5. CallInv /\ call.site = "idle" /\ ~session.initialized
  BY <1>1, IdleFacts DEF CallInv, Starting
<1>6. IssuedInv /\ CardInv /\ StartInv /\ OrderInv
  BY <1>2, <1>3, <1>5 DEF IssuedInv, CardInv, StartInv, OrderInv, Live, Starting
<1>7. SessionInv /\ InboxInv /\ FifoInv
  BY <1>5 DEF SessionInv, InboxInv, FifoInv
<1>8. ExecutedOnce /\ RightResponse
  BY <1>1, <1>3 DEF ExecutedOnce, RightResponse, NoResult
<1> QED
  BY <1>4, <1>5, <1>6, <1>7, <1>8 DEF IInv

(* Every step keeps the invariant.                                         *)
LEMMA NextIInv == ASSUME IInv, [Next]_vars PROVE IInv'
<1>1. CASE UNCHANGED vars
  BY <1>1, SameInv DEF vars, hostvars
<1>2. CASE Next
  <2>1. CASE TakeOut \/ PutIn
    BY <1>2, <2>1, SwapStep DEF Next, Same, TakeOut, PutIn
  <2> QED
    BY <1>2, <2>1, CallerStep, ResetSteps, SendBlockStep, GiveUpSteps, WaitSteps, ReceiveStep,
       CardReceivesStep DEF Next, HostStep
<1> QED
  BY <1>1, <1>2

(* The invariant of the session holds for every number of retries, length  *)
(* of commands and responses and whatever the line does.                   *)
THEOREM Invariance == Spec => []IInv
<1>1. Init => IInv
  BY InitIInv
<1>2. IInv /\ [Next]_vars => IInv'
  BY NextIInv
<1> QED
  BY <1>1, <1>2, PTL DEF Spec

(* A Transmit() that succeeds gives the whole response of its own command. *)
THEOREM ResponseIsRight == Spec => []RightResponse
<1>1. IInv => RightResponse
  BY DEF IInv
<1> QED
  BY <1>1, Invariance, PTL

(* The card executes no command twice, and none put together from two.     *)
THEOREM CommandsExecutedOnce == Spec => []ExecutedOnce
<1>1. IInv => ExecutedOnce
  BY DEF IInv
<1> QED
  BY <1>1, Invariance, PTL

(* Between two calls host and card have the same sequence numbers.         *)
THEOREM SequenceNumbersAgree == Spec => []SequencesAgree
<1>1. IInv => SequencesAgree
  <2>1. ASSUME IInv, call = Idle, session.initialized, Live
        PROVE  session.s = card.expect /\ session.r = card.ns
    BY <2>1, IdleFacts DEF IInv, SessionInv, Taken, Sent, Whole
  <2> QED
    BY <2>1 DEF SequencesAgree, Live
<1> QED
  BY <1>1, Invariance, PTL

=============================================================================
