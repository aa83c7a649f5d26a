---------------------------- MODULE SendersProofs ----------------------------
(***************************************************************************)
(* How messages leave the bot, for every set of calls, texts and           *)
(* attachments: QQ's calls through the OneBot socket, whose answers find   *)
(* the call they are for (AnswersMatch) and which keep what Calls promises *)
(* (KeepsPromise); the transaction ids of Matrix's sends (OwnEventInRun,   *)
(* ErrorLeavesOne); and what the four senders make of a message            *)
(* (SentAsMeant).                                                          *)
(***************************************************************************)
EXTENDS TextProofs, Functions

----------------------------------------------------------------------------
(***************************************************************************)
(* The OneBot socket.                                                      *)
(***************************************************************************)
Call == [pc : {"idle", "registered", "waiting", "ok", "error"}, echo : Nat,
         answer : OneBot!AnswerType \cup {OneBot!NoAnswer}, names : SUBSET Requests]

Message == OneBot!AnswerType \cup {OneBot!AnEvent}

LEMMA TailParts ==
    ASSUME NEW S, NEW s \in Seq(S), s # <<>>
    PROVE  /\ Head(s) = s[1] /\ 1 \in DOMAIN s /\ Head(s) \in S
           /\ Tail(s) \in Seq(S)
           /\ \A i \in DOMAIN Tail(s) : i \in Nat /\ i + 1 \in DOMAIN s /\ i + 1 # 1 /\ Tail(s)[i] = s[i + 1]
<1>1. /\ Tail(s) \in Seq(S) /\ Len(Tail(s)) = Len(s) - 1 /\ Head(s) \in S
      /\ \A i \in 1..Len(Tail(s)) : Tail(s)[i] = s[i + 1]
  BY HeadTailProperties
<1>2. Len(s) \in Nat /\ Len(s) # 0 /\ DOMAIN s = 1..Len(s) /\ DOMAIN Tail(s) = 1..Len(Tail(s))
  BY <1>1, LenProperties, EmptySeq
<1>3. Head(s) = s[1]
  OBVIOUS
<1> QED
  BY <1>1, <1>2, <1>3

LEMMA AppendParts ==
    ASSUME NEW S, NEW s \in Seq(S), NEW e \in S
    PROVE  /\ Append(s, e) \in Seq(S)
           /\ \A i \in DOMAIN Append(s, e) :
                 \/ i \in DOMAIN s /\ Append(s, e)[i] = s[i]
                 \/ i = Len(s) + 1 /\ i \notin DOMAIN s /\ Append(s, e)[i] = e
           /\ \A i \in DOMAIN s : Append(s, e)[i] = s[i]
<1>1. Len(s) \in Nat /\ DOMAIN s = 1..Len(s)
  BY LenProperties
<1>2. /\ Append(s, e) \in Seq(S) /\ Len(Append(s, e)) = Len(s) + 1
      /\ \A i \in 1..Len(s) : Append(s, e)[i] = s[i]
      /\ Append(s, e)[Len(s) + 1] = e
  OBVIOUS
<1>3. DOMAIN Append(s, e) = 1..(Len(s) + 1)
  BY <1>2, LenProperties
<1> QED
  BY <1>1, <1>2, <1>3

LEMMA NothingIn == DOMAIN <<>> = {} /\ \A S : <<>> \in Seq(S)
<1>1. \A S : <<>> \in Seq(S) /\ Len(<<>>) = 0
  BY EmptySeq
<1>2. DOMAIN <<>> = 1..0
  BY <1>1, LenProperties
<1> QED
  BY <1>1, <1>2

(* One caller moves on. *)
LEMMA SetCall ==
    ASSUME OneBot!TypeInv, NEW c \in Requests, NEW u \in Call, call' = [call EXCEPT ![c] = u]
    PROVE  call' \in [Requests -> Call]
BY DEF OneBot!TypeInv, Call

LEMMA CallersType ==
    ASSUME OneBot!TypeInv, NEW c \in Requests,
           OneBot!Register(c) \/ OneBot!CallerStep(c)
    PROVE  OneBot!TypeInv'
<1>1. call[c] \in Call /\ call \in [Requests -> Call]
  BY DEF OneBot!TypeInv, Call
<1>2. CASE OneBot!Register(c)
  <2>1. call' = [call EXCEPT ![c] = [call[c] EXCEPT !.pc = "registered", !.echo = counter]]
    BY <1>1, <1>2 DEF OneBot!Register, OneBot!EchoOf
  <2>2. call' \in [Requests -> Call]
    BY <1>1, <2>1 DEF Call, OneBot!TypeInv
  <2>3. DOMAIN pending' = DOMAIN pending \cup {counter}
        /\ \A e \in DOMAIN pending' : pending'[e] = IF e = counter THEN c ELSE pending[e]
    BY <1>2 DEF OneBot!Register, OneBot!EchoOf
  <2> QED
    BY <1>2, <2>2, <2>3 DEF OneBot!Register, OneBot!TypeInv, Call, OneBot!socket, OneBot!napcat
<1>3. CASE OneBot!Enqueue(c)
  <2>1. call' \in [Requests -> Call]
    BY <1>1, <1>3 DEF OneBot!Enqueue, Call
  <2>2. [echo |-> call[c].echo, call |-> c] \in OneBot!Request
    BY <1>1 DEF OneBot!Request, Call
  <2>3. queue' \in Seq(OneBot!Request)
    BY <1>3, <2>2, AppendParts DEF OneBot!Enqueue, OneBot!TypeInv
  <2> QED
    BY <1>3, <2>1, <2>3 DEF OneBot!Enqueue, OneBot!TypeInv, Call, OneBot!napcat
<1>4. CASE OneBot!EnqueueFails(c) \/ OneBot!Timeout(c)
  <2>1. call' \in [Requests -> Call]
    BY <1>1, <1>4 DEF OneBot!EnqueueFails, OneBot!Timeout, Call
  <2> QED
    BY <1>4, <2>1
       DEF OneBot!EnqueueFails, OneBot!Timeout, OneBot!TypeInv, Call, OneBot!socket,
           OneBot!napcat
<1>5. CASE OneBot!Return(c)
  <2>1. call[c].answer.of \in Requests
    BY <1>1, <1>5 DEF OneBot!Return, Call, OneBot!AnswerType
  <2>2. call' \in [Requests -> Call]
    BY <1>1, <1>5, <2>1 DEF OneBot!Return, Call
  <2> QED
    BY <1>5, <2>2 DEF OneBot!Return, OneBot!TypeInv, Call, OneBot!socket, OneBot!napcat
<1> QED
  BY <1>2, <1>3, <1>4, <1>5 DEF OneBot!CallerStep

LEMMA SocketType ==
    ASSUME OneBot!TypeInv,
           \/ OneBot!Connect \/ OneBot!Transmit \/ OneBot!WriterEnds
           \/ OneBot!ReaderStep \/ OneBot!HandlerPanics \/ OneBot!ReaderEnds \/ OneBot!Discard
    PROVE  OneBot!TypeInv'
<1>1. CASE OneBot!Connect \/ OneBot!WriterEnds \/ OneBot!HandlerPanics \/ OneBot!ReaderEnds \/ OneBot!Discard
  BY <1>1, NothingIn
     DEF OneBot!Connect, OneBot!WriterEnds, OneBot!HandlerPanics, OneBot!ReaderEnds, OneBot!Discard,
         OneBot!TypeInv, OneBot!client, OneBot!napcat
<1>2. CASE OneBot!Transmit
  <2>1. Head(queue) \in OneBot!Request /\ Tail(queue) \in Seq(OneBot!Request)
    BY <1>2, TailParts DEF OneBot!Transmit, OneBot!TypeInv
  <2> QED
    BY <1>2, <2>1 DEF OneBot!Transmit, OneBot!TypeInv, OneBot!client
<1>3. CASE OneBot!TakeEvent \/ OneBot!HandlerReturns
  <2>1. wire' \in Seq(Message)
    <3>1. wire \in Seq(Message)
      BY DEF OneBot!TypeInv, Message
    <3>2. wire' = wire \/ (wire # <<>> /\ wire' = Tail(wire))
      BY <1>3 DEF OneBot!TakeEvent, OneBot!HandlerReturns, OneBot!napcat
    <3> QED
      BY <3>1, <3>2, TailParts
  <2> QED
    BY <1>3, <2>1
       DEF OneBot!TakeEvent, OneBot!HandlerReturns, OneBot!TypeInv, Message, OneBot!client,
           OneBot!napcat
<1>4. CASE OneBot!Dispatch
  <2> DEFINE a == Head(wire)
  <2>1. wire' \in Seq(Message) /\ a \in OneBot!AnswerType
    BY <1>4, TailParts DEF OneBot!Dispatch, OneBot!TypeInv, Message, OneBot!AnEvent
  <2>2. CASE a.echo \in DOMAIN pending
    <3>1. pending[a.echo] \in Requests
      BY <2>2 DEF OneBot!TypeInv
    <3>2. pending' = [x \in DOMAIN pending \ {a.echo} |-> pending[x]]
      BY <1>4, <2>2 DEF OneBot!Dispatch, OneBot!Deliver, OneBot!Restrict
    <3>3. call' \in [Requests -> Call]
      <4>1. call[pending[a.echo]] \in Call /\ call \in [Requests -> Call]
        BY <3>1 DEF OneBot!TypeInv, Call
      <4>2. call' = call \/ call' = [call EXCEPT ![pending[a.echo]] = [call[pending[a.echo]] EXCEPT !.answer = a]]
        BY <1>4, <2>2, <4>1 DEF OneBot!Dispatch, OneBot!Deliver
      <4>3. [call[pending[a.echo]] EXCEPT !.answer = a] \in Call
        BY <2>1, <4>1 DEF Call
      <4> QED
        BY <4>1, <4>2, <4>3
    <3> QED
      BY <1>4, <2>1, <3>2, <3>3 DEF OneBot!Dispatch, OneBot!TypeInv, Message, Call, OneBot!socket
  <2>3. CASE a.echo \notin DOMAIN pending
    BY <1>4, <2>1, <2>3 DEF OneBot!Dispatch, OneBot!TypeInv, Message, OneBot!socket
  <2> QED
    BY <2>2, <2>3
<1> QED
  BY <1>1, <1>2, <1>3, <1>4 DEF OneBot!ReaderStep

LEMMA NapCatType ==
    ASSUME OneBot!OneBotAssumption, OneBot!TypeInv,
           OneBot!Report \/ \E r \in inbox : OneBot!Serve(r) \/ OneBot!Refuse(r)
    PROVE  OneBot!TypeInv'
<1>1. /\ wire \in Seq(Message) /\ made \in [Requests -> Nat] /\ events \in 0..Reports
      /\ Reports \in Nat
  BY DEF OneBot!OneBotAssumption, OneBot!TypeInv, Message
<1>2. ASSUME NEW m \in Message, OneBot!Sent(m) \/ UNCHANGED wire PROVE wire' \in Seq(Message)
  BY <1>1, <1>2, AppendParts DEF OneBot!Sent
<1>3. CASE OneBot!Report
  <2>1. wire' \in Seq(Message)
    BY <1>2, <1>3 DEF OneBot!Report, Message
  <2>2. events' \in 0..Reports
    BY <1>1, <1>3 DEF OneBot!Report
  <2> QED
    BY <1>3, <2>1, <2>2 DEF OneBot!Report, OneBot!TypeInv, Message, OneBot!client, OneBot!socket
<1>4. ASSUME NEW r \in inbox, OneBot!Serve(r) \/ OneBot!Refuse(r) PROVE OneBot!TypeInv'
  <2>1. /\ r \in OneBot!Request /\ OneBot!Answer(r, TRUE) \in Message
        /\ OneBot!Answer(r, FALSE) \in Message
    BY DEF OneBot!TypeInv, OneBot!Request, OneBot!Answer, OneBot!AnswerType, Message
  <2>2. wire' \in Seq(Message)
    <3>1. OneBot!Sent(OneBot!Answer(r, TRUE)) \/ OneBot!Sent(OneBot!Answer(r, FALSE)) \/ UNCHANGED wire
      BY <1>4 DEF OneBot!Serve, OneBot!Refuse
    <3> QED
      BY <1>2, <2>1, <3>1
  <2>3. made' \in [Requests -> Nat]
    <3>1. made' = made \/ made' = [made EXCEPT ![r.call] = made[r.call] + 1]
      BY <1>4 DEF OneBot!Serve, OneBot!Refuse
    <3>2. r.call \in Requests
      BY <2>1 DEF OneBot!Request
    <3> QED
      BY <1>1, <3>1, <3>2
  <2> QED
    BY <1>4, <2>2, <2>3
       DEF OneBot!Serve, OneBot!Refuse, OneBot!TypeInv, Message, OneBot!client,
           OneBot!socket
<1> QED
  BY <1>3, <1>4

LEMMA TypeStep ==
    OneBot!OneBotAssumption /\ OneBot!TypeInv /\ [OneBot!Next]_(OneBot!vars) => OneBot!TypeInv'
<1> SUFFICES ASSUME OneBot!OneBotAssumption, OneBot!TypeInv, [OneBot!Next]_(OneBot!vars) PROVE OneBot!TypeInv'
  OBVIOUS
<1>1. CASE UNCHANGED OneBot!vars
  BY <1>1 DEF OneBot!vars, OneBot!client, OneBot!socket, OneBot!napcat, OneBot!TypeInv
<1> QED
  BY <1>1, CallersType, SocketType, NapCatType DEF OneBot!Next

LEMMA SocketTyped == ASSUME OneBot!OneBotAssumption PROVE OneBot!Spec => []OneBot!TypeInv
<1>1. OneBot!Init => OneBot!TypeInv
  BY NothingIn DEF OneBot!OneBotAssumption, OneBot!Init, OneBot!TypeInv
<1> QED
  BY <1>1, TypeStep, PTL DEF OneBot!Spec

----------------------------------------------------------------------------
(***************************************************************************)
(* AnswersMatch is not inductive: a stale answer, or a second call under   *)
(* the same echo, would break it.  Echoes are given once, and everything   *)
(* under way - requests in the channel and at NapCat, answers on the wire, *)
(* entries of the pending map - carries the echo of its own call.          *)
(***************************************************************************)
Holds(cl, c, e) == cl[c].pc # "idle" /\ cl[c].echo = e

Echoes ==
    /\ \A c \in Requests : call[c].pc = "idle" => call[c].answer = OneBot!NoAnswer /\ call[c].names = {}
    /\ \A c \in Requests : call[c].pc # "idle" => call[c].echo < counter
    /\ \A c, d \in Requests : call[d].pc # "idle" /\ Holds(call, c, call[d].echo) => c = d

InFlight ==
    /\ \A e \in DOMAIN pending : Holds(call, pending[e], e)
    /\ \A i \in DOMAIN queue : Holds(call, queue[i].call, queue[i].echo)
    /\ \A r \in inbox : Holds(call, r.call, r.echo)
    /\ \A i \in DOMAIN wire : wire[i].kind = "answer" => Holds(call, wire[i].of, wire[i].echo)

(* What a step does to a call: Register gives it the next echo, everything *)
(* else leaves it the one it has.                                          *)
LEMMA CallMoves ==
    ASSUME OneBot!TypeInv, [OneBot!Next]_(OneBot!vars), NEW c \in Requests
    PROVE  /\ counter' \in {counter, counter + 1}
           /\ \/ call'[c] = call[c]
              \/ /\ call[c].pc = "idle" /\ call'[c].pc = "registered"
                 /\ call'[c].echo = counter /\ counter' = counter + 1
                 /\ call'[c].answer = call[c].answer /\ call'[c].names = call[c].names
              \/ /\ call[c].pc # "idle" /\ call'[c].pc # "idle" /\ call'[c].echo = call[c].echo
                 /\ counter' = counter
<1>1. call \in [Requests -> Call] /\ call[c] \in Call
  BY DEF OneBot!TypeInv, Call
<1>2. CASE OneBot!Register(c)
  <2>1. call' = [call EXCEPT ![c] = [call[c] EXCEPT !.pc = "registered", !.echo = counter]]
    BY <1>1, <1>2 DEF OneBot!Register, OneBot!EchoOf
  <2>2. call[c].pc = "idle" /\ counter' = counter + 1
    BY <1>2 DEF OneBot!Register
  <2>3. /\ call'[c].pc = "registered" /\ call'[c].echo = counter
        /\ call'[c].answer = call[c].answer /\ call'[c].names = call[c].names
    BY <1>1, <2>1 DEF Call
  <2> QED
    BY <2>2, <2>3
<1>3. CASE OneBot!Enqueue(c) \/ OneBot!EnqueueFails(c) \/ OneBot!Timeout(c)
  <2>1. /\ call' = [call EXCEPT ![c].pc = "waiting"] \/ call' = [call EXCEPT ![c].pc = "error"]
        /\ call[c].pc # "idle" /\ counter' = counter
    BY <1>3 DEF OneBot!Enqueue, OneBot!EnqueueFails, OneBot!Timeout
  <2> QED
    BY <1>1, <2>1 DEF Call
<1>4. CASE OneBot!Return(c)
  <2>1. /\ \/ call'[c] = [call[c] EXCEPT !.pc = "ok", !.names = {call[c].answer.of}]
           \/ call'[c] = [call[c] EXCEPT !.pc = "error"]
        /\ call[c].pc # "idle" /\ counter' = counter
    BY <1>1, <1>4 DEF OneBot!Return
  <2> QED
    BY <1>1, <2>1 DEF Call
<1>5. ASSUME NEW d \in Requests, OneBot!Register(d) \/ OneBot!CallerStep(d), d # c
      PROVE  call'[c] = call[c] /\ counter' \in {counter, counter + 1}
  BY <1>1, <1>5
     DEF OneBot!Register, OneBot!CallerStep, OneBot!Enqueue, OneBot!EnqueueFails,
         OneBot!Return, OneBot!Timeout
<1>6. CASE OneBot!Dispatch
  <2>1. \/ call' = call
        \/ \E d \in Requests : call[d].pc # "idle" /\ call' = [call EXCEPT ![d].answer = Head(wire)]
    BY <1>6 DEF OneBot!Dispatch, OneBot!Deliver, OneBot!TypeInv
  <2>2. counter' = counter
    BY <1>6 DEF OneBot!Dispatch
  <2>3. ASSUME NEW d \in Requests, call[d].pc # "idle", call' = [call EXCEPT ![d].answer = Head(wire)]
        PROVE  \/ call'[c] = call[c]
               \/ call[c].pc # "idle" /\ call'[c].pc # "idle" /\ call'[c].echo = call[c].echo
    BY <1>1, <2>3 DEF Call
  <2> QED
    BY <2>1, <2>2, <2>3
<1>7. CASE \/ OneBot!Connect \/ OneBot!Transmit \/ OneBot!WriterEnds \/ OneBot!TakeEvent
           \/ OneBot!HandlerReturns \/ OneBot!HandlerPanics \/ OneBot!ReaderEnds \/ OneBot!Discard \/ OneBot!Report
           \/ UNCHANGED OneBot!vars \/ \E r \in inbox : OneBot!Serve(r) \/ OneBot!Refuse(r)
  BY <1>7
     DEF OneBot!Connect, OneBot!Transmit, OneBot!WriterEnds, OneBot!TakeEvent,
         OneBot!HandlerReturns, OneBot!HandlerPanics, OneBot!ReaderEnds, OneBot!Discard, OneBot!Report,
         OneBot!vars, OneBot!Serve, OneBot!Refuse, OneBot!client
<1> QED
  BY <1>2, <1>3, <1>4, <1>5, <1>6, <1>7 DEF OneBot!Next, OneBot!CallerStep, OneBot!ReaderStep

LEMMA OneMoves ==
    ASSUME OneBot!TypeInv, [OneBot!Next]_(OneBot!vars)
    PROVE  \E c : \A d \in Requests \ {c} : call'[d] = call[d]
<1>1. call \in [Requests -> Call]
  BY DEF OneBot!TypeInv, Call
<1>2. ASSUME NEW c \in Requests, OneBot!Register(c) \/ OneBot!CallerStep(c)
      PROVE  \A d \in Requests \ {c} : call'[d] = call[d]
  BY <1>1, <1>2
     DEF OneBot!Register, OneBot!CallerStep, OneBot!Enqueue, OneBot!EnqueueFails,
         OneBot!Return, OneBot!Timeout
<1>3. CASE OneBot!Dispatch
  <2>1. call' = call \/ \E c : call' = [call EXCEPT ![c].answer = Head(wire)]
    BY <1>3 DEF OneBot!Dispatch, OneBot!Deliver
  <2> QED
    BY <1>1, <2>1
<1>4. CASE \/ OneBot!Connect \/ OneBot!Transmit \/ OneBot!WriterEnds \/ OneBot!TakeEvent
           \/ OneBot!HandlerReturns \/ OneBot!HandlerPanics \/ OneBot!ReaderEnds \/ OneBot!Discard \/ OneBot!Report
           \/ UNCHANGED OneBot!vars \/ \E r \in inbox : OneBot!Serve(r) \/ OneBot!Refuse(r)
  BY <1>4
     DEF OneBot!Connect, OneBot!Transmit, OneBot!WriterEnds, OneBot!TakeEvent,
         OneBot!HandlerReturns, OneBot!HandlerPanics, OneBot!ReaderEnds, OneBot!Discard, OneBot!Report,
         OneBot!vars, OneBot!Serve, OneBot!Refuse, OneBot!client
<1> QED
  BY <1>2, <1>3, <1>4 DEF OneBot!Next, OneBot!ReaderStep

LEMMA HoldsLasts ==
    ASSUME OneBot!TypeInv, [OneBot!Next]_(OneBot!vars)
    PROVE  \A c \in Requests : \A e : Holds(call, c, e) => Holds(call', c, e)
BY CallMoves DEF Holds

LEMMA EchoesStep ==
    ASSUME OneBot!TypeInv, Echoes, [OneBot!Next]_(OneBot!vars)
    PROVE  Echoes'
<1>1. counter \in Nat /\ \A c \in Requests : call[c].echo \in Nat
  BY DEF OneBot!TypeInv
<1>2. ASSUME NEW c \in Requests, call'[c].pc = "idle"
      PROVE  call'[c].answer = OneBot!NoAnswer /\ call'[c].names = {}
  BY <1>2, CallMoves DEF Echoes
<1>3. ASSUME NEW c \in Requests, call'[c].pc # "idle" PROVE call'[c].echo < counter'
  BY <1>1, <1>3, CallMoves DEF Echoes
<1>4. ASSUME NEW c \in Requests, NEW d \in Requests, call'[c].pc # "idle", call'[d].pc # "idle",
             call'[c].echo = call'[d].echo
      PROVE  c = d
  <2>1. call'[c] = call[c] \/ call'[d] = call[d] \/ c = d
    BY OneMoves
  <2> QED
    BY <1>1, <1>4, <2>1, CallMoves DEF Echoes, Holds
<1> QED
  BY <1>2, <1>3, <1>4 DEF Echoes, Holds

LEMMA InFlightStep ==
    ASSUME OneBot!OneBotAssumption, OneBot!TypeInv, InFlight, [OneBot!Next]_(OneBot!vars)
    PROVE  InFlight'
<1>1. \A c \in Requests : \A e : Holds(call, c, e) => Holds(call', c, e)
  BY HoldsLasts
<1>2. \A e \in DOMAIN pending' : Holds(call', pending'[e], e)
  <2>1. CASE UNCHANGED pending
    BY <1>1, <2>1 DEF InFlight, OneBot!TypeInv
  <2>2. ASSUME NEW c \in Requests, OneBot!Register(c)
        PROVE  \A e \in DOMAIN pending' : Holds(call', pending'[e], e)
    <3>1. /\ DOMAIN pending' = DOMAIN pending \cup {counter}
          /\ \A e \in DOMAIN pending' : pending'[e] = IF e = counter THEN c ELSE pending[e]
          /\ call[c].pc = "idle"
      BY <2>2 DEF OneBot!Register, OneBot!EchoOf
    <3>2. call'[c].pc = "registered" /\ call'[c].echo = counter
      <4>1. call' = [call EXCEPT ![c] = [call[c] EXCEPT !.pc = "registered", !.echo = counter]]
            /\ call \in [Requests -> Call] /\ call[c] \in Call
        BY <2>2 DEF OneBot!Register, OneBot!EchoOf, OneBot!TypeInv, Call
      <4> QED
        BY <4>1 DEF Call
    <3>3. Holds(call', c, counter)
      BY <3>2 DEF Holds
    <3> QED
      BY <1>1, <3>1, <3>3 DEF InFlight, OneBot!TypeInv
  <2>3. CASE OneBot!Dispatch
    <3>1. \A e \in DOMAIN pending' : e \in DOMAIN pending /\ pending'[e] = pending[e]
      BY <2>3 DEF OneBot!Dispatch, OneBot!Deliver, OneBot!Restrict
    <3> QED
      BY <1>1, <3>1 DEF InFlight, OneBot!TypeInv
  <2>4. UNCHANGED pending \/ OneBot!Dispatch \/ \E c \in Requests : OneBot!Register(c)
    BY DEF OneBot!Next, OneBot!CallerStep, OneBot!ReaderStep, OneBot!Enqueue,
           OneBot!EnqueueFails, OneBot!Return, OneBot!Timeout, OneBot!Connect,
           OneBot!Transmit, OneBot!WriterEnds, OneBot!TakeEvent, OneBot!HandlerReturns,
           OneBot!HandlerPanics, OneBot!ReaderEnds, OneBot!Discard, OneBot!Report, OneBot!Serve, OneBot!Refuse,
           OneBot!vars, OneBot!client
  <2> QED
    BY <2>1, <2>2, <2>3, <2>4
<1>3. \A i \in DOMAIN queue' : Holds(call', queue'[i].call, queue'[i].echo)
  <2>1. queue \in Seq(OneBot!Request) /\ \A i \in DOMAIN queue : queue[i].call \in Requests
    <3>1. queue \in Seq(OneBot!Request)
      BY DEF OneBot!TypeInv
    <3>2. \A i \in DOMAIN queue : queue[i] \in OneBot!Request
      BY <3>1, LenProperties
    <3> QED
      BY <3>1, <3>2 DEF OneBot!Request
  <2>2. CASE UNCHANGED queue
    BY <1>1, <2>1, <2>2 DEF InFlight
  <2>3. CASE queue' = <<>>
    BY <2>3, NothingIn
  <2>4. CASE OneBot!Transmit
    <3>1. queue # <<>> /\ queue' = Tail(queue)
      BY <2>4 DEF OneBot!Transmit
    <3> QED
      BY <1>1, <2>1, <3>1, TailParts DEF InFlight
  <2>5. ASSUME NEW c \in Requests, OneBot!Enqueue(c)
        PROVE  \A i \in DOMAIN queue' : Holds(call', queue'[i].call, queue'[i].echo)
    <3> DEFINE r == [echo |-> call[c].echo, call |-> c]
    <3>1. r \in OneBot!Request /\ queue' = Append(queue, r) /\ Holds(call, r.call, r.echo)
      BY <2>5 DEF OneBot!Enqueue, OneBot!TypeInv, OneBot!Request, Holds
    <3>2. r.call \in Requests
      OBVIOUS
    <3> HIDE DEF r
    <3> QED
      BY <1>1, <2>1, <3>1, <3>2, AppendParts DEF InFlight
  <2>6. UNCHANGED queue \/ queue' = <<>> \/ OneBot!Transmit \/ \E c \in Requests : OneBot!Enqueue(c)
    BY DEF OneBot!Next, OneBot!CallerStep, OneBot!ReaderStep, OneBot!Register,
           OneBot!EnqueueFails, OneBot!Return, OneBot!Timeout, OneBot!Connect,
           OneBot!WriterEnds, OneBot!Dispatch, OneBot!TakeEvent, OneBot!HandlerReturns,
           OneBot!HandlerPanics, OneBot!ReaderEnds, OneBot!Discard, OneBot!Report, OneBot!Serve, OneBot!Refuse,
           OneBot!vars, OneBot!socket
  <2> QED
    BY <2>2, <2>3, <2>4, <2>5, <2>6
<1>4. \A r \in inbox' : Holds(call', r.call, r.echo)
  <2>1. inbox' \subseteq inbox \/ OneBot!Transmit
    BY DEF OneBot!Next, OneBot!CallerStep, OneBot!ReaderStep, OneBot!Register,
           OneBot!Enqueue, OneBot!EnqueueFails, OneBot!Return, OneBot!Timeout,
           OneBot!Connect, OneBot!WriterEnds, OneBot!Dispatch, OneBot!TakeEvent,
           OneBot!HandlerReturns, OneBot!HandlerPanics, OneBot!ReaderEnds, OneBot!Discard, OneBot!Report,
           OneBot!Serve, OneBot!Refuse, OneBot!vars, OneBot!napcat
  <2>2. \A r \in inbox' : r \in inbox \/ (queue # <<>> /\ r = Head(queue))
    BY <2>1 DEF OneBot!Transmit
  <2>3. queue # <<>> => Head(queue) \in OneBot!Request /\ Holds(call, Head(queue).call, Head(queue).echo)
    BY TailParts DEF OneBot!TypeInv, InFlight
  <2> QED
    BY <1>1, <2>2, <2>3 DEF InFlight, OneBot!TypeInv, OneBot!Request
<1>5. \A i \in DOMAIN wire' : wire'[i].kind = "answer" => Holds(call', wire'[i].of, wire'[i].echo)
  <2>1. wire \in Seq(Message) /\ \A i \in DOMAIN wire : wire[i].kind = "answer" => wire[i].of \in Requests
    <3>1. wire \in Seq(Message)
      BY DEF OneBot!TypeInv, Message
    <3> QED
      BY <3>1, LenProperties DEF Message, OneBot!AnswerType, OneBot!AnEvent
  <2>2. CASE UNCHANGED wire
    BY <1>1, <2>1, <2>2 DEF InFlight
  <2>3. CASE wire' = <<>>
    BY <2>3, NothingIn
  <2>4. CASE wire # <<>> /\ wire' = Tail(wire)
    BY <1>1, <2>1, <2>4, TailParts DEF InFlight
  <2>5. ASSUME NEW m \in Message, OneBot!Sent(m), m.kind = "answer" => m.of \in Requests /\ Holds(call, m.of, m.echo)
        PROVE  \A i \in DOMAIN wire' : wire'[i].kind = "answer" => Holds(call', wire'[i].of, wire'[i].echo)
    <3>1. CASE wire' = Append(wire, m)
      BY <1>1, <2>1, <2>5, <3>1, AppendParts DEF InFlight
    <3> QED
      BY <2>2, <2>5, <3>1 DEF OneBot!Sent
  <2>6. CASE OneBot!Report
    <3>1. OneBot!AnEvent \in Message /\ OneBot!AnEvent.kind # "answer"
      BY DEF OneBot!AnEvent, Message
    <3> QED
      BY <2>5, <2>6, <3>1 DEF OneBot!Report
  <2>7. ASSUME NEW r \in inbox, NEW ok \in BOOLEAN, OneBot!Sent(OneBot!Answer(r, ok))
        PROVE  \A i \in DOMAIN wire' : wire'[i].kind = "answer" => Holds(call', wire'[i].of, wire'[i].echo)
    <3>1. r \in OneBot!Request /\ Holds(call, r.call, r.echo)
      BY DEF InFlight, OneBot!TypeInv
    <3>2. /\ OneBot!Answer(r, ok) \in Message /\ OneBot!Answer(r, ok).of = r.call
          /\ OneBot!Answer(r, ok).echo = r.echo
      BY <3>1 DEF OneBot!Answer, Message, OneBot!AnswerType, OneBot!Request
    <3>3. r.call \in Requests
      BY <3>1 DEF OneBot!Request
    <3> QED
      BY <2>5, <2>7, <3>1, <3>2, <3>3
  <2>8. \/ UNCHANGED wire \/ wire' = <<>> \/ (wire # <<>> /\ wire' = Tail(wire)) \/ OneBot!Report
        \/ \E r \in inbox : \E ok \in BOOLEAN : OneBot!Sent(OneBot!Answer(r, ok))
    BY DEF OneBot!Next, OneBot!CallerStep, OneBot!ReaderStep, OneBot!Register,
           OneBot!Enqueue, OneBot!EnqueueFails, OneBot!Return, OneBot!Timeout,
           OneBot!Connect, OneBot!WriterEnds, OneBot!Transmit, OneBot!Dispatch,
           OneBot!TakeEvent, OneBot!HandlerReturns, OneBot!HandlerPanics, OneBot!ReaderEnds, OneBot!Discard,
           OneBot!Serve, OneBot!Refuse, OneBot!vars, OneBot!napcat
  <2> QED
    BY <2>2, <2>3, <2>4, <2>6, <2>7, <2>8
<1> QED
  BY <1>2, <1>3, <1>4, <1>5 DEF InFlight

(* An answer on the wire that finds an entry finds the entry of its call.  *)
LEMMA AnswersFind ==
    ASSUME OneBot!TypeInv, Echoes, InFlight, OneBot!Dispatch, Head(wire).echo \in DOMAIN pending
    PROVE  /\ Head(wire) \in OneBot!AnswerType
           /\ pending[Head(wire).echo] = Head(wire).of
           /\ Holds(call, Head(wire).of, Head(wire).echo)
<1>1. wire \in Seq(Message) /\ wire # <<>> /\ Head(wire).kind = "answer"
  BY DEF OneBot!TypeInv, Message, OneBot!Dispatch
<1>2. Head(wire) \in OneBot!AnswerType /\ Head(wire) = wire[1] /\ 1 \in DOMAIN wire
  BY <1>1, TailParts DEF Message, OneBot!AnEvent
<1>3. Holds(call, Head(wire).of, Head(wire).echo)
  BY <1>1, <1>2 DEF InFlight
<1>4. Holds(call, pending[Head(wire).echo], Head(wire).echo)
  BY DEF InFlight
<1>5. pending[Head(wire).echo] \in Requests /\ Head(wire).of \in Requests
  BY <1>2 DEF OneBot!TypeInv, OneBot!AnswerType
<1> QED
  BY <1>2, <1>3, <1>4, <1>5 DEF Echoes, Holds

LEMMA CallersMatch ==
    ASSUME OneBot!TypeInv, Echoes, InFlight, OneBot!AnswersMatch, NEW c \in Requests,
           OneBot!Register(c) \/ OneBot!CallerStep(c)
    PROVE  OneBot!AnswersMatch'
<1>1. /\ call \in [Requests -> Call] /\ call[c] \in Call /\ counter \in Nat
      /\ \A e \in DOMAIN pending : pending[e] \in Requests /\ Holds(call, pending[e], e)
  BY DEF OneBot!TypeInv, Call, InFlight
<1>2. CASE OneBot!Register(c)
  <2>1. /\ DOMAIN pending' = DOMAIN pending \cup {counter}
        /\ \A e \in DOMAIN pending' : pending'[e] = IF e = counter THEN c ELSE pending[e]
        /\ call[c].pc = "idle"
        /\ call' = [call EXCEPT ![c] = [call[c] EXCEPT !.pc = "registered", !.echo = counter]]
    BY <1>1, <1>2 DEF OneBot!Register, OneBot!EchoOf
  <2>2. /\ call'[c].pc = "registered" /\ call'[c].echo = counter /\ call'[c].answer = call[c].answer
        /\ call'[c].names = call[c].names
        /\ \A d \in Requests \ {c} : call'[d] = call[d]
    BY <1>1, <2>1 DEF Call
  <2>3. call[c].answer = OneBot!NoAnswer /\ call[c].names = {}
    BY <2>1 DEF Echoes
  <2>4. \A d \in Requests : OneBot!Open(d) => call[d].echo < counter
    BY DEF OneBot!Open, Echoes
  <2>5. OneBot!Findable'
    BY <1>1, <2>1, <2>2, <2>4 DEF OneBot!AnswersMatch, OneBot!Findable, OneBot!Open
  <2>6. OneBot!OwnAnswer'
    BY <2>2, <2>3 DEF OneBot!AnswersMatch, OneBot!OwnAnswer
  <2>7. OneBot!OnlyUnanswered'
    BY <1>1, <2>1, <2>2, <2>3 DEF OneBot!AnswersMatch, OneBot!OnlyUnanswered, OneBot!Open, Holds
  <2> QED
    BY <2>5, <2>6, <2>7 DEF OneBot!AnswersMatch
<1>3. CASE OneBot!Enqueue(c) \/ OneBot!EnqueueFails(c) \/ OneBot!Timeout(c)
  <2>1. /\ call'[c].answer = call[c].answer /\ call'[c].names = call[c].names /\ call'[c].echo = call[c].echo
        /\ \/ call'[c].pc = "error"
           \/ OneBot!Open(c) /\ call'[c].pc = "waiting"
        /\ pending' = pending
        /\ \A d \in Requests \ {c} : call'[d] = call[d]
    <3>1. /\ \/ call' = [call EXCEPT ![c].pc = "error"]
             \/ OneBot!Open(c) /\ call' = [call EXCEPT ![c].pc = "waiting"]
          /\ pending' = pending
      BY <1>3 DEF OneBot!Enqueue, OneBot!EnqueueFails, OneBot!Timeout, OneBot!Open
    <3> QED
      BY <1>1, <3>1 DEF Call
  <2>2. OneBot!Findable'
    BY <2>1 DEF OneBot!AnswersMatch, OneBot!Findable, OneBot!Open
  <2>3. OneBot!OwnAnswer'
    BY <2>1 DEF OneBot!AnswersMatch, OneBot!OwnAnswer
  <2>4. OneBot!OnlyUnanswered'
    BY <1>1, <2>1 DEF OneBot!AnswersMatch, OneBot!OnlyUnanswered, OneBot!Open
  <2> QED
    BY <2>2, <2>3, <2>4 DEF OneBot!AnswersMatch
<1>4. CASE OneBot!Return(c)
  <2>1. /\ call[c].pc = "waiting" /\ call[c].answer # OneBot!NoAnswer /\ pending' = pending
        /\ \/ call'[c] = [call[c] EXCEPT !.pc = "ok", !.names = {call[c].answer.of}]
           \/ call'[c] = [call[c] EXCEPT !.pc = "error"]
        /\ \A d \in Requests \ {c} : call'[d] = call[d]
    BY <1>1, <1>4 DEF OneBot!Return
  <2>2. call[c].answer.of = c /\ call[c].names \subseteq {c}
    BY <2>1 DEF OneBot!AnswersMatch, OneBot!OwnAnswer
  <2>3. /\ call'[c].pc \in {"ok", "error"} /\ call'[c].answer = call[c].answer
        /\ call'[c].names \subseteq {c}
    BY <1>1, <2>1, <2>2 DEF Call
  <2>4. \A e \in DOMAIN pending : pending[e] # c
    BY <2>1 DEF OneBot!AnswersMatch, OneBot!OnlyUnanswered, OneBot!Open
  <2>5. OneBot!Findable'
    BY <2>1, <2>3 DEF OneBot!AnswersMatch, OneBot!Findable, OneBot!Open
  <2>6. OneBot!OwnAnswer'
    BY <2>1, <2>2, <2>3 DEF OneBot!AnswersMatch, OneBot!OwnAnswer
  <2>7. OneBot!OnlyUnanswered'
    BY <1>1, <2>1, <2>4 DEF OneBot!AnswersMatch, OneBot!OnlyUnanswered, OneBot!Open
  <2> QED
    BY <2>5, <2>6, <2>7 DEF OneBot!AnswersMatch
<1> QED
  BY <1>2, <1>3, <1>4 DEF OneBot!CallerStep

LEMMA DispatchMatches ==
    ASSUME OneBot!TypeInv, Echoes, InFlight, OneBot!AnswersMatch, OneBot!Dispatch
    PROVE  OneBot!AnswersMatch'
<1> DEFINE a == Head(wire)
<1>1. /\ call \in [Requests -> Call]
      /\ \A e \in DOMAIN pending : pending[e] \in Requests /\ Holds(call, pending[e], e)
  BY DEF OneBot!TypeInv, Call, InFlight
<1>2. CASE a.echo \notin DOMAIN pending
  <2>1. UNCHANGED <<pending, call>>
    BY <1>2 DEF OneBot!Dispatch
  <2> QED
    BY <2>1
       DEF OneBot!AnswersMatch, OneBot!Findable, OneBot!OwnAnswer, OneBot!OnlyUnanswered,
           OneBot!Open
<1>3. CASE a.echo \in DOMAIN pending
  <2> DEFINE c == a.of
  <2>1. a \in OneBot!AnswerType /\ c \in Requests /\ pending[a.echo] = c /\ Holds(call, c, a.echo)
    BY <1>1, <1>3, AnswersFind
  <2>2. /\ DOMAIN pending' = DOMAIN pending \ {a.echo}
        /\ \A e \in DOMAIN pending' : pending'[e] = pending[e]
        /\ call' = IF OneBot!Open(c) THEN [call EXCEPT ![c].answer = a] ELSE call
    BY <1>3, <2>1 DEF OneBot!Dispatch, OneBot!Deliver, OneBot!Restrict, OneBot!Open
  <2>3. /\ \A d \in Requests : call'[d].pc = call[d].pc /\ call'[d].echo = call[d].echo /\ call'[d].names = call[d].names
        /\ \A d \in Requests : d # c \/ ~OneBot!Open(c) => call'[d] = call[d]
        /\ OneBot!Open(c) => call'[c].answer = a
    BY <1>1, <2>1, <2>2 DEF Call
  <2>4. a # OneBot!NoAnswer
    BY <2>1 DEF OneBot!AnswerType, OneBot!NoAnswer
  <2>5. \A e \in DOMAIN pending' : e \in DOMAIN pending /\ pending'[e] # c
    BY <1>1, <2>1, <2>2 DEF Holds
  <2>6. OneBot!Findable'
    <3> SUFFICES ASSUME NEW d \in Requests, OneBot!Open(d), call'[d].answer = OneBot!NoAnswer
                 PROVE  call[d].echo \in DOMAIN pending' /\ pending'[call[d].echo] = d
      BY <2>3 DEF OneBot!Findable, OneBot!Open
    <3>1. d # c /\ call[d].answer = OneBot!NoAnswer
      BY <2>3, <2>4
    <3>2. call[d].echo \in DOMAIN pending /\ pending[call[d].echo] = d
      BY <3>1 DEF OneBot!AnswersMatch, OneBot!Findable
    <3> QED
      BY <2>1, <2>2, <3>1, <3>2
  <2>7. OneBot!OwnAnswer'
    BY <2>3, <2>4 DEF OneBot!AnswersMatch, OneBot!OwnAnswer
  <2>8. OneBot!OnlyUnanswered'
    <3> SUFFICES ASSUME NEW e \in DOMAIN pending'
                 PROVE  \/ OneBot!Open(pending[e]) /\ call'[pending[e]].answer = OneBot!NoAnswer
                        \/ call'[pending[e]].pc = "error"
      BY <1>1, <2>2, <2>3, <2>5 DEF OneBot!OnlyUnanswered, OneBot!Open
    <3> QED
      BY <1>1, <2>2, <2>3, <2>5 DEF OneBot!AnswersMatch, OneBot!OnlyUnanswered
  <2> QED
    BY <2>6, <2>7, <2>8 DEF OneBot!AnswersMatch
<1> QED
  BY <1>2, <1>3

LEMMA MatchStep ==
    ASSUME OneBot!TypeInv, Echoes, InFlight, OneBot!AnswersMatch, [OneBot!Next]_(OneBot!vars)
    PROVE  OneBot!AnswersMatch'
<1>1. CASE UNCHANGED <<pending, call>>
  BY <1>1
     DEF OneBot!AnswersMatch, OneBot!Findable, OneBot!OwnAnswer, OneBot!OnlyUnanswered,
         OneBot!Open
<1>2. UNCHANGED <<pending, call>> \/ OneBot!Dispatch \/ \E c \in Requests : OneBot!Register(c) \/ OneBot!CallerStep(c)
  BY DEF OneBot!Next, OneBot!ReaderStep, OneBot!Connect, OneBot!Transmit, OneBot!WriterEnds,
         OneBot!TakeEvent, OneBot!HandlerReturns, OneBot!HandlerPanics, OneBot!ReaderEnds, OneBot!Discard,
         OneBot!Report, OneBot!Serve, OneBot!Refuse, OneBot!vars, OneBot!client
<1> QED
  BY <1>1, <1>2, CallersMatch, DispatchMatches

LEMMA MatchInvariant ==
    ASSUME OneBot!OneBotAssumption
    PROVE  OneBot!Spec => [](Echoes /\ InFlight /\ OneBot!AnswersMatch)
<1>1. OneBot!Init => Echoes /\ InFlight /\ OneBot!AnswersMatch
  BY NothingIn
     DEF OneBot!Init, Echoes, InFlight, Holds, OneBot!AnswersMatch, OneBot!Findable,
         OneBot!OwnAnswer, OneBot!OnlyUnanswered, OneBot!Open
<1> QED
  BY <1>1, EchoesStep, InFlightStep, MatchStep, SocketTyped, PTL DEF OneBot!Spec

LEMMA SocketAnswers == ASSUME OneBot!OneBotAssumption PROVE OneBot!Spec => []OneBot!AnswersMatch
BY MatchInvariant, PTL

----------------------------------------------------------------------------
(***************************************************************************)
(* Api::call implements Calls.  A request is in one place at a time - with *)
(* its caller, in the channel, at NapCat, served - and an answer that says *)
(* ok is the answer of a request that was served.                          *)
(***************************************************************************)
Waiting(c) == (\E i \in DOMAIN queue : queue[i].call = c) \/ (\E r \in inbox : r.call = c)

Unserved ==
    /\ \A c \in Requests : call[c].pc \in {"idle", "registered"} => made[c] = 0 /\ ~Waiting(c)
    /\ \A i \in DOMAIN queue : made[queue[i].call] = 0
    /\ \A r \in inbox : made[r.call] = 0

Apart ==
    /\ \A i, j \in DOMAIN queue : queue[i].call = queue[j].call => i = j
    /\ \A i \in DOMAIN queue : \A r \in inbox : queue[i].call # r.call

Served ==
    /\ \A i \in DOMAIN wire : wire[i].kind = "answer" => (wire[i].ok => made[wire[i].of] = 1)
    /\ \A c \in Requests : call[c].answer # OneBot!NoAnswer => (call[c].answer.ok => made[c] = 1)

Once == Unserved /\ Apart /\ Served

(* Requests of the channel and of NapCat's inbox, typed.                   *)
LEMMA RequestsTyped ==
    ASSUME OneBot!TypeInv
    PROVE  /\ queue \in Seq(OneBot!Request) /\ \A i \in DOMAIN queue : queue[i].call \in Requests
           /\ \A r \in inbox : r.call \in Requests
           /\ wire \in Seq(Message) /\ \A i \in DOMAIN wire : wire[i].kind = "answer" => wire[i].of \in Requests
<1>1. queue \in Seq(OneBot!Request) /\ wire \in Seq(Message) /\ \A r \in inbox : r \in OneBot!Request
  BY DEF OneBot!TypeInv, Message
<1>2. (\A i \in DOMAIN queue : queue[i] \in OneBot!Request) /\ (\A i \in DOMAIN wire : wire[i] \in Message)
  BY <1>1, LenProperties
<1> QED
  BY <1>1, <1>2 DEF OneBot!Request, Message, OneBot!AnswerType, OneBot!AnEvent

(* Requests that move along: none new in the channel or at NapCat.         *)
LEMMA NoneAdded ==
    ASSUME OneBot!TypeInv, Once, UNCHANGED <<inbox, made>>, UNCHANGED queue \/ queue' = <<>>,
                  \A c \in Requests : call'[c].pc \in {"idle", "registered"} => call[c].pc \in {"idle", "registered"}
    PROVE  Unserved' /\ Apart'
<1>1. CASE UNCHANGED queue
  BY <1>1 DEF Once, Unserved, Apart, Waiting
<1>2. CASE queue' = <<>>
  BY <1>2, NothingIn DEF Once, Unserved, Apart, Waiting
<1> QED
  BY <1>1, <1>2

LEMMA CallersServed ==
    ASSUME OneBot!TypeInv, Once, NEW c \in Requests,
           OneBot!Register(c) \/ OneBot!CallerStep(c)
    PROVE  Once'
<1>1. call \in [Requests -> Call] /\ call[c] \in Call
  BY DEF OneBot!TypeInv, Call
<1>2. /\ UNCHANGED <<inbox, made, wire>>
      /\ \A d \in Requests \ {c} : call'[d] = call[d]
      /\ call'[c].answer = call[c].answer
      /\ (OneBot!Register(c) /\ call[c].pc = "idle") \/ call'[c].pc \in {"waiting", "ok", "error"}
      /\ OneBot!Enqueue(c) \/ UNCHANGED queue
  <2>1. CASE OneBot!Register(c)
    <3>1. call' = [call EXCEPT ![c] = [call[c] EXCEPT !.pc = "registered", !.echo = OneBot!EchoOf(c)]]
      BY <1>1, <2>1 DEF OneBot!Register
    <3>2. call[c].pc = "idle" /\ UNCHANGED <<queue, inbox, made, wire>>
      BY <2>1 DEF OneBot!Register, OneBot!socket, OneBot!napcat
    <3> QED
      BY <1>1, <2>1, <3>1, <3>2 DEF Call
  <2>2. CASE OneBot!Enqueue(c) \/ OneBot!EnqueueFails(c) \/ OneBot!Timeout(c)
    <3>1. PICK pc \in {"waiting", "error"} : call' = [call EXCEPT ![c] = [call[c] EXCEPT !.pc = pc]]
      BY <1>1, <2>2 DEF OneBot!Enqueue, OneBot!EnqueueFails, OneBot!Timeout
    <3>2. UNCHANGED <<inbox, made, wire>> /\ (OneBot!Enqueue(c) \/ UNCHANGED queue)
      BY <2>2
         DEF OneBot!Enqueue, OneBot!EnqueueFails, OneBot!Timeout, OneBot!socket,
             OneBot!napcat
    <3>3. call'[c] = [call[c] EXCEPT !.pc = pc] /\ \A d \in Requests \ {c} : call'[d] = call[d]
      BY <1>1, <3>1
    <3>4. call'[c].pc \in {"waiting", "error"} /\ call'[c].answer = call[c].answer
      BY <1>1, <3>3 DEF Call
    <3> QED
      BY <3>2, <3>3, <3>4
  <2>3. CASE OneBot!Return(c)
    <3>1. PICK u \in {[call[c] EXCEPT !.pc = "ok", !.names = {call[c].answer.of}], [call[c] EXCEPT !.pc = "error"]} :
             call' = [call EXCEPT ![c] = u]
      BY <1>1, <2>3 DEF OneBot!Return
    <3>2. UNCHANGED <<queue, inbox, made, wire>>
      BY <2>3 DEF OneBot!Return, OneBot!socket, OneBot!napcat
    <3>3. call'[c] = u /\ \A d \in Requests \ {c} : call'[d] = call[d]
      BY <1>1, <3>1
    <3>4. u.pc \in {"ok", "error"} /\ u.answer = call[c].answer
      BY <1>1, <3>1 DEF Call
    <3> QED
      BY <3>2, <3>3, <3>4
  <2> QED
    BY <2>1, <2>2, <2>3 DEF OneBot!CallerStep
<1>3. Served'
  BY <1>2 DEF Once, Served
<1>4. CASE UNCHANGED queue
  <2>1. \A d \in Requests : call'[d].pc \in {"idle", "registered"} => call[d].pc \in {"idle", "registered"}
    BY <1>2
  <2> QED
    BY <1>2, <1>3, <1>4, <2>1, NoneAdded DEF Once
<1>5. CASE OneBot!Enqueue(c)
  <2> DEFINE r == [echo |-> call[c].echo, call |-> c]
  <2>1. call[c].pc = "registered" /\ queue' = Append(queue, r) /\ call'[c].pc = "waiting"
    BY <1>1, <1>5 DEF OneBot!Enqueue, Call
  <2>2. r \in OneBot!Request /\ r.call = c
    BY <1>1 DEF OneBot!Request, Call
  <2>3. made[c] = 0 /\ ~Waiting(c)
    BY <2>1 DEF Once, Unserved
  <2> HIDE DEF r
  <2>4. /\ \A i \in DOMAIN queue' :
              \/ i \in DOMAIN queue /\ queue'[i] = queue[i]
              \/ i = Len(queue) + 1 /\ queue'[i] = r
    BY <2>1, <2>2, RequestsTyped, AppendParts
  <2>5. Apart'
    BY <1>2, <2>2, <2>3, <2>4 DEF Once, Apart, Waiting
  <2>6. Unserved'
    BY <1>2, <2>1, <2>2, <2>3, <2>4 DEF Once, Unserved, Waiting
  <2> QED
    BY <1>3, <2>5, <2>6 DEF Once
<1> QED
  BY <1>2, <1>4, <1>5

LEMMA SocketServed ==
    ASSUME OneBot!TypeInv, Echoes, InFlight, Once,
           \/ OneBot!Connect \/ OneBot!Transmit \/ OneBot!WriterEnds
           \/ OneBot!ReaderStep \/ OneBot!HandlerPanics \/ OneBot!ReaderEnds \/ OneBot!Discard
    PROVE  Once'
<1>1. CASE \/ OneBot!Connect \/ OneBot!WriterEnds \/ OneBot!HandlerPanics \/ OneBot!ReaderEnds \/ OneBot!Discard
           \/ OneBot!HandlerReturns
  <2>1. /\ UNCHANGED <<call, inbox, made>>
        /\ UNCHANGED queue \/ queue' = <<>>
        /\ UNCHANGED wire \/ wire' = <<>>
    BY <1>1
       DEF OneBot!Connect, OneBot!WriterEnds, OneBot!HandlerPanics, OneBot!ReaderEnds, OneBot!Discard,
           OneBot!HandlerReturns, OneBot!client, OneBot!napcat
  <2>2. Served'
    BY <2>1, NothingIn DEF Once, Served
  <2> QED
    BY <2>1, <2>2, NoneAdded DEF Once
<1>2. CASE OneBot!TakeEvent \/ OneBot!Dispatch
  <2>1. wire # <<>> /\ wire' = Tail(wire) /\ UNCHANGED <<inbox, made, queue>>
    BY <1>2 DEF OneBot!TakeEvent, OneBot!Dispatch, OneBot!socket
  <2>2. \A i \in DOMAIN wire' : i + 1 \in DOMAIN wire /\ wire'[i] = wire[i + 1]
    BY <2>1, RequestsTyped, TailParts
  <2>3. \A c \in Requests : /\ call'[c].pc = call[c].pc
                            /\ \/ call'[c].answer = call[c].answer
                               \/ call'[c].answer = Head(wire) /\ c = Head(wire).of /\ Head(wire).kind = "answer"
    <3>1. CASE UNCHANGED call
      BY <3>1
    <3>2. CASE OneBot!Dispatch /\ Head(wire).echo \in DOMAIN pending
      <4>1. pending[Head(wire).echo] = Head(wire).of
        BY <3>2, AnswersFind
      <4>2. call' = call \/ call' = [call EXCEPT ![Head(wire).of].answer = Head(wire)]
        BY <3>2, <4>1 DEF OneBot!Dispatch, OneBot!Deliver
      <4>3. call \in [Requests -> Call] /\ Head(wire).kind = "answer"
        BY <3>2 DEF OneBot!TypeInv, Call, OneBot!Dispatch
      <4> QED
        BY <4>2, <4>3 DEF Call
    <3> QED
      BY <1>2, <3>1, <3>2 DEF OneBot!TakeEvent, OneBot!Dispatch, OneBot!client
  <2>4. Head(wire) = wire[1] /\ 1 \in DOMAIN wire
    BY <2>1, RequestsTyped, TailParts
  <2>5. Served'
    BY <2>1, <2>2, <2>3, <2>4 DEF Once, Served
  <2> QED
    BY <2>1, <2>3, <2>5, NoneAdded DEF Once
<1>3. CASE OneBot!Transmit
  <2>1. /\ queue # <<>> /\ queue' = Tail(queue) /\ inbox' = inbox \cup {Head(queue)}
        /\ UNCHANGED <<call, made, wire>>
    BY <1>3 DEF OneBot!Transmit, OneBot!client
  <2>2. /\ \A i \in DOMAIN queue' : i \in Nat /\ i + 1 \in DOMAIN queue /\ i + 1 # 1 /\ queue'[i] = queue[i + 1]
        /\ Head(queue) = queue[1] /\ 1 \in DOMAIN queue
    BY <2>1, RequestsTyped, TailParts
  <2>3. Served'
    BY <2>1 DEF Once, Served
  <2>4. Apart'
    <3>1. \A i, j \in DOMAIN queue' : queue'[i].call = queue'[j].call => i = j
      <4>1. \A i, j \in DOMAIN queue' : queue'[i].call = queue'[j].call => i + 1 = j + 1
        BY <2>2 DEF Once, Apart
      <4> QED
        BY <2>2, <4>1
    <3>2. \A i \in DOMAIN queue' : \A r \in inbox' : queue'[i].call # r.call
      BY <2>1, <2>2 DEF Once, Apart
    <3> QED
      BY <3>1, <3>2 DEF Apart
  <2>5. \A c : Waiting(c)' => Waiting(c)
    BY <2>1, <2>2 DEF Waiting
  <2>6. Unserved'
    BY <2>1, <2>2, <2>5 DEF Once, Unserved
  <2> QED
    BY <2>3, <2>4, <2>6 DEF Once
<1> QED
  BY <1>1, <1>2, <1>3 DEF OneBot!ReaderStep

LEMMA NapCatServed ==
    ASSUME OneBot!TypeInv, Echoes, InFlight, Once,
           OneBot!Report \/ \E r \in inbox : OneBot!Serve(r) \/ OneBot!Refuse(r)
    PROVE  Once'
<1>1. CASE OneBot!Report
  <2>1. UNCHANGED <<call, queue, inbox, made>>
    BY <1>1 DEF OneBot!Report, OneBot!client, OneBot!socket
  <2>2. wire' = wire \/ wire' = Append(wire, OneBot!AnEvent)
    BY <1>1 DEF OneBot!Report, OneBot!Sent
  <2>3. OneBot!AnEvent \in Message /\ OneBot!AnEvent.kind # "answer"
    BY DEF OneBot!AnEvent, Message
  <2>4. Served'
    BY <2>1, <2>2, <2>3, RequestsTyped, AppendParts DEF Once, Served
  <2> QED
    BY <2>1, <2>4, NoneAdded DEF Once
<1>2. ASSUME NEW r \in inbox, OneBot!Serve(r) \/ OneBot!Refuse(r) PROVE Once'
  <2>1. /\ r \in OneBot!Request /\ r.call \in Requests /\ made[r.call] = 0
        /\ made \in [Requests -> Nat]
    BY DEF Once, Unserved, OneBot!TypeInv, OneBot!Request
  <2>2. UNCHANGED <<call, queue>> /\ inbox' = inbox \ {r}
    BY <1>2 DEF OneBot!Serve, OneBot!Refuse, OneBot!client, OneBot!socket
  <2>3. /\ \A d \in Requests \ {r.call} : made'[d] = made[d]
        /\ made'[r.call] = made[r.call] \/ (OneBot!Serve(r) /\ made'[r.call] = 1)
    <3>1. CASE OneBot!Refuse(r)
      BY <3>1 DEF OneBot!Refuse
    <3>2. CASE OneBot!Serve(r)
      <4>1. made' = [made EXCEPT ![r.call] = made[r.call] + 1]
        BY <3>2 DEF OneBot!Serve
      <4> QED
        BY <2>1, <3>2, <4>1
    <3> QED
      BY <1>2, <3>1, <3>2
  <2>4. \A s \in inbox' : s.call # r.call
    <3> SUFFICES ASSUME NEW s \in inbox, s.call = r.call PROVE s = r
      BY <2>2
    <3>1. Holds(call, s.call, s.echo) /\ Holds(call, r.call, r.echo)
      BY DEF InFlight
    <3>2. s \in OneBot!Request /\ s.echo = r.echo
      BY <3>1 DEF Holds, OneBot!TypeInv
    <3> QED
      BY <2>1, <3>2 DEF OneBot!Request
  <2>5. \A i \in DOMAIN queue : queue[i].call # r.call
    BY DEF Once, Apart
  <2>6. call[r.call].pc \notin {"idle", "registered"}
    BY <2>1 DEF Once, Unserved, Waiting
  <2>7. Apart'
    BY <2>2 DEF Once, Apart
  <2>8. Unserved'
    <3>1. \A d : Waiting(d)' => Waiting(d)
      BY <2>2 DEF Waiting
    <3> QED
      BY <2>2, <2>3, <2>4, <2>5, <2>6, <3>1, RequestsTyped DEF Once, Unserved
  <2>9. Served'
    <3>1. \A d \in Requests : made[d] = 1 => made'[d] = 1
      BY <2>1, <2>3
    <3>2. wire' = wire \/ \E m \in Message : wire' = Append(wire, m) /\ m.kind = "answer" /\ m.of = r.call
                                             /\ (m.ok => made'[r.call] = 1)
      <4>1. \A ok \in BOOLEAN : /\ OneBot!Answer(r, ok) \in Message /\ OneBot!Answer(r, ok).kind = "answer"
                                /\ OneBot!Answer(r, ok).of = r.call /\ OneBot!Answer(r, ok).ok = ok
        BY <2>1 DEF OneBot!Answer, Message, OneBot!AnswerType, OneBot!Request
      <4>2. \/ wire' = wire \/ wire' = Append(wire, OneBot!Answer(r, FALSE))
            \/ OneBot!Serve(r) /\ wire' = Append(wire, OneBot!Answer(r, TRUE))
        BY <1>2 DEF OneBot!Serve, OneBot!Refuse, OneBot!Sent
      <4>3. OneBot!Serve(r) => made'[r.call] = 1
        BY <2>1 DEF OneBot!Serve
      <4> HIDE DEF OneBot!Answer
      <4> QED
        BY <4>1, <4>2, <4>3
    <3>3. \A i \in DOMAIN wire' : wire'[i].kind = "answer" => (wire'[i].ok => made'[wire'[i].of] = 1)
      <4>1. CASE wire' = wire
        BY <3>1, <4>1, RequestsTyped DEF Once, Served
      <4>2. ASSUME NEW m \in Message, wire' = Append(wire, m), m.of = r.call, m.ok => made'[r.call] = 1
            PROVE  \A i \in DOMAIN wire' : wire'[i].kind = "answer" => (wire'[i].ok => made'[wire'[i].of] = 1)
        <5>1. \A i \in DOMAIN wire' : (i \in DOMAIN wire /\ wire'[i] = wire[i]) \/ wire'[i] = m
          BY <4>2, RequestsTyped, AppendParts
        <5>2. \A i \in DOMAIN wire : wire[i].kind = "answer" => wire[i].of \in Requests
                                     /\ (wire[i].ok => made[wire[i].of] = 1)
          BY RequestsTyped DEF Once, Served
        <5> QED
          BY <3>1, <4>2, <5>1, <5>2
      <4> QED
        BY <3>2, <4>1, <4>2
    <3>4. \A c \in Requests : call'[c].answer # OneBot!NoAnswer => (call'[c].answer.ok => made'[c] = 1)
      BY <2>2, <3>1 DEF Once, Served
    <3> QED
      BY <3>3, <3>4 DEF Served
  <2> QED
    BY <2>7, <2>8, <2>9 DEF Once
<1> QED
  BY <1>1, <1>2

LEMMA OnceStep ==
    ASSUME OneBot!TypeInv, Echoes, InFlight, Once, [OneBot!Next]_(OneBot!vars)
    PROVE  Once'
<1>1. CASE UNCHANGED OneBot!vars
  BY <1>1
     DEF OneBot!vars, OneBot!client, OneBot!socket, OneBot!napcat, Once, Unserved, Waiting,
         Apart, Served
<1> QED
  BY <1>1, CallersServed, SocketServed, NapCatServed DEF OneBot!Next

LEMMA OnceInvariant == ASSUME OneBot!OneBotAssumption PROVE OneBot!Spec => []Once
<1>1. OneBot!Init => Once
  BY NothingIn DEF OneBot!Init, Once, Unserved, Waiting, Apart, Served
<1> QED
  BY <1>1, OnceStep, SocketTyped, MatchInvariant, PTL DEF OneBot!Spec

----------------------------------------------------------------------------
(* Every step of the socket is a step of Calls or none.                    *)
LEMMA InitPromises == OneBot!Init => OneBot!Promise!CInit
BY DEF OneBot!Init, OneBot!Promise!CInit, OneBot!StatusOf, OneBot!Open

LEMMA NothingPromised ==
    ASSUME UNCHANGED made, \A c \in Requests : call'[c].pc = call[c].pc /\ call'[c].names = call[c].names
    PROVE  UNCHANGED OneBot!Promise!cvars
BY DEF OneBot!Promise!cvars, OneBot!StatusOf, OneBot!Open

LEMMA OneStatus ==
    ASSUME NEW c \in Requests, NEW s, NEW n, s = OneBot!StatusOf(c)', n = call'[c].names,
           \A d \in Requests \ {c} : call'[d] = call[d]
    PROVE  /\ [x \in Requests |-> OneBot!StatusOf(x)'] = [[x \in Requests |-> OneBot!StatusOf(x)] EXCEPT ![c] = s]
           /\ [x \in Requests |-> call'[x].names] = [[x \in Requests |-> call[x].names] EXCEPT ![c] = n]
BY DEF OneBot!StatusOf, OneBot!Open

LEMMA CallersPromise ==
    ASSUME OneBot!TypeInv, OneBot!AnswersMatch, Once, NEW c \in Requests,
           OneBot!Register(c) \/ OneBot!CallerStep(c)
    PROVE  OneBot!Promise!CNext \/ UNCHANGED OneBot!Promise!cvars
<1>1. call \in [Requests -> Call] /\ call[c] \in Call
  BY DEF OneBot!TypeInv, Call
<1>2. UNCHANGED made
  BY DEF OneBot!CallerStep, OneBot!Register, OneBot!Enqueue, OneBot!EnqueueFails,
         OneBot!Return, OneBot!Timeout, OneBot!napcat
<1>3. \A d \in Requests \ {c} : call'[d] = call[d]
  BY <1>1
     DEF OneBot!CallerStep, OneBot!Register, OneBot!Enqueue, OneBot!EnqueueFails,
         OneBot!Return, OneBot!Timeout
<1>4. CASE OneBot!Register(c)
  <2>1. call' = [call EXCEPT ![c] = [call[c] EXCEPT !.pc = "registered", !.echo = OneBot!EchoOf(c)]]
    BY <1>1, <1>4 DEF OneBot!Register
  <2>2. call[c].pc = "idle" /\ call'[c].pc = "registered" /\ call'[c].names = call[c].names
    BY <1>1, <1>4, <2>1 DEF OneBot!Register, Call
  <2>3. OneBot!StatusOf(c) = "idle" /\ OneBot!StatusOf(c)' = "open"
    BY <2>2 DEF OneBot!StatusOf, OneBot!Open
  <2>4. OneBot!Promise!Begin(c)
    BY <1>2, <1>3, <2>2, <2>3, OneStatus DEF OneBot!Promise!Begin
  <2> QED
    BY <2>4 DEF OneBot!Promise!CNext
<1>5. CASE OneBot!Enqueue(c)
  <2>1. /\ call' = [call EXCEPT ![c] = [call[c] EXCEPT !.pc = "waiting"]]
        /\ call[c].pc = "registered"
    BY <1>1, <1>5 DEF OneBot!Enqueue
  <2>2. call'[c].pc = "waiting" /\ call'[c].names = call[c].names
    BY <1>1, <2>1 DEF Call
  <2>3. OneBot!StatusOf(c) = "open" /\ OneBot!StatusOf(c)' = "open"
    BY <2>1, <2>2 DEF OneBot!StatusOf, OneBot!Open
  <2>4. UNCHANGED OneBot!Promise!cvars
    BY <1>2, <1>3, <2>2, <2>3, OneStatus DEF OneBot!Promise!cvars
  <2> QED
    BY <2>4
<1>6. ASSUME OneBot!Open(c), call' = [call EXCEPT ![c] = [call[c] EXCEPT !.pc = "error"]]
      PROVE  OneBot!Promise!CNext
  <2>1. call'[c].pc = "error" /\ call'[c].names = call[c].names
    BY <1>1, <1>6 DEF Call
  <2>2. OneBot!StatusOf(c) = "open" /\ OneBot!StatusOf(c)' = "error"
    BY <1>6, <2>1 DEF OneBot!StatusOf, OneBot!Open
  <2>3. OneBot!Promise!Fail(c)
    BY <1>2, <1>3, <2>1, <2>2, OneStatus DEF OneBot!Promise!Fail
  <2> QED
    BY <2>3 DEF OneBot!Promise!CNext
<1>7. CASE OneBot!EnqueueFails(c) \/ OneBot!Timeout(c)
  BY <1>1, <1>6, <1>7 DEF OneBot!EnqueueFails, OneBot!Timeout, OneBot!Open
<1>8. CASE OneBot!Return(c)
  <2>1. OneBot!Open(c) /\ call[c].answer # OneBot!NoAnswer
    BY <1>8 DEF OneBot!Return, OneBot!Open
  <2>2. CASE OneBot!Accepted(c)
    <3>1. call' = [call EXCEPT ![c] = [call[c] EXCEPT !.pc = "ok", !.names = {call[c].answer.of}]]
      BY <1>1, <1>8, <2>2 DEF OneBot!Return
    <3>2. call[c].answer.of = c
      BY <2>1 DEF OneBot!AnswersMatch, OneBot!OwnAnswer
    <3>3. call'[c].pc = "ok" /\ call'[c].names = {c}
      BY <1>1, <3>1, <3>2 DEF Call
    <3>4. OneBot!StatusOf(c) = "open" /\ OneBot!StatusOf(c)' = "ok"
      BY <2>1, <3>3 DEF OneBot!StatusOf, OneBot!Open
    <3>5. c \in Deletions \/ made[c] = 1
      BY <2>1, <2>2 DEF OneBot!Accepted, Once, Served
    <3>6. OneBot!Promise!Succeed(c)
      BY <1>2, <1>3, <3>3, <3>4, <3>5, OneStatus DEF OneBot!Promise!Succeed
    <3> QED
      BY <3>6 DEF OneBot!Promise!CNext
  <2>3. CASE ~OneBot!Accepted(c)
    <3>1. call' = [call EXCEPT ![c] = [call[c] EXCEPT !.pc = "error"]]
      BY <1>1, <1>8, <2>3 DEF OneBot!Return
    <3> QED
      BY <1>6, <2>1, <3>1
  <2> QED
    BY <2>2, <2>3
<1> QED
  BY <1>4, <1>5, <1>7, <1>8 DEF OneBot!CallerStep

LEMMA SocketPromises ==
    ASSUME OneBot!TypeInv,
           \/ OneBot!Connect \/ OneBot!Transmit \/ OneBot!WriterEnds
           \/ OneBot!ReaderStep \/ OneBot!HandlerPanics \/ OneBot!ReaderEnds \/ OneBot!Discard
    PROVE  UNCHANGED OneBot!Promise!cvars
<1>1. UNCHANGED made
  BY DEF OneBot!Connect, OneBot!Transmit, OneBot!WriterEnds, OneBot!ReaderStep,
         OneBot!Dispatch, OneBot!TakeEvent, OneBot!HandlerReturns, OneBot!HandlerPanics, OneBot!ReaderEnds,
         OneBot!Discard, OneBot!napcat
<1>2. call' = call \/ \E c : call' = [call EXCEPT ![c].answer = Head(wire)]
  BY DEF OneBot!Connect, OneBot!Transmit, OneBot!WriterEnds, OneBot!ReaderStep,
         OneBot!Dispatch, OneBot!Deliver, OneBot!TakeEvent, OneBot!HandlerReturns,
         OneBot!HandlerPanics, OneBot!ReaderEnds, OneBot!Discard, OneBot!client
<1>3. \A c \in Requests : call'[c].pc = call[c].pc /\ call'[c].names = call[c].names
  <2>1. call \in [Requests -> Call]
    BY DEF OneBot!TypeInv, Call
  <2>2. ASSUME NEW d, call' = [call EXCEPT ![d].answer = Head(wire)], NEW c \in Requests
        PROVE  call'[c].pc = call[c].pc /\ call'[c].names = call[c].names
    BY <2>1, <2>2 DEF Call
  <2> QED
    BY <1>2, <2>2
<1> QED
  BY <1>1, <1>3, NothingPromised

LEMMA NapCatPromises ==
    ASSUME OneBot!TypeInv, Once,
           OneBot!Report \/ \E r \in inbox : OneBot!Serve(r) \/ OneBot!Refuse(r)
    PROVE  OneBot!Promise!CNext \/ UNCHANGED OneBot!Promise!cvars
<1>1. UNCHANGED call
  BY DEF OneBot!Report, OneBot!Serve, OneBot!Refuse, OneBot!client
<1>2. CASE UNCHANGED made
  BY <1>1, <1>2, NothingPromised
<1>3. ASSUME NEW r \in inbox, OneBot!Serve(r) PROVE OneBot!Promise!CNext
  <2>1. r.call \in Requests /\ made[r.call] = 0 /\ call[r.call].pc # "idle"
    BY RequestsTyped DEF Once, Unserved, Waiting
  <2>2. made' = [made EXCEPT ![r.call] = 1]
    BY <1>3, <2>1 DEF OneBot!Serve
  <2>3. OneBot!StatusOf(r.call) # "idle"
    BY <2>1 DEF OneBot!StatusOf, OneBot!Open
  <2>4. OneBot!Promise!Effect(r.call)
    BY <1>1, <2>1, <2>2, <2>3 DEF OneBot!Promise!Effect, OneBot!StatusOf, OneBot!Open
  <2> QED
    BY <2>1, <2>4 DEF OneBot!Promise!CNext
<1> QED
  BY <1>2, <1>3 DEF OneBot!Report, OneBot!Refuse

LEMMA StepPromises ==
    OneBot!TypeInv /\ OneBot!AnswersMatch /\ Once /\ [OneBot!Next]_(OneBot!vars)
    => [OneBot!Promise!CNext]_(OneBot!Promise!cvars)
<1> SUFFICES ASSUME OneBot!TypeInv, OneBot!AnswersMatch, Once, [OneBot!Next]_(OneBot!vars)
             PROVE  OneBot!Promise!CNext \/ UNCHANGED OneBot!Promise!cvars
  OBVIOUS
<1>1. CASE UNCHANGED OneBot!vars
  BY <1>1, NothingPromised DEF OneBot!vars, OneBot!client, OneBot!napcat
<1> QED
  BY <1>1, CallersPromise, SocketPromises, NapCatPromises DEF OneBot!Next

LEMMA SocketKeeps == ASSUME OneBot!OneBotAssumption PROVE OneBot!Spec => OneBot!KeepsPromise
<1>1. OneBot!Init => OneBot!Promise!CInit
  BY InitPromises
<1>2. OneBot!TypeInv /\ OneBot!AnswersMatch /\ Once /\ [OneBot!Next]_(OneBot!vars)
      => [OneBot!Promise!CNext]_(OneBot!Promise!cvars)
  BY StepPromises
<1> QED
  BY <1>1, <1>2, SocketTyped, SocketAnswers, OnceInvariant, PTL
     DEF OneBot!Spec, OneBot!KeepsPromise, OneBot!Promise!CSpec

----------------------------------------------------------------------------
(***************************************************************************)
(* Sending to Matrix.  An answer that waits for a caller names the event   *)
(* that caller's request created, or one of an earlier run of the process: *)
(* within a run no two requests have the same number, and a number the     *)
(* counter has yet to hand out is known to the homeserver from earlier     *)
(* runs alone.  And the events of a send are those of its parts so far,    *)
(* one each, so that a send that fails at its first part leaves one.       *)
(***************************************************************************)
SendCall == [pc : {"idle", "upload", "number", "put", "answer"}, send : Nat, part : Nat, parts : Nat,
             txn : Nat, first : Nat]
SendEvent == [id : Nat \ {0}, send : Nat, part : Nat \ {0}, run : Nat]
SendAnswer == [txn : Nat, id : Nat \ {0}]
SendReturn == [send : Nat, id : Nat, run : Nat]

Old(id, evs, run) == \E e \in evs : e.id = id /\ e.run < run
Mine(id, send, part, evs, run) ==
    \E e \in evs : e.id = id /\ ((e.send = send /\ e.part = part) \/ e.run < run)

Numbered(u) == u.pc \in {"put", "answer"}

OfCall(u, cnt, ans, evs, rets, parts, run) ==
    u.pc # "idle" =>
        /\ u.send <= parts /\ u.part >= 1
        /\ \A r \in rets : r.send # u.send
        /\ \A e \in evs : e.send = u.send => e.part < u.part \/ (e.part = u.part /\ u.pc = "answer")
        /\ u.part > 1 => u.first # 0 /\ Mine(u.first, u.send, 1, evs, run)
        /\ Numbered(u) => u.txn < cnt
        /\ u.pc = "put" => \A a \in ans : a.txn = u.txn => Old(a.id, evs, run)
        /\ u.pc = "answer" => /\ \E a \in ans : a.txn = u.txn
                              /\ \A a \in ans : a.txn = u.txn => Mine(a.id, u.send, u.part, evs, run)

OfEvents(cnt, ans, evs, rets, parts, run) ==
    /\ \A e \in evs : e.send <= parts /\ e.run <= run
    /\ \A e, f \in evs : e.send = f.send /\ e.part = f.part => e = f
    /\ \A a \in ans : \E e \in evs : e.id = a.id
    /\ \A a \in ans : a.txn >= cnt => Old(a.id, evs, run)
    /\ \A r \in rets : r.send <= parts
    /\ \A r \in rets : r.id # 0 => Mine(r.id, r.send, 1, evs, r.run)
    /\ \A r \in rets : r.id = 0 => \A e \in evs : e.send = r.send => e.part = 1

Distinct(u, v) ==
    /\ u.pc # "idle" /\ v.pc # "idle" => u.send # v.send
    /\ Numbered(u) /\ Numbered(v) => u.txn # v.txn

SendTypes ==
    /\ txns \in Nat /\ spent \in [Transactions!Bounds -> Nat]
    /\ sends \in [Callers -> SendCall]
    /\ IsFiniteSet(event) /\ event \subseteq SendEvent
    /\ answered \subseteq SendAnswer /\ returned \subseteq SendReturn

SendInv ==
    /\ SendTypes
    /\ \A c \in Callers : OfCall(sends[c], txns, answered, event, returned, spent["parts"], spent["restarts"])
    /\ \A c, d \in Callers : c # d => Distinct(sends[c], sends[d])
    /\ OfEvents(txns, answered, event, returned, spent["parts"], spent["restarts"])

(* What a caller relies on stays as others come by other numbers, make     *)
(* events of other sends and return other sends.                           *)
LEMMA CallStays ==
    ASSUME NEW u \in SendCall, NEW cnt \in Nat, NEW ans, NEW evs, NEW rets, NEW parts \in Nat, NEW run,
           NEW cnt2 \in Nat, NEW ans2, NEW evs2, NEW rets2, NEW parts2 \in Nat,
           OfCall(u, cnt, ans, evs, rets, parts, run), cnt <= cnt2, parts <= parts2,
           ans \subseteq ans2, \A a \in ans2 : a \in ans \/ ~Numbered(u) \/ a.txn # u.txn,
           evs \subseteq evs2, \A e \in evs2 : e \in evs \/ u.pc = "idle" \/ e.send # u.send,
           \A r \in rets2 : r \in rets \/ u.pc = "idle" \/ r.send # u.send
    PROVE  OfCall(u, cnt2, ans2, evs2, rets2, parts2, run)
<1> SUFFICES ASSUME u.pc # "idle" PROVE OfCall(u, cnt2, ans2, evs2, rets2, parts2, run)
  BY DEF OfCall
<1>1. u.send \in Nat /\ u.txn \in Nat
  BY DEF SendCall
<1>2. u.send <= parts2 /\ u.part >= 1 /\ (Numbered(u) => u.txn < cnt2)
  BY <1>1 DEF OfCall
<1>3. /\ \A r \in rets2 : r.send # u.send
      /\ \A e \in evs2 : e.send = u.send => e.part < u.part \/ (e.part = u.part /\ u.pc = "answer")
  BY DEF OfCall
<1>4. u.part > 1 => u.first # 0 /\ Mine(u.first, u.send, 1, evs2, run)
  BY DEF OfCall, Mine
<1>5. u.pc = "put" => \A a \in ans2 : a.txn = u.txn => Old(a.id, evs2, run)
  BY DEF OfCall, Old, Numbered
<1>6. u.pc = "answer" => /\ \E a \in ans2 : a.txn = u.txn
                         /\ \A a \in ans2 : a.txn = u.txn => Mine(a.id, u.send, u.part, evs2, run)
  BY DEF OfCall, Mine, Numbered
<1> QED
  BY <1>2, <1>3, <1>4, <1>5, <1>6 DEF OfCall

LEMMA Counts ==
    ASSUME SendTypes
    PROVE  txns \in Nat /\ spent["parts"] \in Nat /\ spent["restarts"] \in Nat
BY DEF SendTypes, Transactions!Bounds

(* A step of one caller: enough that its own call, and the shared state,   *)
(* are right and no other's number, send or return is touched.             *)
LEMMA CallerSteps ==
    ASSUME SendInv, SendTypes', NEW c \in Callers, NEW u \in SendCall,
           sends' = [sends EXCEPT ![c] = u],
           txns <= txns', spent["parts"] <= spent'["parts"], spent'["restarts"] = spent["restarts"],
           answered \subseteq answered', event \subseteq event',
           \A d \in Callers : d # c =>
              /\ Distinct(u, sends[d]) /\ Distinct(sends[d], u)
              /\ \A a \in answered' : a \in answered \/ ~Numbered(sends[d]) \/ a.txn # sends[d].txn
              /\ \A e \in event' : e \in event \/ sends[d].pc = "idle" \/ e.send # sends[d].send
              /\ \A r \in returned' : r \in returned \/ sends[d].pc = "idle" \/ r.send # sends[d].send,
           OfCall(u, txns', answered', event', returned', spent'["parts"], spent["restarts"]),
           OfEvents(txns', answered', event', returned', spent'["parts"], spent["restarts"])
    PROVE  SendInv'
<1>1. sends'[c] = u /\ \A d \in Callers : d # c => sends'[d] = sends[d]
  BY DEF SendInv, SendTypes
<1>2. ASSUME NEW d \in Callers, d # c
      PROVE  OfCall(sends[d], txns', answered', event', returned', spent'["parts"], spent["restarts"])
  <2>1. /\ sends[d] \in SendCall
        /\ OfCall(sends[d], txns, answered, event, returned, spent["parts"], spent["restarts"])
    BY DEF SendInv, SendTypes
  <2>2. /\ txns \in Nat /\ spent["parts"] \in Nat /\ txns' \in Nat /\ spent'["parts"] \in Nat
    BY DEF SendInv, SendTypes, Transactions!Bounds
  <2> QED
    BY <1>2, <2>1, <2>2, CallStays
<1>3. \A d \in Callers : OfCall(sends'[d], txns', answered', event', returned', spent'["parts"], spent'["restarts"])
  BY <1>1, <1>2
<1>4. ASSUME NEW d1 \in Callers, NEW d2 \in Callers, d1 # d2 PROVE Distinct(sends'[d1], sends'[d2])
  <2>1. Distinct(sends[d1], sends[d2])
    BY <1>4 DEF SendInv
  <2> QED
    BY <2>1, <1>1, <1>4
<1>5. OfEvents(txns', answered', event', returned', spent'["parts"], spent'["restarts"])
  OBVIOUS
<1> QED
  BY <1>3, <1>4, <1>5 DEF SendInv

LEMMA SendStep ==
    ASSUME Transactions!MatrixSendAssumption, SendInv, NEW c \in Callers, NEW n \in Images,
           Transactions!Send(c, n)
    PROVE  SendInv'
<1>1. PICK next, k : next = spent["parts"] + 1 /\ k = Transactions!Parts(n)
  OBVIOUS
<1>2. PICK u : u = [Transactions!Idle EXCEPT !.pc = IF n = 0 THEN "number" ELSE "upload",
                                             !.send = next, !.part = 1, !.parts = k]
  OBVIOUS
<1>3. k \in Nat /\ k >= 1
  BY <1>1 DEF Transactions!Parts, Transactions!MatrixSendAssumption
<1>4. /\ sends[c].pc = "idle" /\ sends' = [sends EXCEPT ![c] = u]
      /\ spent' = [spent EXCEPT !["parts"] = spent["parts"] + k]
      /\ UNCHANGED <<txns, answered, event, returned>>
  BY <1>1, <1>2 DEF Transactions!Send, Transactions!SpendMany, Transactions!At
<1>5. spent["parts"] \in Nat /\ spent["restarts"] \in Nat /\ txns \in Nat
  BY Counts DEF SendInv
<1>6. /\ u \in SendCall /\ u.pc \in {"upload", "number"} /\ u.send = spent["parts"] + 1 /\ u.part = 1
  <2>1. next \in Nat
    BY <1>1, <1>5
  <2> QED
    BY <2>1, <1>1, <1>2, <1>3 DEF Transactions!Idle, Transactions!None, SendCall
<1>7. /\ spent' \in [Transactions!Bounds -> Nat] /\ spent'["parts"] = spent["parts"] + k
      /\ spent'["restarts"] = spent["restarts"]
  BY <1>3, <1>4, <1>5 DEF SendInv, SendTypes, Transactions!Bounds
<1>8. SendTypes'
  BY <1>4, <1>6, <1>7 DEF SendInv, SendTypes
<1>9. OfCall(u, txns, answered, event, returned, spent'["parts"], spent["restarts"])
  <2>1. u.send <= spent'["parts"] /\ u.part >= 1 /\ ~(u.part > 1)
    BY <1>3, <1>5, <1>6, <1>7
  <2>2. ASSUME NEW r \in returned PROVE r.send # u.send
    <3>1. r.send \in Nat /\ r.send <= spent["parts"]
      BY DEF SendInv, SendTypes, SendReturn, OfEvents
    <3> QED
      BY <3>1, <1>5, <1>6
  <2>3. ASSUME NEW e \in event PROVE e.send # u.send
    <3>1. e.send \in Nat /\ e.send <= spent["parts"]
      BY DEF SendInv, SendTypes, SendEvent, OfEvents
    <3> QED
      BY <3>1, <1>5, <1>6
  <2> QED
    BY <2>1, <2>2, <2>3, <1>6 DEF OfCall, Numbered
<1>10. ASSUME NEW d \in Callers PROVE Distinct(u, sends[d]) /\ Distinct(sends[d], u)
  <2>1. sends[d].pc # "idle" => sends[d].send \in Nat /\ sends[d].send <= spent["parts"]
    BY DEF SendInv, SendTypes, SendCall, OfCall
  <2> QED
    BY <2>1, <1>5, <1>6 DEF Distinct, Numbered
<1>11. OfEvents(txns, answered, event, returned, spent'["parts"], spent["restarts"])
  <2>1. \A e \in event : e.send \in Nat
    BY DEF SendInv, SendTypes, SendEvent
  <2>2. \A r \in returned : r.send \in Nat
    BY DEF SendInv, SendTypes, SendReturn
  <2>3. OfEvents(txns, answered, event, returned, spent["parts"], spent["restarts"])
    BY DEF SendInv
  <2> QED
    BY <2>1, <2>2, <2>3, <1>3, <1>5, <1>7 DEF OfEvents
<1>12. spent["parts"] <= spent'["parts"] /\ txns <= txns'
  BY <1>3, <1>4, <1>5, <1>7
<1> QED
  BY <1>4, <1>6, <1>7, <1>8, <1>9, <1>10, <1>11, <1>12, CallerSteps

LEMMA NumberStep ==
    ASSUME SendInv, NEW c \in Callers, Transactions!Number(c)
    PROVE  SendInv'
<1>1. PICK u : u = [sends[c] EXCEPT !.pc = "put", !.txn = txns]
  OBVIOUS
<1>2. /\ sends[c].pc \in {"upload", "number"} /\ sends' = [sends EXCEPT ![c] = u] /\ txns' = txns + 1
      /\ UNCHANGED <<answered, event, returned, spent>>
  BY <1>1 DEF Transactions!Number, Transactions!Numbering, SendInv, SendTypes
<1>3. spent["parts"] \in Nat /\ spent["restarts"] \in Nat /\ txns \in Nat /\ sends[c] \in SendCall
  BY Counts DEF SendInv, SendTypes
<1>4. /\ u \in SendCall /\ u.pc = "put" /\ u.txn = txns /\ u.send = sends[c].send /\ u.part = sends[c].part
      /\ u.first = sends[c].first
  BY <1>1, <1>3 DEF SendCall
<1>5. SendTypes'
  BY <1>2, <1>3, <1>4 DEF SendInv, SendTypes
<1>6. OfCall(sends[c], txns, answered, event, returned, spent["parts"], spent["restarts"])
      /\ OfEvents(txns, answered, event, returned, spent["parts"], spent["restarts"])
  BY DEF SendInv
<1>7. \A a \in answered : a.txn \in Nat
  BY DEF SendInv, SendTypes, SendAnswer
<1>8. OfCall(u, txns + 1, answered, event, returned, spent["parts"], spent["restarts"])
  <2>1. \A a \in answered : a.txn = u.txn => Old(a.id, event, spent["restarts"])
    BY <1>3, <1>4, <1>6, <1>7 DEF OfEvents
  <2>2. u.txn < txns + 1
    BY <1>3, <1>4
  <2> QED
    BY <2>1, <2>2, <1>2, <1>4, <1>6 DEF OfCall
<1>9. OfEvents(txns + 1, answered, event, returned, spent["parts"], spent["restarts"])
  <2>1. \A a \in answered : a.txn >= txns + 1 => a.txn >= txns
    BY <1>3, <1>7
  <2> QED
    BY <2>1, <1>6 DEF OfEvents
<1>10. ASSUME NEW d \in Callers, d # c PROVE Distinct(u, sends[d]) /\ Distinct(sends[d], u)
  <2>1. Numbered(sends[d]) => sends[d].txn \in Nat /\ sends[d].txn < txns
    BY DEF SendInv, SendTypes, SendCall, OfCall, Numbered
  <2>2. Distinct(sends[c], sends[d]) /\ Distinct(sends[d], sends[c])
    BY <1>10 DEF SendInv
  <2> QED
    BY <2>1, <2>2, <1>2, <1>3, <1>4 DEF Distinct
<1>11. spent["parts"] <= spent'["parts"] /\ txns <= txns'
  BY <1>2, <1>3
<1> QED
  BY <1>2, <1>4, <1>5, <1>8, <1>9, <1>10, <1>11, CallerSteps

LEMMA PutStep ==
    ASSUME SendInv, NEW c \in Callers, Transactions!Put(c)
    PROVE  SendInv'
<1>1. PICK old \in SendCall : old = sends[c]
  BY DEF SendInv, SendTypes
<1>2. PICK u : u = [old EXCEPT !.pc = "answer"]
  OBVIOUS
<1>3. /\ old.pc = "put" /\ sends' = [sends EXCEPT ![c] = u] /\ UNCHANGED <<txns, returned, spent>>
  BY <1>1, <1>2 DEF Transactions!Put, Transactions!At, Transactions!Goto, SendInv, SendTypes
<1>4. spent["parts"] \in Nat /\ spent["restarts"] \in Nat /\ txns \in Nat
  BY Counts DEF SendInv
<1>5. /\ u \in SendCall /\ u.pc = "answer" /\ u.txn = old.txn /\ u.send = old.send /\ u.part = old.part
      /\ u.first = old.first
  BY <1>2 DEF SendCall
<1>6. /\ OfCall(old, txns, answered, event, returned, spent["parts"], spent["restarts"])
      /\ OfEvents(txns, answered, event, returned, spent["parts"], spent["restarts"])
  BY <1>1 DEF SendInv
<1>7. ASSUME NEW d \in Callers, d # c
      PROVE  /\ Distinct(u, sends[d]) /\ Distinct(sends[d], u)
             /\ Numbered(sends[d]) => sends[d].txn # old.txn
             /\ sends[d].pc # "idle" => sends[d].send # old.send
  <2>1. Distinct(old, sends[d]) /\ Distinct(sends[d], old)
    BY <1>1, <1>7 DEF SendInv
  <2> QED
    BY <2>1, <1>3, <1>5 DEF Distinct, Numbered
<1>8. spent["parts"] <= spent'["parts"] /\ txns <= txns'
  BY <1>3, <1>4
<1>9. CASE Transactions!Seen(old.txn)
  <2>1. UNCHANGED <<answered, event>>
    BY <1>1, <1>9 DEF Transactions!Put
  <2>2. SendTypes'
    BY <2>1, <1>3, <1>5 DEF SendInv, SendTypes
  <2>3. /\ \E a \in answered : a.txn = u.txn
        /\ \A a \in answered : a.txn = u.txn => Mine(a.id, u.send, u.part, event, spent["restarts"])
    BY <1>3, <1>5, <1>6, <1>9 DEF OfCall, Old, Mine, Transactions!Seen
  <2>4. OfCall(u, txns, answered, event, returned, spent["parts"], spent["restarts"])
    BY <2>3, <1>3, <1>5, <1>6 DEF OfCall, Numbered
  <2> QED
    BY <2>1, <2>2, <2>4, <1>3, <1>5, <1>6, <1>7, <1>8, CallerSteps
<1>10. CASE ~Transactions!Seen(old.txn)
  <2>1. PICK new : new = Transactions!Cardinality(event) + 1
    OBVIOUS
  <2>2. new \in Nat \ {0}
    <3>1. Transactions!Cardinality(event) = Cardinality(event)
      BY DEF Transactions!Cardinality, Cardinality
    <3>2. Cardinality(event) \in Nat
      BY FS_CardinalityType DEF SendInv, SendTypes
    <3> QED
      BY <3>1, <3>2, <2>1
  <2>3. PICK x, a : /\ x = [id |-> new, send |-> old.send, part |-> old.part, run |-> spent["restarts"]]
                    /\ a = [txn |-> old.txn, id |-> new]
    OBVIOUS
  <2>4. answered' = answered \cup {a} /\ event' = event \cup {x}
    BY <1>1, <1>10, <2>1, <2>3 DEF Transactions!Put
  <2>5. /\ old.send <= spent["parts"] /\ old.part >= 1 /\ old.txn < txns
        /\ \A r \in returned : r.send # old.send
        /\ \A e \in event : e.send = old.send => e.part < old.part
    BY <1>3, <1>6 DEF OfCall, Numbered
  <2>6. /\ x \in SendEvent /\ x.id = new /\ x.send = old.send /\ x.part = old.part /\ x.run = spent["restarts"]
        /\ a \in SendAnswer /\ a.txn = old.txn /\ a.id = new
    BY <2>2, <2>3, <2>5, <1>4 DEF SendEvent, SendAnswer, SendCall
  <2>7. SendTypes'
    <3>1. IsFiniteSet(event')
      BY <2>4, FS_AddElement DEF SendInv, SendTypes
    <3> QED
      BY <3>1, <2>4, <2>6, <1>3, <1>5 DEF SendInv, SendTypes
  <2>8. \A e \in event : e.part \in Nat /\ e.send \in Nat /\ e.run \in Nat
    BY DEF SendInv, SendTypes, SendEvent
  <2>9. OfCall(u, txns, answered', event', returned, spent["parts"], spent["restarts"])
    <3>1. \A e \in event' : e.send = u.send => e.part < u.part \/ (e.part = u.part /\ u.pc = "answer")
      <4>1. \A e \in event : e.send = u.send => e.part < u.part
        BY <2>5, <1>5
      <4>2. x.part = u.part
        BY <2>6, <1>5
      <4> QED
        BY <4>1, <4>2, <2>4, <1>5
    <3>2. u.part > 1 => u.first # 0 /\ Mine(u.first, u.send, 1, event', spent["restarts"])
      BY <2>4, <1>3, <1>5, <1>6 DEF OfCall, Mine
    <3>3. \E b \in answered' : b.txn = u.txn
      BY <2>4, <2>6, <1>5
    <3>4. \A b \in answered' : b.txn = u.txn => Mine(b.id, u.send, u.part, event', spent["restarts"])
      BY <2>4, <2>6, <1>5, <1>10 DEF Mine, Transactions!Seen
    <3> QED
      BY <3>1, <3>2, <3>3, <3>4, <2>5, <1>5 DEF OfCall, Numbered
  <2>10. OfEvents(txns, answered', event', returned, spent["parts"], spent["restarts"])
    <3>1. \A e \in event' : e.send <= spent["parts"] /\ e.run <= spent["restarts"]
      BY <2>4, <2>5, <2>6, <1>4, <1>6 DEF OfEvents
    <3>2. \A e, f \in event' : e.send = f.send /\ e.part = f.part => e = f
      <4> SUFFICES ASSUME NEW e \in event', NEW f \in event', e.send = f.send, e.part = f.part PROVE e = f
        OBVIOUS
      <4>1. old.part \in Nat
        BY DEF SendCall
      <4>2. CASE e \in event /\ f \in event
        BY <4>2, <1>6 DEF OfEvents
      <4>3. \A g \in event : ~(g.send = x.send /\ g.part = x.part)
        BY <4>1, <2>5, <2>6, <2>8
      <4> QED
        BY <4>2, <4>3, <2>4
    <3>3. \A b \in answered' : \E e \in event' : e.id = b.id
      BY <2>4, <2>6, <1>6 DEF OfEvents
    <3>4. \A b \in answered' : b.txn >= txns => Old(b.id, event', spent["restarts"])
      <4>1. ~(a.txn >= txns)
        BY <2>5, <2>6, <1>4 DEF SendAnswer
      <4> QED
        BY <4>1, <2>4, <1>6 DEF OfEvents, Old
    <3>5. \A r \in returned : r.send <= spent["parts"]
      BY <1>6 DEF OfEvents
    <3>6. \A r \in returned : r.id # 0 => Mine(r.id, r.send, 1, event', r.run)
      BY <2>4, <1>6 DEF OfEvents, Mine
    <3>7. \A r \in returned : r.id = 0 => \A e \in event' : e.send = r.send => e.part = 1
      BY <2>4, <2>5, <2>6, <1>6 DEF OfEvents
    <3> QED
      BY <3>1, <3>2, <3>3, <3>4, <3>5, <3>6, <3>7 DEF OfEvents
  <2>11. ASSUME NEW d \in Callers, d # c
         PROVE  /\ \A b \in answered' : b \in answered \/ ~Numbered(sends[d]) \/ b.txn # sends[d].txn
                /\ \A e \in event' : e \in event \/ sends[d].pc = "idle" \/ e.send # sends[d].send
    BY <2>4, <2>6, <2>11, <1>7
  <2>12. answered \subseteq answered' /\ event \subseteq event'
    BY <2>4
  <2> QED
    BY <2>7, <2>9, <2>10, <2>11, <2>12, <1>3, <1>5, <1>7, <1>8, CallerSteps
<1> QED
  BY <1>9, <1>10

(* The id of the first part, as the end of a part hands it on: none if the *)
(* first part itself failed.                                               *)
LEMMA GiveStep ==
    ASSUME SendInv, NEW c \in Callers, sends[c].pc # "idle", NEW id \in Nat, Transactions!Give(c, id),
           \/ id = 0 /\ sends[c].part = 1
           \/ id # 0 /\ Mine(id, sends[c].send, 1, event, spent["restarts"]),
           UNCHANGED <<txns, answered, event>>, spent' \in [Transactions!Bounds -> Nat],
           spent'["parts"] = spent["parts"], spent'["restarts"] = spent["restarts"]
    PROVE  SendInv'
<1>1. PICK old \in SendCall : old = sends[c]
  BY DEF SendInv, SendTypes
<1>2. PICK r : r = [send |-> old.send, id |-> id, run |-> spent["restarts"]]
  OBVIOUS
<1>3. returned' = returned \cup {r} /\ sends' = [sends EXCEPT ![c] = Transactions!Idle]
  BY <1>1, <1>2 DEF Transactions!Give
<1>4. spent["parts"] \in Nat /\ spent["restarts"] \in Nat /\ txns \in Nat
  BY Counts DEF SendInv
<1>5. Transactions!Idle \in SendCall /\ Transactions!Idle.pc = "idle"
  BY DEF Transactions!Idle, Transactions!None, SendCall
<1>6. r \in SendReturn /\ r.send = old.send /\ r.id = id /\ r.run = spent["restarts"]
  BY <1>2, <1>4 DEF SendReturn, SendCall
<1>7. SendTypes'
  BY <1>3, <1>5, <1>6 DEF SendInv, SendTypes
<1>8. /\ OfCall(old, txns, answered, event, returned, spent["parts"], spent["restarts"])
      /\ OfEvents(txns, answered, event, returned, spent["parts"], spent["restarts"])
  BY <1>1 DEF SendInv
<1>9. OfEvents(txns, answered, event, returned', spent["parts"], spent["restarts"])
  <2>1. r.send <= spent["parts"]
    BY <1>1, <1>6, <1>8 DEF OfCall
  <2>2. r.id # 0 => Mine(r.id, r.send, 1, event, r.run)
    BY <1>1, <1>6
  <2>3. ASSUME r.id = 0, NEW e \in event, e.send = r.send PROVE e.part = 1
    <3>1. old.part = 1
      BY <1>1, <1>6, <2>3
    <3>2. e.part < old.part \/ e.part = old.part
      BY <1>1, <1>6, <1>8, <2>3 DEF OfCall
    <3>3. e.part \in Nat \ {0}
      BY DEF SendInv, SendTypes, SendEvent
    <3> QED
      BY <3>1, <3>2, <3>3
  <2> QED
    BY <2>1, <2>2, <2>3, <1>3, <1>8 DEF OfEvents
<1>10. ASSUME NEW d \in Callers, d # c
       PROVE  /\ Distinct(Transactions!Idle, sends[d]) /\ Distinct(sends[d], Transactions!Idle)
              /\ sends[d].pc = "idle" \/ r.send # sends[d].send
  <2>1. Distinct(sends[c], sends[d])
    BY <1>10 DEF SendInv
  <2> QED
    BY <2>1, <1>1, <1>5, <1>6 DEF Distinct, Numbered
<1>11. OfCall(Transactions!Idle, txns, answered, event, returned', spent["parts"], spent["restarts"])
  BY <1>5 DEF OfCall
<1>12. spent["parts"] <= spent'["parts"] /\ txns <= txns'
  BY <1>4
<1>13. ASSUME NEW d \in Callers, d # c
       PROVE  \A q \in returned' : q \in returned \/ sends[d].pc = "idle" \/ q.send # sends[d].send
  BY <1>3, <1>10, <1>13
<1>14. answered' = answered /\ event' = event /\ txns' = txns
  OBVIOUS
<1> QED
  BY <1>3, <1>5, <1>7, <1>9, <1>10, <1>11, <1>12, <1>13, <1>14, CallerSteps

LEMMA ContinueStep ==
    ASSUME SendInv, NEW c \in Callers, sends[c].pc # "idle", NEW id \in Nat, id # 0,
           Mine(id, sends[c].send, 1, event, spent["restarts"]),
           sends' = [sends EXCEPT ![c].pc = "upload", ![c].part = @ + 1, ![c].txn = Transactions!None,
                                ![c].first = id],
           UNCHANGED <<txns, answered, event, returned>>, spent' \in [Transactions!Bounds -> Nat],
           spent'["parts"] = spent["parts"], spent'["restarts"] = spent["restarts"]
    PROVE  SendInv'
<1>1. PICK old \in SendCall : old = sends[c]
  BY DEF SendInv, SendTypes
<1>2. PICK next, u : /\ next \in Nat /\ next = old.part + 1
                     /\ u = [old EXCEPT !.pc = "upload", !.part = next, !.txn = Transactions!None,
                                        !.first = id]
  <2>1. old.part + 1 \in Nat
    BY DEF SendCall
  <2> QED
    BY <2>1
<1>3. sends' = [sends EXCEPT ![c] = u]
  BY <1>1, <1>2 DEF SendInv, SendTypes
<1>4. spent["parts"] \in Nat /\ spent["restarts"] \in Nat /\ txns \in Nat /\ old.part \in Nat
  BY Counts DEF SendInv, SendCall
<1>5. /\ u \in SendCall /\ u.pc = "upload" /\ u.send = old.send /\ u.part = old.part + 1
      /\ u.first = id
  BY <1>2, <1>4 DEF SendCall, Transactions!None
<1>6. SendTypes'
  <2>1. sends' \in [Callers -> SendCall]
    BY <1>3, <1>5 DEF SendInv, SendTypes
  <2>2. txns' = txns /\ answered' = answered /\ event' = event /\ returned' = returned
    OBVIOUS
  <2> QED
    BY <2>1, <2>2 DEF SendInv, SendTypes
<1>7. /\ OfCall(old, txns, answered, event, returned, spent["parts"], spent["restarts"])
      /\ OfEvents(txns, answered, event, returned, spent["parts"], spent["restarts"])
  BY <1>1 DEF SendInv
<1>8. OfCall(u, txns, answered, event, returned, spent["parts"], spent["restarts"])
  <2>1. ASSUME NEW e \in event, e.send = u.send PROVE e.part < u.part
    <3>1. e.part \in Nat /\ (e.part < old.part \/ e.part = old.part)
      BY <1>1, <1>5, <1>7, <2>1 DEF OfCall, SendInv, SendTypes, SendEvent
    <3> QED
      BY <3>1, <1>4, <1>5
  <2>2. u.part >= 1
    BY <1>4, <1>5
  <2>3. u.send <= spent["parts"] /\ \A r \in returned : r.send # u.send
    BY <1>1, <1>5, <1>7 DEF OfCall
  <2> QED
    BY <2>1, <2>2, <2>3, <1>1, <1>5 DEF OfCall, Numbered
<1>9. ASSUME NEW d \in Callers, d # c PROVE Distinct(u, sends[d]) /\ Distinct(sends[d], u)
  <2>1. Distinct(sends[c], sends[d]) /\ Distinct(sends[d], sends[c])
    BY <1>9 DEF SendInv
  <2> QED
    BY <2>1, <1>1, <1>5 DEF Distinct, Numbered
<1>10. spent["parts"] <= spent'["parts"] /\ txns <= txns'
  BY <1>4
<1> QED
  BY <1>3, <1>5, <1>6, <1>7, <1>8, <1>9, <1>10, CallerSteps

LEMMA PartEndsStep ==
    ASSUME SendInv, NEW c \in Callers, sends[c].pc # "idle", NEW id \in Nat, id # 0,
           Mine(id, sends[c].send, 1, event, spent["restarts"]), Transactions!PartEnds(c, id),
           UNCHANGED <<txns, answered, event>>, spent' \in [Transactions!Bounds -> Nat],
           spent'["parts"] = spent["parts"], spent'["restarts"] = spent["restarts"]
    PROVE  SendInv'
<1>1. CASE sends[c].part = sends[c].parts
  BY <1>1, GiveStep DEF Transactions!PartEnds
<1>2. CASE sends[c].part # sends[c].parts
  BY <1>2, ContinueStep DEF Transactions!PartEnds
<1> QED
  BY <1>1, <1>2

LEMMA AnswerStep ==
    ASSUME SendInv, NEW c \in Callers, Transactions!Answered(c)
    PROVE  SendInv'
<1>1. PICK id : id = Transactions!FirstId(c, Transactions!EventOf(sends[c].txn))
  OBVIOUS
<1>2. /\ sends[c].pc = "answer" /\ Transactions!PartEnds(c, id) /\ UNCHANGED <<txns, answered, event, spent>>
  BY <1>1 DEF Transactions!Answered, Transactions!At
<1>3. /\ OfCall(sends[c], txns, answered, event, returned, spent["parts"], spent["restarts"])
      /\ sends[c] \in SendCall
  BY DEF SendInv, SendTypes
<1>4. PICK a \in answered : a.txn = sends[c].txn /\ a.id = Transactions!EventOf(sends[c].txn)
  <2>1. \E a \in answered : a.txn = sends[c].txn
    BY <1>2, <1>3 DEF OfCall
  <2> QED
    BY <2>1 DEF Transactions!EventOf
<1>5. /\ a.id \in Nat /\ a.id # 0
      /\ Mine(a.id, sends[c].send, sends[c].part, event, spent["restarts"])
  BY <1>2, <1>3, <1>4 DEF OfCall, SendInv, SendTypes, SendAnswer
<1>6. id \in Nat /\ id # 0 /\ Mine(id, sends[c].send, 1, event, spent["restarts"])
  <2>1. CASE sends[c].part = 1
    BY <2>1, <1>1, <1>4, <1>5 DEF Transactions!FirstId
  <2>2. CASE sends[c].part # 1
    <3>1. id = sends[c].first /\ sends[c].part > 1 /\ id \in Nat
      BY <2>2, <1>1, <1>2, <1>3 DEF Transactions!FirstId, OfCall, SendCall
    <3> QED
      BY <3>1, <1>2, <1>3 DEF OfCall
  <2> QED
    BY <2>1, <2>2
<1>7. spent' \in [Transactions!Bounds -> Nat]
  BY <1>2 DEF SendInv, SendTypes
<1> QED
  BY <1>2, <1>6, <1>7, PartEndsStep

LEMMA FailStep ==
    ASSUME SendInv, NEW c \in Callers, Transactions!PartFails(c)
    PROVE  SendInv'
<1>1. /\ sends[c].pc # "idle" /\ UNCHANGED <<txns, answered, event>>
      /\ spent' = [spent EXCEPT !["faults"] = spent["faults"] + 1]
      /\ IF sends[c].part = 1 THEN Transactions!Give(c, Transactions!None)
                              ELSE Transactions!PartEnds(c, sends[c].first)
  BY DEF Transactions!PartFails, Transactions!Spend, Transactions!SpendMany,
         Transactions!FailureCounts
<1>2. /\ spent' \in [Transactions!Bounds -> Nat]
      /\ spent'["parts"] = spent["parts"] /\ spent'["restarts"] = spent["restarts"]
  BY <1>1 DEF SendInv, SendTypes, Transactions!Bounds
<1>3. CASE sends[c].part = 1
  <2>1. Transactions!Give(c, 0)
    BY <1>1, <1>3 DEF Transactions!None
  <2> QED
    BY <1>1, <1>2, <1>3, <2>1, GiveStep
<1>4. CASE sends[c].part # 1
  <2>1. sends[c].part > 1 /\ sends[c].first \in Nat
    BY <1>1, <1>4 DEF SendInv, SendTypes, SendCall, OfCall
  <2>2. sends[c].first # 0 /\ Mine(sends[c].first, sends[c].send, 1, event, spent["restarts"])
    BY <2>1, <1>1 DEF SendInv, OfCall
  <2> QED
    BY <1>1, <1>2, <1>4, <2>1, <2>2, PartEndsStep
<1> QED
  BY <1>3, <1>4

LEMMA RestartStep ==
    ASSUME SendInv, Transactions!Restart
    PROVE  SendInv'
<1>1. /\ spent' = [spent EXCEPT !["restarts"] = spent["restarts"] + 1]
      /\ txns' = 1 /\ sends' = [c \in Callers |-> Transactions!Idle]
      /\ UNCHANGED <<answered, event, returned>>
  BY DEF Transactions!Restart, Transactions!Spend, Transactions!SpendMany
<1>2. spent["parts"] \in Nat /\ spent["restarts"] \in Nat /\ txns \in Nat
  BY Counts DEF SendInv
<1>3. /\ spent' \in [Transactions!Bounds -> Nat]
      /\ spent'["parts"] = spent["parts"] /\ spent'["restarts"] = spent["restarts"] + 1
  BY <1>1, <1>2 DEF SendInv, SendTypes, Transactions!Bounds
<1>4. Transactions!Idle \in SendCall /\ Transactions!Idle.pc = "idle"
  BY DEF Transactions!Idle, Transactions!None, SendCall
<1>5. SendTypes'
  BY <1>1, <1>3, <1>4 DEF SendInv, SendTypes
<1>6. /\ \A c \in Callers : OfCall(sends'[c], txns', answered', event', returned', spent'["parts"], spent'["restarts"])
      /\ \A c, d \in Callers : Distinct(sends'[c], sends'[d])
  BY <1>1, <1>4 DEF OfCall, Distinct, Numbered
<1>7. OfEvents(txns', answered, event, returned, spent["parts"], spent["restarts"] + 1)
  <2>1. OfEvents(txns, answered, event, returned, spent["parts"], spent["restarts"])
    BY DEF SendInv
  <2>2. \A e \in event : e.run \in Nat /\ e.run <= spent["restarts"]
    BY <2>1 DEF OfEvents, SendInv, SendTypes, SendEvent
  <2>3. \A e \in event : e.run < spent["restarts"] + 1 /\ e.run <= spent["restarts"] + 1
    BY <2>2, <1>2
  <2>4. \A a \in answered : Old(a.id, event, spent["restarts"] + 1)
    BY <2>1, <2>3 DEF OfEvents, Old
  <2> QED
    BY <2>1, <2>3, <2>4 DEF OfEvents
<1> QED
  BY <1>1, <1>3, <1>5, <1>6, <1>7 DEF SendInv

LEMMA SendInvStep ==
    ASSUME Transactions!MatrixSendAssumption
    PROVE  SendInv /\ [Transactions!Next]_(Transactions!vars) => SendInv'
<1> SUFFICES ASSUME SendInv, [Transactions!Next]_(Transactions!vars) PROVE SendInv'
  OBVIOUS
<1>1. CASE Transactions!Redact
  <2>1. /\ txns' = txns + 1 /\ UNCHANGED <<sends, answered, event, returned>>
        /\ spent' = [spent EXCEPT !["redacts"] = spent["redacts"] + 1]
    BY <1>1 DEF Transactions!Redact, Transactions!Spend, Transactions!SpendMany
  <2>2. /\ spent["parts"] \in Nat /\ txns \in Nat
        /\ spent' \in [Transactions!Bounds -> Nat]
        /\ spent'["parts"] = spent["parts"] /\ spent'["restarts"] = spent["restarts"]
    BY <2>1, Counts DEF SendInv, SendTypes, Transactions!Bounds
  <2>3. SendTypes'
    BY <2>1, <2>2 DEF SendInv, SendTypes
  <2>4. ASSUME NEW c \in Callers
        PROVE  OfCall(sends[c], txns', answered, event, returned, spent["parts"], spent["restarts"])
    <3>1. /\ sends[c] \in SendCall /\ txns' \in Nat /\ txns <= txns'
          /\ OfCall(sends[c], txns, answered, event, returned, spent["parts"], spent["restarts"])
      BY <2>1, <2>2 DEF SendInv, SendTypes
    <3> QED
      BY <3>1, <2>2, CallStays
  <2>5. OfEvents(txns', answered, event, returned, spent["parts"], spent["restarts"])
    <3>1. \A a \in answered : a.txn >= txns' => a.txn >= txns
      BY <2>1, <2>2 DEF SendInv, SendTypes, SendAnswer
    <3>2. OfEvents(txns, answered, event, returned, spent["parts"], spent["restarts"])
      BY DEF SendInv
    <3> QED
      BY <3>1, <3>2 DEF OfEvents
  <2> QED
    BY <2>1, <2>2, <2>3, <2>4, <2>5 DEF SendInv
<1>2. CASE Transactions!Restart
  BY <1>2, RestartStep
<1>3. CASE UNCHANGED Transactions!vars
  BY <1>3 DEF Transactions!vars, SendInv, SendTypes
<1>4. ASSUME NEW c \in Callers, Transactions!Step(c) PROVE SendInv'
  BY <1>4, NumberStep, PutStep, AnswerStep, FailStep DEF Transactions!Step
<1>5. ASSUME NEW c \in Callers, NEW n \in Images, Transactions!Send(c, n) PROVE SendInv'
  BY <1>5, SendStep
<1> QED
  BY <1>1, <1>2, <1>3, <1>4, <1>5 DEF Transactions!Next

LEMMA TransactionsBegin == Transactions!Init => SendInv
<1> SUFFICES ASSUME Transactions!Init PROVE SendInv
  OBVIOUS
<1>1. Transactions!Idle \in SendCall /\ Transactions!Idle.pc = "idle"
  BY DEF Transactions!Idle, Transactions!None, SendCall
<1>2. IsFiniteSet({})
  BY FS_EmptySet
<1> QED
  BY <1>1, <1>2 DEF Transactions!Init, SendInv, SendTypes, OfCall, OfEvents, Distinct, Numbered

LEMMA SendInvariant ==
    ASSUME Transactions!MatrixSendAssumption PROVE Transactions!Spec => []SendInv
BY TransactionsBegin, SendInvStep, PTL DEF Transactions!Spec

LEMMA TransactionsOwnEvent ==
    ASSUME Transactions!MatrixSendAssumption
    PROVE  Transactions!Spec => []Transactions!OwnEventInRun
<1>1. SendInv => Transactions!OwnEventInRun
  BY DEF SendInv, OfEvents, Mine, Transactions!OwnEventInRun, Transactions!None
<1> QED
  BY <1>1, SendInvariant, PTL

LEMMA TransactionsOneLeft ==
    ASSUME Transactions!MatrixSendAssumption
    PROVE  Transactions!Spec => []Transactions!ErrorLeavesOne
<1>1. SendInv => Transactions!ErrorLeavesOne
  <2> SUFFICES ASSUME SendInv, NEW r \in returned, r.id = 0, NEW e \in Transactions!MadeBy(r.send)
               PROVE  e.part = 1 /\ Transactions!MadeBy(r.send) = {e}
    BY DEF Transactions!ErrorLeavesOne, Transactions!None
  <2>1. \A f \in Transactions!MadeBy(r.send) : f \in event /\ f.send = r.send /\ f.part = 1
    BY DEF SendInv, OfEvents, Transactions!MadeBy
  <2>2. \A f \in Transactions!MadeBy(r.send) : f = e
    BY <2>1 DEF SendInv, OfEvents
  <2> QED
    BY <2>1, <2>2
<1> QED
  BY <1>1, SendInvariant, PTL

(* A call is at one of its parts and remembers an event that was made, and   *)
(* the homeserver answers a number with one event.                           *)
Made(x, evs) == x = 0 \/ \E e \in evs : e.id = x

Underway(u, evs) ==
    /\ u.send <= MaxParts /\ u.parts \in Images \cup {0, 1} /\ u.part <= u.parts
    /\ Made(u.first, evs)

OneEach(ans) == \A a, b \in ans : a.txn = b.txn => a = b

TransactionsTyped ==
    /\ SendInv
    /\ txns # 0 /\ spent["parts"] <= MaxParts
    /\ \A c \in Callers : Underway(sends[c], event)
    /\ OneEach(answered)

LEMMA IdleUnderway ==
    ASSUME Transactions!MatrixSendAssumption, NEW evs PROVE Underway(Transactions!Idle, evs)
BY DEF Transactions!MatrixSendAssumption, Transactions!Idle, Transactions!None, Underway, Made

LEMMA UnderwayMoves ==
    ASSUME TransactionsTyped, SendInv', NEW c \in Callers, NEW u, Underway(u, event'),
           sends' = [sends EXCEPT ![c] = u], event \subseteq event',
           txns' # 0, spent'["parts"] <= MaxParts, OneEach(answered')
    PROVE  TransactionsTyped'
<1>1. sends'[c] = u /\ \A d \in Callers : d # c => sends'[d] = sends[d]
  BY DEF TransactionsTyped, SendInv, SendTypes
<1>2. ASSUME NEW d \in Callers, d # c PROVE Underway(sends[d], event')
  <2>1. Underway(sends[d], event)
    BY DEF TransactionsTyped
  <2> QED
    BY <2>1 DEF Underway, Made
<1>3. \A d \in Callers : Underway(sends'[d], event')
  BY <1>1, <1>2
<1> QED
  BY <1>3 DEF TransactionsTyped

LEMMA SendUnderway ==
    ASSUME Transactions!MatrixSendAssumption, TransactionsTyped, SendInv', NEW c \in Callers, NEW n \in Images,
           Transactions!Send(c, n)
    PROVE  TransactionsTyped'
<1>1. PICK next, k : next = spent["parts"] + 1 /\ k = Transactions!Parts(n)
  OBVIOUS
<1>2. n \in Nat /\ MaxParts \in Nat /\ spent \in [Transactions!Bounds -> Nat] /\ spent["parts"] \in Nat
  BY Counts DEF Transactions!MatrixSendAssumption, TransactionsTyped, SendInv, SendTypes
<1>3. k \in Nat /\ 1 <= k /\ k \in Images \cup {0, 1}
  BY <1>1, <1>2 DEF Transactions!Parts
<1>4. PICK u : u = [Transactions!Idle EXCEPT !.pc = IF n = 0 THEN "number" ELSE "upload",
                                             !.send = next, !.part = 1, !.parts = k]
  OBVIOUS
<1>5. u.send = next /\ u.part = 1 /\ u.parts = k /\ u.first = 0
  BY <1>4 DEF Transactions!Idle, Transactions!None
<1>6. /\ sends' = [sends EXCEPT ![c] = u] /\ UNCHANGED <<txns, answered, event>>
      /\ spent["parts"] + k <= MaxParts /\ spent' = [spent EXCEPT !["parts"] = spent["parts"] + k]
  BY <1>1, <1>4 DEF Transactions!Send, Transactions!SpendMany
<1>7. spent'["parts"] = spent["parts"] + k
  BY <1>2, <1>6 DEF Transactions!Bounds
<1>8. spent'["parts"] <= MaxParts /\ next <= MaxParts
  BY <1>1, <1>2, <1>3, <1>6, <1>7
<1>9. Underway(u, event')
  BY <1>3, <1>5, <1>8 DEF Underway, Made
<1>10. txns' # 0 /\ OneEach(answered') /\ event \subseteq event'
  BY <1>6 DEF TransactionsTyped
<1> QED
  BY <1>6, <1>8, <1>9, <1>10, UnderwayMoves

LEMMA NumberUnderway ==
    ASSUME TransactionsTyped, SendInv', NEW c \in Callers, Transactions!Number(c)
    PROVE  TransactionsTyped'
<1>1. PICK old \in SendCall : old = sends[c]
  BY DEF TransactionsTyped, SendInv, SendTypes
<1>2. PICK u : u = [old EXCEPT !.pc = "put", !.txn = txns]
  OBVIOUS
<1>3. u.send = old.send /\ u.part = old.part /\ u.parts = old.parts /\ u.first = old.first
  BY <1>2 DEF SendCall
<1>4. sends' = [sends EXCEPT ![c] = u] /\ txns' = txns + 1 /\ UNCHANGED <<answered, event, spent>>
  BY <1>1, <1>2 DEF Transactions!Number, TransactionsTyped, SendInv, SendTypes
<1>5. Underway(old, event)
  BY <1>1 DEF TransactionsTyped
<1>6. Underway(u, event')
  BY <1>3, <1>4, <1>5 DEF Underway
<1>7. txns' # 0
  BY <1>4 DEF TransactionsTyped, SendInv, SendTypes
<1>8. spent'["parts"] <= MaxParts /\ OneEach(answered') /\ event \subseteq event'
  BY <1>4 DEF TransactionsTyped
<1> QED
  BY <1>4, <1>6, <1>7, <1>8, UnderwayMoves

LEMMA PutUnderway ==
    ASSUME TransactionsTyped, SendInv', NEW c \in Callers, Transactions!Put(c)
    PROVE  TransactionsTyped'
<1>1. PICK old \in SendCall : old = sends[c]
  BY DEF TransactionsTyped, SendInv, SendTypes
<1>2. PICK u : u = [old EXCEPT !.pc = "answer"]
  OBVIOUS
<1>3. u.send = old.send /\ u.part = old.part /\ u.parts = old.parts /\ u.first = old.first
  BY <1>2 DEF SendCall
<1>4. sends' = [sends EXCEPT ![c] = u] /\ UNCHANGED <<txns, spent>>
  BY <1>1, <1>2 DEF Transactions!Put, Transactions!Goto, TransactionsTyped, SendInv, SendTypes
<1>5. event \subseteq event' /\ OneEach(answered')
  <2>1. CASE Transactions!Seen(old.txn)
    BY <1>1, <2>1 DEF Transactions!Put, TransactionsTyped
  <2>2. CASE ~Transactions!Seen(old.txn)
    <3>1. PICK new, a, x : /\ new = Transactions!Cardinality(event) + 1
                           /\ a = [txn |-> old.txn, id |-> new]
                           /\ x = [id |-> new, send |-> old.send, part |-> old.part, run |-> spent["restarts"]]
      OBVIOUS
    <3>2. answered' = answered \cup {a} /\ event' = event \cup {x} /\ a.txn = old.txn
      BY <1>1, <2>2, <3>1 DEF Transactions!Put
    <3>3. \A b \in answered : b.txn # old.txn
      BY <2>2 DEF Transactions!Seen
    <3>4. OneEach(answered)
      BY DEF TransactionsTyped
    <3> QED
      BY <3>2, <3>3, <3>4 DEF OneEach
  <2> QED
    BY <2>1, <2>2
<1>6. Underway(old, event)
  BY <1>1 DEF TransactionsTyped
<1>7. Underway(u, event')
  BY <1>3, <1>5, <1>6 DEF Underway, Made
<1>8. spent'["parts"] <= MaxParts /\ txns' # 0
  BY <1>4 DEF TransactionsTyped
<1> QED
  BY <1>4, <1>5, <1>7, <1>8, UnderwayMoves

LEMMA PartEndsUnderway ==
    ASSUME Transactions!MatrixSendAssumption, TransactionsTyped, SendInv', NEW c \in Callers, NEW first,
           Made(first, event), Transactions!PartEnds(c, first) \/ Transactions!Give(c, first),
           UNCHANGED <<txns, answered, event>>, spent'["parts"] = spent["parts"]
    PROVE  TransactionsTyped'
<1>1. PICK old \in SendCall : old = sends[c]
  BY DEF TransactionsTyped, SendInv, SendTypes
<1>2. txns' # 0 /\ OneEach(answered') /\ event \subseteq event' /\ spent'["parts"] <= MaxParts
  BY DEF TransactionsTyped
<1>3. CASE Transactions!Give(c, first)
  <2>1. sends' = [sends EXCEPT ![c] = Transactions!Idle]
    BY <1>3 DEF Transactions!Give
  <2> QED
    BY <1>2, <2>1, IdleUnderway, UnderwayMoves
<1>4. CASE ~Transactions!Give(c, first)
  <2>1. PICK k : k = old.part + 1
    OBVIOUS
  <2>2. PICK u : u = [old EXCEPT !.pc = "upload", !.part = k, !.txn = 0, !.first = first]
    OBVIOUS
  <2>3. u.send = old.send /\ u.part = k /\ u.parts = old.parts /\ u.first = first
    BY <2>2 DEF SendCall
  <2>4. sends' = [sends EXCEPT ![c] = u] /\ old.part # old.parts
    BY <1>1, <1>4, <2>1, <2>2 DEF Transactions!PartEnds, Transactions!None, TransactionsTyped, SendInv, SendTypes
  <2>5. Underway(old, event) /\ old.part \in Nat /\ old.parts \in Nat
    BY <1>1 DEF TransactionsTyped, SendCall
  <2>6. k <= u.parts
    BY <2>1, <2>3, <2>4, <2>5 DEF Underway
  <2>7. Underway(u, event')
    BY <2>3, <2>5, <2>6 DEF Underway
  <2> QED
    BY <1>2, <2>4, <2>7, UnderwayMoves
<1> QED
  BY <1>3, <1>4

LEMMA AnswerUnderway ==
    ASSUME Transactions!MatrixSendAssumption, TransactionsTyped, SendInv', NEW c \in Callers,
           Transactions!Answered(c)
    PROVE  TransactionsTyped'
<1>1. PICK old \in SendCall : old = sends[c]
  BY DEF TransactionsTyped, SendInv, SendTypes
<1>2. PICK id : id = Transactions!EventOf(old.txn)
  OBVIOUS
<1>3. PICK first : first = Transactions!FirstId(c, id)
  OBVIOUS
<1>4. old.pc = "answer" /\ Transactions!PartEnds(c, first) /\ UNCHANGED <<txns, answered, event, spent>>
  BY <1>1, <1>2, <1>3 DEF Transactions!Answered, Transactions!At
<1>5. Made(id, event)
  <2>1. \E a \in answered : a.txn = old.txn
    BY <1>1, <1>4 DEF TransactionsTyped, SendInv, OfCall
  <2>2. PICK a \in answered : a = (CHOOSE b \in answered : b.txn = old.txn)
    BY <2>1
  <2>3. id = a.id
    BY <1>2, <2>2 DEF Transactions!EventOf
  <2>4. \E e \in event : e.id = a.id
    BY DEF TransactionsTyped, SendInv, OfEvents
  <2> QED
    BY <2>3, <2>4 DEF Made
<1>6. Made(first, event)
  BY <1>1, <1>3, <1>5 DEF Transactions!FirstId, TransactionsTyped, Underway
<1> QED
  BY <1>4, <1>6, PartEndsUnderway

LEMMA FailUnderway ==
    ASSUME Transactions!MatrixSendAssumption, TransactionsTyped, SendInv', NEW c \in Callers,
           Transactions!PartFails(c)
    PROVE  TransactionsTyped'
<1>1. UNCHANGED <<txns, answered, event>> /\ spent' = [spent EXCEPT !["faults"] = spent["faults"] + 1]
  BY DEF Transactions!PartFails, Transactions!Spend, Transactions!SpendMany
<1>2. spent'["parts"] = spent["parts"]
  BY <1>1 DEF TransactionsTyped, SendInv, SendTypes, Transactions!Bounds
<1>3. PICK first : first = sends[c].first
  OBVIOUS
<1>4. Made(first, event) /\ Made(Transactions!None, event)
  BY <1>3 DEF TransactionsTyped, Underway, Made, Transactions!None
<1>5. Transactions!Give(c, Transactions!None) \/ Transactions!PartEnds(c, first)
  BY <1>3 DEF Transactions!PartFails
<1> QED
  BY <1>1, <1>2, <1>4, <1>5, PartEndsUnderway

LEMMA TransactionsType ==
    ASSUME Transactions!MatrixSendAssumption PROVE Transactions!Spec => []TransactionsTyped
<1>1. Transactions!Init => TransactionsTyped
  <2> SUFFICES ASSUME Transactions!Init PROVE TransactionsTyped
    OBVIOUS
  <2>1. SendInv
    BY TransactionsBegin
  <2>2. txns # 0 /\ OneEach(answered) /\ \A c \in Callers : sends[c] = Transactions!Idle
    BY DEF Transactions!Init, OneEach
  <2>3. spent["parts"] = 0 /\ 0 <= MaxParts
    BY DEF Transactions!Init, Transactions!Bounds, Transactions!MatrixSendAssumption
  <2> QED
    BY <2>1, <2>2, <2>3, IdleUnderway DEF TransactionsTyped
<1>2. TransactionsTyped /\ [Transactions!Next]_(Transactions!vars) => TransactionsTyped'
  <2> SUFFICES ASSUME TransactionsTyped, [Transactions!Next]_(Transactions!vars) PROVE TransactionsTyped'
    OBVIOUS
  <2>1. SendInv' /\ spent \in [Transactions!Bounds -> Nat] /\ txns \in Nat
    BY SendInvStep DEF TransactionsTyped, SendInv, SendTypes
  <2>2. CASE Transactions!Redact
    <3>1. /\ txns' = txns + 1 /\ UNCHANGED <<sends, answered, event>>
          /\ spent' = [spent EXCEPT !["redacts"] = spent["redacts"] + 1]
      BY <2>2 DEF Transactions!Redact, Transactions!Spend, Transactions!SpendMany
    <3>2. spent'["parts"] = spent["parts"] /\ txns' # 0
      BY <2>1, <3>1 DEF Transactions!Bounds
    <3> QED
      BY <2>1, <3>1, <3>2 DEF TransactionsTyped
  <2>3. CASE Transactions!Restart
    <3>1. /\ txns' = 1 /\ UNCHANGED <<answered, event>>
          /\ sends' = [c \in Callers |-> Transactions!Idle]
          /\ spent' = [spent EXCEPT !["restarts"] = spent["restarts"] + 1]
      BY <2>3 DEF Transactions!Restart, Transactions!Spend, Transactions!SpendMany
    <3>2. spent'["parts"] = spent["parts"] /\ txns' # 0
      BY <2>1, <3>1 DEF Transactions!Bounds
    <3> QED
      BY <2>1, <3>1, <3>2, IdleUnderway DEF TransactionsTyped
  <2>4. CASE UNCHANGED Transactions!vars
    BY <2>1, <2>4 DEF Transactions!vars, TransactionsTyped
  <2>5. ASSUME NEW c \in Callers, Transactions!Step(c) PROVE TransactionsTyped'
    BY <2>1, <2>5, NumberUnderway, PutUnderway, AnswerUnderway, FailUnderway DEF Transactions!Step
  <2>6. ASSUME NEW c \in Callers, NEW n \in Images, Transactions!Send(c, n) PROVE TransactionsTyped'
    BY <2>1, <2>6, SendUnderway
  <2> QED
    BY <2>2, <2>3, <2>4, <2>5, <2>6 DEF Transactions!Next
<1> QED
  BY <1>1, <1>2, PTL DEF Transactions!Spec

LEMMA TransactionShapes ==
    ASSUME Transactions!MatrixSendAssumption PROVE TransactionsTyped => Transactions!TypeInv
<1> SUFFICES ASSUME TransactionsTyped PROVE Transactions!TypeInv
  OBVIOUS
<1>1. txns \in Nat \ {0}
  BY DEF TransactionsTyped, SendInv, SendTypes
<1>2. ASSUME NEW c \in Callers
      PROVE  /\ sends[c].pc \in {"idle", "upload", "number", "put", "answer"}
             /\ sends[c].send \in 0..MaxParts /\ sends[c].parts \in Images \cup {0, 1}
             /\ sends[c].part <= sends[c].parts
             /\ sends[c].first \in Transactions!Events \cup {Transactions!None}
  <2>1. PICK u \in SendCall : u = sends[c]
    BY DEF TransactionsTyped, SendInv, SendTypes
  <2>2. Underway(u, event) /\ MaxParts \in Nat
    BY <2>1 DEF TransactionsTyped, Transactions!MatrixSendAssumption
  <2>3. u.pc \in {"idle", "upload", "number", "put", "answer"} /\ u.send \in 0..MaxParts
    BY <2>2 DEF SendCall, Underway
  <2>4. u.first \in Transactions!Events \cup {Transactions!None}
    BY <2>2 DEF Underway, Made, Transactions!Events, Transactions!None
  <2> QED
    BY <2>1, <2>2, <2>3, <2>4 DEF Underway
<1>3. \A a \in answered : a.id \in Transactions!Events
  BY DEF TransactionsTyped, SendInv, OfEvents, Transactions!Events
<1>4. \A a, b \in answered : a.txn = b.txn => a = b
  BY DEF TransactionsTyped, OneEach
<1> QED
  BY <1>1, <1>2, <1>3, <1>4 DEF Transactions!TypeInv

----------------------------------------------------------------------------
(***************************************************************************)
(* Senders.                                                                *)
(***************************************************************************)
TextChar == [part : {"body", "placeholder", "dots"}, w : 1..4]

LEMMA BytesRun ==
    ASSUME NEW s \in Seq(TextChar)
    PROVE  \E r \in [0..Len(s) -> Nat] :
              /\ r[0] = 0 /\ r[Len(s)] = Sending!Bytes(s)
              /\ \A k \in 1..Len(s) : r[k] = r[k - 1] + s[k].w
<1>1. PICK n \in Nat : n = Len(s) /\ DOMAIN s = 1..n /\ \A k \in 1..n : s[k] \in TextChar
  OBVIOUS
<1>2. PICK step \in [Nat \X (1..n) -> Nat] :
          \A a \in Nat, k \in 1..n : step[<<a, k>>] = a + s[k].w
  <2> DEFINE step == [q \in Nat \X (1..n) |-> q[1] + s[q[2]].w]
  <2>1. step \in [Nat \X (1..n) -> Nat]
    BY <1>1 DEF TextChar
  <2>2. \A a \in Nat, k \in 1..n : step[<<a, k>>] = a + s[k].w
    OBVIOUS
  <2> HIDE DEF step
  <2> QED
    BY <2>1, <2>2
<1> DEFINE Q(J) == J = [S \in SUBSET (1..n) |->
                           IF S = {} THEN 0 ELSE LET x == Top(S) IN J[S \ {x}] + s[x].w]
<1>3. PICK J : J = CHOOSE I : Q(I)
  OBVIOUS
<1>4. Sending!Bytes(s) = J[1..n]
  BY <1>1, <1>3 DEF Sending!Bytes, Sending!FoldLeft, Sending!MapThenFoldSet, Sending!Max, Top
<1>5. 0 \in Nat
  BY EmptySeq
<1>6. Q(J)
  <2>1. PICK I \in [SUBSET (1..n) -> Nat] : Iterates(I, n, 0, step)
    BY <1>5, FoldExists
  <2>2. ASSUME NEW S \in SUBSET (1..n), S # {}
        PROVE  step[<<I[S \ {Top(S)}], Top(S)>>] = I[S \ {Top(S)}] + s[Top(S)].w
    <3>1. I[S \ {Top(S)}] \in Nat /\ Top(S) \in 1..n
      BY <2>2, TopIn
    <3> QED
      BY <1>2, <3>1
  <2>3. Q(I)
    BY <2>1, <2>2 DEF Iterates
  <2> HIDE DEF Q
  <2> QED
    BY <1>3, <2>3
<1>7. Steps(J, Nat, n, 0, step)
  <2>1. J[{}] = 0
    BY <1>6
  <2>2. ASSUME NEW S \in SUBSET (1..n), S # {}, J[S \ {Top(S)}] \in Nat
        PROVE  J[S] = step[<<J[S \ {Top(S)}], Top(S)>>]
    <3>1. J[S] = J[S \ {Top(S)}] + s[Top(S)].w
      BY <1>6, <2>2
    <3> QED
      BY <1>2, <2>2, <3>1, TopIn
  <2> QED
    BY <2>1, <2>2 DEF Steps
<1> HIDE DEF Q
<1>8. PICK r \in [0..n -> Nat] : Run(r, n, 0, step, J)
  BY <1>5, <1>7, FoldRun
<1>9. ASSUME NEW k \in 1..n PROVE r[k] = r[k - 1] + s[k].w
  <2>1. k - 1 \in 0..n
    OBVIOUS
  <2>2. r[k - 1] \in Nat /\ r[k] = step[<<r[k - 1], k>>]
    BY <1>8, <2>1 DEF Run
  <2> QED
    BY <1>2, <2>2
<1> QED
  BY <1>1, <1>4, <1>8, <1>9 DEF Run

LEMMA BytesNone == Sending!Bytes(<<>>) = 0
<1>1. <<>> \in Seq(TextChar) /\ Len(<<>>) = 0
  BY EmptySeq
<1> QED
  BY <1>1, BytesRun

LEMMA BytesAppend ==
    ASSUME NEW s \in Seq(TextChar), NEW c \in TextChar
    PROVE  Sending!Bytes(Append(s, c)) = Sending!Bytes(s) + c.w /\ Sending!Bytes(s) \in Nat
<1>1. PICK n \in Nat, a \in Seq(TextChar) :
          /\ n = Len(s) /\ a = Append(s, c) /\ Len(a) = n + 1
          /\ (\A k \in 1..n : a[k] = s[k]) /\ a[n + 1] = c
  <2>1. Len(s) \in Nat
    OBVIOUS
  <2>2. /\ Append(s, c) \in Seq(TextChar) /\ Len(Append(s, c)) = Len(s) + 1
        /\ \A k \in 1..Len(s) : Append(s, c)[k] = s[k]
        /\ Append(s, c)[Len(s) + 1] = c
    BY AppendProperties
  <2> QED
    BY <2>1, <2>2
<1>2. PICK r \in [0..n -> Nat] :
          r[0] = 0 /\ r[n] = Sending!Bytes(s) /\ \A k \in 1..n : r[k] = r[k - 1] + s[k].w
  BY <1>1, BytesRun
<1>3. PICK q \in [0..(n + 1) -> Nat] :
          /\ q[0] = 0 /\ q[n + 1] = Sending!Bytes(a)
          /\ \A k \in 1..(n + 1) : q[k] = q[k - 1] + a[k].w
  <2>1. PICK m \in Nat : m = Len(a) /\ m = n + 1
    BY <1>1
  <2>2. PICK q \in [0..m -> Nat] :
            q[0] = 0 /\ q[m] = Sending!Bytes(a) /\ \A k \in 1..m : q[k] = q[k - 1] + a[k].w
    BY <2>1, BytesRun
  <2> QED
    BY <2>1, <2>2
<1>9. \A k \in 0..n : k < n => k + 1 \in 1..n /\ k + 1 \in 1..(n + 1) /\ (k + 1) - 1 = k
  OBVIOUS
<1> DEFINE T == {k \in 0..n : q[k] = r[k]}
<1>4. 0 \in T
  BY <1>2, <1>3
<1>5. ASSUME NEW k \in 0..n, k \in T, k < n PROVE k + 1 \in T
  <2>1. k + 1 \in 1..n /\ k + 1 \in 1..(n + 1) /\ (k + 1) - 1 = k
    <3> HIDE DEF T
    <3> QED
      BY <1>5, <1>9
  <2>2. q[k + 1] = q[k] + a[k + 1].w /\ r[k + 1] = r[k] + s[k + 1].w
    BY <1>2, <1>3, <2>1
  <2> QED
    BY <1>1, <1>5, <2>1, <2>2
<1>6. \A k \in 0..n : k \in T
  <2> HIDE DEF T
  <2> QED
    BY <1>4, <1>5, Upto
<1>7. n \in 0..n /\ n + 1 \in 1..(n + 1) /\ (n + 1) - 1 = n
  OBVIOUS
<1>8. q[n + 1] = q[n] + c.w
  BY <1>1, <1>3, <1>7
<1> QED
  BY <1>1, <1>2, <1>3, <1>6, <1>7, <1>8

LEMMA BytesNat == ASSUME NEW s \in Seq(TextChar) PROVE Sending!Bytes(s) \in Nat
<1>1. [part |-> "body", w |-> 1] \in TextChar
  BY DEF TextChar
<1> QED
  BY <1>1, BytesAppend

LEMMA DotsBytes ==
    ASSUME NEW s \in Seq(TextChar)
    PROVE  s \o Sending!Dots \in Seq(TextChar) /\ Sending!Bytes(s \o Sending!Dots) = Sending!Bytes(s) + 3
<1> DEFINE d == [part |-> "dots", w |-> 1]
<1>1. Sending!Dots = <<d, d, d>> /\ d \in TextChar
  BY DEF Sending!Dots, Sending!CharsOf, Sending!Char, TextChar
<1>2. s \o Sending!Dots = Append(Append(Append(s, d), d), d)
  <2> HIDE DEF d
  <2> QED
    BY <1>1
<1>3. Append(s, d) \in Seq(TextChar) /\ Append(Append(s, d), d) \in Seq(TextChar)
  BY <1>1
<1>4. /\ Sending!Bytes(Append(s, d)) = Sending!Bytes(s) + 1
      /\ Sending!Bytes(Append(Append(s, d), d)) = Sending!Bytes(Append(s, d)) + 1
      /\ Sending!Bytes(Append(Append(Append(s, d), d), d)) = Sending!Bytes(Append(Append(s, d), d)) + 1
  BY <1>1, <1>3, BytesAppend
<1>5. PICK b \in Nat : b = Sending!Bytes(s)
  BY BytesNat
<1>6. Sending!Bytes(s \o Sending!Dots) = b + 1 + 1 + 1
  <2> HIDE DEF d
  <2> QED
    BY <1>2, <1>4, <1>5
<1> QED
  <2> HIDE DEF d
  <2> QED
    BY <1>1, <1>2, <1>3, <1>5, <1>6

(* truncate_to_limit leaves a character at least, and what it leaves fits. *)
LEMMA LongestFits ==
    ASSUME Sending!SendersAssumption, NEW s \in Seq(TextChar), s # <<>>
    PROVE  Sending!Longest(s) \in 1..Len(s) /\ Sending!Fits(s, Sending!Longest(s))
<1>1. MaxBytes \in Nat /\ MaxBytes >= 7
  BY DEF Sending!SendersAssumption
<1>2. PICK n \in Nat : n = Len(s) /\ n >= 1
  OBVIOUS
<1>3. Sending!Fits(s, 1)
  <2>1. s[1] \in TextChar /\ s[1].w <= 4 /\ s[1].w \in Nat
    <3>1. s[1] \in TextChar
      BY <1>2
    <3> QED
      BY <3>1 DEF TextChar
  <2>3. PICK e \in Seq(TextChar) : e = SubSeq(s, 1, 1) /\ Len(e) = 1 /\ e[1] = s[1]
    <3>1. \A i \in 1..1 : s[i] \in TextChar
      BY <2>1
    <3>2. /\ SubSeq(s, 1, 1) \in Seq(TextChar)
          /\ Len(SubSeq(s, 1, 1)) = IF 1 <= 1 THEN 1 - 1 + 1 ELSE 0
          /\ \A i \in 1..(1 - 1 + 1) : SubSeq(s, 1, 1)[i] = s[1 + i - 1]
      BY <3>1, SubSeqProperties
    <3>3. 1 <= 1 /\ 1 - 1 + 1 = 1 /\ 1 + 1 - 1 = 1 /\ 1 \in 1..1
      OBVIOUS
    <3> QED
      BY <3>2, <3>3
  <2>2. Sending!Bytes(SubSeq(s, 1, 1)) = 0 + s[1].w
    <3>1. PICK m \in Nat : m = Len(e) /\ m = 1
      BY <2>3
    <3>2. PICK r \in [0..m -> Nat] :
              r[0] = 0 /\ r[m] = Sending!Bytes(e) /\ \A k \in 1..m : r[k] = r[k - 1] + e[k].w
      BY <3>1, BytesRun
    <3> QED
      BY <2>3, <3>1, <3>2
  <2> QED
    BY <1>1, <2>1, <2>2 DEF Sending!Fits
<1> DEFINE F == {k \in 0..n : Sending!Fits(s, k)}
<1>4. F \in SUBSET (0..n) /\ 1 \in F
  BY <1>2, <1>3
<1>5. PICK m \in F : \A k \in F : k <= m
  <2> HIDE DEF F
  <2> QED
    BY <1>4, GreatestOf
<1>6. m \in 0..n /\ Sending!Fits(s, m) /\ \A k \in (m + 1)..n : ~Sending!Fits(s, k)
  BY <1>5
<1>7. /\ Sending!Longest(s) \in 0..Len(s) /\ Sending!Fits(s, Sending!Longest(s))
      /\ \A k \in (Sending!Longest(s) + 1)..Len(s) : ~Sending!Fits(s, k)
  BY <1>2, <1>6 DEF Sending!Longest
<1>8. Sending!Longest(s) # 0
  BY <1>2, <1>3, <1>7
<1> QED
  BY <1>2, <1>7, <1>8

(* A text as the loop over the attachments leaves it. *)
Begun(t) == t \in Seq(TextChar) /\ t # <<>> /\ t[1].part = "body" /\ Sending!Whole(t)

LEMMA FinalTextRight ==
    ASSUME Sending!SendersAssumption, Begun(text)
    PROVE  /\ Sending!FinalText \in Seq(TextChar) /\ Sending!HasBody(Sending!FinalText)
           /\ sender = "Discord" => Sending!Bytes(Sending!FinalText) <= MaxBytes
           /\ Sending!Whole(Sending!FinalText) => Sending!FinalText = text
<1>1. MaxBytes \in Nat
  BY DEF Sending!SendersAssumption
<1>2. CASE Sending!FinalText = text /\ (sender = "Discord" => Sending!Bytes(text) <= MaxBytes)
  <2>1. 1 \in DOMAIN text
    BY DEF Begun
  <2> QED
    BY <1>2, <2>1 DEF Begun, Sending!HasBody
<1>3. CASE ~(Sending!FinalText = text /\ (sender = "Discord" => Sending!Bytes(text) <= MaxBytes))
  <2>1. PICK m \in 1..Len(text) : m = Sending!Longest(text) /\ Sending!Fits(text, m)
    BY LongestFits DEF Begun
  <2>2. PICK c \in Seq(TextChar) : c = SubSeq(text, 1, m) /\ Len(c) = m /\ c[1] = text[1]
    <3>1. \A i \in 1..m : text[i] \in TextChar
      BY <2>1 DEF Begun
    <3>2. 1 \in Int /\ m \in Int /\ 1 <= m /\ 1 \in 1..(m - 1 + 1) /\ m - 1 + 1 = m /\ 1 + 1 - 1 = 1
      BY <2>1
    <3>3. /\ SubSeq(text, 1, m) \in Seq(TextChar)
          /\ Len(SubSeq(text, 1, m)) = IF 1 <= m THEN m - 1 + 1 ELSE 0
          /\ \A i \in 1..(m - 1 + 1) : SubSeq(text, 1, m)[i] = text[1 + i - 1]
      BY <3>1, <3>2, SubSeqProperties
    <3> QED
      BY <3>2, <3>3
  <2>3. Sending!FinalText = c \o Sending!Dots
    BY <1>3, <2>1, <2>2 DEF Sending!FinalText, Sending!Truncated
  <2>4. c \o Sending!Dots \in Seq(TextChar) /\ Sending!Bytes(c \o Sending!Dots) <= MaxBytes
    <3>1. Sending!Bytes(c) <= MaxBytes - 3 /\ Sending!Bytes(c) \in Nat
      BY <2>1, <2>2, BytesNat DEF Sending!Fits
    <3> QED
      BY <1>1, <3>1, DotsBytes
  <2>5. Sending!Dots \in Seq(TextChar) /\ Len(Sending!Dots) = 3 /\ Sending!Dots[1].part = "dots"
    BY DEF Sending!Dots, Sending!CharsOf, Sending!Char, TextChar
  <2>6. PICK d \in Seq(TextChar) : d = Sending!Dots
    BY <2>5
  <2>7. 1 \in DOMAIN (c \o d) /\ (c \o d)[1] = c[1]
    BY <2>2, <2>6
  <2>8. m + 1 \in DOMAIN (c \o d) /\ (c \o d)[m + 1] = d[1]
    <3>1. m + 1 \in 1..(m + 3) /\ ~(m + 1 <= m) /\ (m + 1) - m = 1
      BY <2>1
    <3>2. /\ c \o d \in Seq(TextChar) /\ Len(c \o d) = Len(c) + Len(d)
          /\ \A i \in 1..(Len(c) + Len(d)) : (c \o d)[i] = IF i <= Len(c) THEN c[i] ELSE d[i - Len(c)]
      BY ConcatProperties
    <3>3. Len(c) = m /\ Len(d) = 3
      BY <2>2, <2>5, <2>6
    <3> QED
      BY <3>1, <3>2, <3>3
  <2>9. Sending!HasBody(c \o d)
    BY <2>2, <2>7 DEF Sending!HasBody, Begun
  <2>10. ~Sending!Whole(c \o d)
    BY <2>5, <2>6, <2>8 DEF Sending!Whole
  <2> QED
    BY <2>3, <2>4, <2>6, <2>9, <2>10
<1> QED
  BY <1>2, <1>3

----------------------------------------------------------------------------
(* What a call of send keeps.  An image that is still to be posted, or was *)
(* posted, comes from an attachment that was looked at, and everything is  *)
(* in the order of the attachments; the rest of them are lost.             *)
PlainFile == [of : Nat, image : BOOLEAN]
AnyPost == [text : Seq(TextChar), files : Seq(PlainFile)]

Rising(fs) == \A i, j \in DOMAIN fs : i < j => fs[i].of < fs[j].of
Before(fs, gs) == \A i \in DOMAIN fs, j \in DOMAIN gs : fs[i].of < gs[j].of
Wide(t) == {i \in DOMAIN t : t[i].part = "placeholder" /\ t[i].w = 3}
PostShows(n) == \E k \in DOMAIN posted : Sending!Shows(posted[k].files, n)

SendTyped ==
    /\ sender \in {"Discord", "QQ", "Telegram", "Matrix"} /\ atts \in Seq(Attachments)
    /\ looked \in 0..Len(atts) /\ missing \subseteq 1..looked
    /\ files \in Seq(PlainFile) /\ posted \in Seq(AnyPost)
    /\ result \in {"open", "error", "sent"} /\ Begun(text)

FilesTraced ==
    /\ \A i \in DOMAIN files : /\ files[i].of \in 1..looked
                               /\ files[i].image \/ files[i].of \in missing
    /\ \A n \in 1..looked : n \in missing \/ Sending!Shows(files, n) \/ PostShows(n)
    /\ Rising(files)

PostsOrdered ==
    /\ \A k \in DOMAIN posted : Rising(posted[k].files)
    /\ \A k, l \in DOMAIN posted : k < l => Before(posted[k].files, posted[l].files)
    /\ \A k \in DOMAIN posted : posted[k].text = IF k = 1 THEN Sending!FinalText ELSE <<>>
    /\ result = "open" => \A k \in DOMAIN posted : Before(posted[k].files, files)

Placed ==
    posted = <<>> =>
        /\ IsFiniteSet(Wide(text)) /\ IsFiniteSet(Sending!Failed)
        /\ Cardinality(Wide(text)) = 2 * Cardinality(Sending!Failed)

Settled ==
    /\ result = "open" /\ posted # <<>> => sender = "Matrix" /\ files # <<>> /\ looked = Len(atts)
    /\ result = "sent" => /\ posted # <<>> /\ looked = Len(atts)
                          /\ \A n \in 1..looked : n \in missing \/ PostShows(n)
    /\ result = "error" => posted = <<>>

SendingInv == SendTyped /\ FilesTraced /\ PostsOrdered /\ Placed /\ Settled

LEMMA SendingMeant ==
    ASSUME Sending!SendersAssumption, SendingInv
    PROVE  Sending!TypeInv /\ Sending!SentAsMeant
<1>1. Begun(text)
  BY DEF SendingInv, SendTyped
<1>2. /\ Sending!FinalText \in Seq(TextChar) /\ Sending!HasBody(Sending!FinalText)
      /\ sender = "Discord" => Sending!Bytes(Sending!FinalText) <= MaxBytes
      /\ Sending!Whole(Sending!FinalText) => Sending!FinalText = text
  BY <1>1, FinalTextRight
<1>3. Sending!TypeInv
  BY DEF SendingInv, SendTyped, FilesTraced, Rising, Settled, Sending!TypeInv
<1>4. Sending!OneText
  <2>1. ~Sending!HasBody(<<>>)
    BY DEF Sending!HasBody
  <2> QED
    BY <1>2, <2>1 DEF SendingInv, PostsOrdered, Sending!OneText
<1>5. Sending!ImagesInOrder
  BY DEF SendingInv, SendTyped, PostsOrdered, Settled, Before, Rising, PostShows, Sending!Sent,
         Sending!ImagesInOrder
<1>6. Sending!WithinLimit
  <2>1. MaxBytes \in Nat
    BY DEF Sending!SendersAssumption
  <2> QED
    BY <1>2, <2>1, BytesNone DEF SendingInv, PostsOrdered, Sending!WithinLimit
<1>7. Sending!PlaceholderUnlessCut
  <2>4. Sending!Cardinality(Sending!Failed) = Cardinality(Sending!Failed)
    BY DEF Sending!Cardinality, Cardinality
  <2>5. Sending!Cardinality(Wide(text)) = Cardinality(Wide(text))
    BY DEF Sending!Cardinality, Cardinality
  <2> SUFFICES ASSUME posted = <<>>, Sending!FinalText = text
               PROVE  Sending!Placeholders(text) = Cardinality(Sending!Failed)
    BY <1>2, <2>4 DEF Sending!PlaceholderUnlessCut
  <2>1. Cardinality(Sending!Failed) \in Nat /\ Cardinality(Wide(text)) = 2 * Cardinality(Sending!Failed)
    BY FS_CardinalityType DEF SendingInv, Placed
  <2>2. Sending!Placeholders(text) = Cardinality(Wide(text)) \div 2
    BY <2>5 DEF Sending!Placeholders, Wide
  <2>3. \A n \in Nat : (2 * n) \div 2 = n
    OBVIOUS
  <2> QED
    BY <2>1, <2>2, <2>3
<1> QED
  BY <1>3, <1>4, <1>5, <1>6, <1>7 DEF Sending!SentAsMeant

LEMMA SendingStarts == ASSUME Sending!SendersAssumption, Sending!Init PROVE SendingInv
<1>1. PICK b \in Bodies : text = Sending!CharsOf("body", b)
  BY DEF Sending!Init
<1>2. b \in Seq(1..4) /\ b # <<>>
  BY <1>1 DEF Sending!SendersAssumption
<1>3. PICK n \in Nat \ {0} : n = Len(b) /\ DOMAIN b = 1..n /\ \A i \in 1..n : b[i] \in 1..4
  BY <1>2
<1>4. /\ DOMAIN text = 1..n
      /\ \A i \in 1..n : text[i] \in TextChar /\ text[i].part = "body"
  BY <1>1, <1>3 DEF Sending!CharsOf, Sending!Char, TextChar
<1>5. text = [i \in 1..n |-> text[i]]
  BY <1>1, <1>3 DEF Sending!CharsOf
<1>6. text \in Seq(TextChar) /\ text # <<>>
  <2>1. text \in [1..n -> TextChar]
    BY <1>4, <1>5
  <2>2. text \in Seq(TextChar) /\ 1 \in DOMAIN text
    BY <1>3, <1>4, <2>1
  <2> QED
    BY <2>2
<1>7. Begun(text) /\ Wide(text) = {}
  BY <1>3, <1>4, <1>6 DEF Begun, Wide, Sending!Whole
<1>8. atts \in Seq(Attachments) /\ looked = 0 /\ Len(atts) \in Nat
  <2>1. PICK m \in 0..MaxImages : atts \in [1..m -> Attachments]
    BY DEF Sending!Init
  <2>2. m \in Nat
    BY <2>1 DEF Sending!SendersAssumption
  <2> QED
    BY <2>1, <2>2 DEF Sending!Init
<1>9. SendTyped
  BY <1>7, <1>8, EmptySeq DEF SendTyped, Sending!Init
<1>10. files = <<>> /\ posted = <<>> /\ missing = {} /\ result = "open"
  BY DEF Sending!Init
<1>11. 1..0 = {}
  OBVIOUS
<1>12. FilesTraced /\ PostsOrdered /\ Settled
  BY <1>8, <1>10, <1>11 DEF FilesTraced, PostsOrdered, Settled, Rising
<1>13. Placed
  <2>1. Sending!Failed = {}
    BY <1>8, <1>11 DEF Sending!Failed
  <2> QED
    BY <1>7, <2>1, FS_EmptySet DEF Placed
<1> QED
  BY <1>9, <1>12, <1>13 DEF SendingInv

(* Nothing has been posted while attachments are left to look at. *)
LEMMA LookingEarly ==
    ASSUME SendingInv, Sending!Looking({"data", "url", "neither"})
    PROVE  /\ posted = <<>> /\ posted' = posted /\ result = "open" /\ result' = result
           /\ UNCHANGED <<sender, atts>> /\ looked' = looked + 1 /\ looked' \in 0..Len(atts) /\ looked \in Nat
BY DEF SendingInv, SendTyped, Settled, Sending!Looking

LEMMA FileTaken ==
    ASSUME SendingInv, NEW image \in BOOLEAN, Sending!Looking({"data", "url"}),
           files' = Sending!File(image), text' = text,
           missing' = IF image THEN missing ELSE missing \cup {looked + 1}
    PROVE  SendingInv'
<1>1. Sending!Looking({"data", "url", "neither"})
  BY DEF Sending!Looking
<1>2. /\ posted = <<>> /\ posted' = posted /\ result = "open" /\ result' = result
      /\ UNCHANGED <<sender, atts>> /\ looked' = looked + 1 /\ looked' \in 0..Len(atts) /\ looked \in Nat
  BY <1>1, LookingEarly
<1> DEFINE f == [of |-> looked + 1, image |-> image]
<1>3. f \in PlainFile /\ files' = Append(files, f) /\ files \in Seq(PlainFile)
  BY <1>2 DEF PlainFile, Sending!File, SendingInv, SendTyped
<1>4. PICK n \in Nat :
          /\ n = Len(files) /\ DOMAIN files = 1..n /\ DOMAIN files' = 1..(n + 1)
          /\ files' \in Seq(PlainFile)
          /\ \A i \in 1..n : files'[i] = files[i]
          /\ files'[n + 1] = f
  <2>1. /\ Append(files, f) \in Seq(PlainFile) /\ Len(Append(files, f)) = Len(files) + 1
        /\ \A k \in 1..Len(files) : Append(files, f)[k] = files[k]
        /\ Append(files, f)[Len(files) + 1] = f
    BY <1>3, AppendProperties
  <2> HIDE DEF f
  <2>2. Len(files) \in Nat /\ DOMAIN files = 1..Len(files)
    BY <1>3
  <2> QED
    BY <1>3, <2>1, <2>2
<1>5. f.of = looked + 1 /\ f.image = image
  OBVIOUS
<1> HIDE DEF f
<1>6. SendTyped'
  BY <1>2, <1>4 DEF SendingInv, SendTyped, Begun, Sending!Whole
<1>7. FilesTraced'
  <2>1. \A i \in 1..(n + 1) : i \in 1..n \/ i = n + 1
    OBVIOUS
  <2>2. \A i \in DOMAIN files' : files'[i].of \in 1..looked' /\ (files'[i].image \/ files'[i].of \in missing')
    BY <1>2, <1>4, <1>5, <2>1 DEF SendingInv, FilesTraced
  <2>3. ASSUME NEW k \in 1..looked', k \notin missing' PROVE Sending!Shows(files', k)
    <3>1. CASE k = looked + 1
      <4>1. image = TRUE
        BY <2>3, <3>1
      <4>2. n + 1 \in 1..(n + 1) /\ f = [of |-> k, image |-> TRUE]
        BY <1>4, <1>5, <3>1, <4>1 DEF f
      <4> QED
        BY <1>4, <4>2 DEF Sending!Shows
    <3>2. CASE k # looked + 1
      <4>1. k \in 1..looked /\ k \notin missing
        BY <1>2, <2>3, <3>2
      <4>2. ~PostShows(k)
        BY <1>2 DEF PostShows
      <4>3. PICK i \in 1..n : files[i] = [of |-> k, image |-> TRUE]
        BY <1>4, <4>1, <4>2 DEF SendingInv, FilesTraced, Sending!Shows
      <4> QED
        BY <1>4, <4>3 DEF Sending!Shows
    <3> QED
      BY <3>1, <3>2
  <2>4. Rising(files')
    <3> SUFFICES ASSUME NEW i \in 1..(n + 1), NEW j \in 1..(n + 1), i < j
                 PROVE  files'[i].of < files'[j].of
      BY <1>4 DEF Rising
    <3>1. i \in 1..n
      OBVIOUS
    <3>2. files[i].of \in 1..looked
      BY <1>4, <3>1 DEF SendingInv, FilesTraced
    <3>3. CASE j = n + 1
      BY <1>2, <1>4, <1>5, <3>1, <3>2, <3>3
    <3>4. CASE j # n + 1
      <4>1. j \in 1..n
        BY <3>4
      <4> QED
        BY <1>4, <3>1, <4>1 DEF SendingInv, FilesTraced, Rising
    <3> QED
      BY <3>3, <3>4
  <2> QED
    BY <2>2, <2>3, <2>4 DEF FilesTraced
<1>8. PostsOrdered'
  BY <1>2 DEF PostsOrdered
<1>9. Settled'
  BY <1>2 DEF Settled
<1>10. Placed'
  <2>1. Sending!Failed' = Sending!Failed
    <3>1. n + 1 \in DOMAIN files' /\ files'[n + 1].of = looked + 1
      BY <1>4, <1>5
    <3>2. \A k \in 1..looked' : k = looked + 1 \/ k \in 1..looked
      BY <1>2
    <3>3. \A k \in 1..looked : k \in 1..looked' /\ k # looked + 1
      BY <1>2
    <3>4. ASSUME NEW k \in 1..looked
          PROVE  (\E i \in DOMAIN files' : files'[i].of = k) <=> (\E i \in DOMAIN files : files[i].of = k)
      <4>1. \A i \in DOMAIN files' : i \in 1..n \/ i = n + 1
        BY <1>4
      <4> QED
        BY <1>4, <3>1, <3>3, <4>1
    <3> QED
      BY <3>1, <3>2, <3>3, <3>4 DEF Sending!Failed
  <2> QED
    BY <1>2, <2>1 DEF SendingInv, Placed, Wide
<1> QED
  BY <1>6, <1>7, <1>8, <1>9, <1>10 DEF SendingInv

LEMMA PlaceholderPut ==
    ASSUME SendingInv, Sending!NotGot
    PROVE  SendingInv'
<1>1. Sending!Looking({"data", "url", "neither"})
  BY DEF Sending!NotGot, Sending!Looking
<1>2. /\ posted = <<>> /\ posted' = posted /\ result = "open" /\ result' = result
      /\ UNCHANGED <<sender, atts>> /\ looked' = looked + 1 /\ looked' \in 0..Len(atts) /\ looked \in Nat
  BY <1>1, LookingEarly
<1>3. files' = files /\ missing' = missing \cup {looked + 1} /\ text' = text \o Sending!Placeholder
  BY DEF Sending!NotGot
<1> DEFINE c(w) == [part |-> "placeholder", w |-> w]
<1>4. PICK p \in Seq(TextChar) :
          /\ p = Sending!Placeholder /\ Len(p) = 4
          /\ p[1] = c(1) /\ p[2] = c(3) /\ p[3] = c(3) /\ p[4] = c(1)
  <2>1. PICK a \in TextChar, b \in TextChar : a = c(1) /\ b = c(3)
    <3>1. c(1) \in TextChar /\ c(3) \in TextChar
      BY DEF TextChar
    <3> QED
      BY <3>1
  <2>2. Sending!Placeholder = <<a, b, b, a>>
    BY <2>1 DEF Sending!Placeholder, Sending!CharsOf, Sending!Char
  <2> HIDE DEF c
  <2>3. <<a, b, b, a>> \in Seq(TextChar)
    OBVIOUS
  <2> QED
    BY <2>1, <2>2, <2>3
<1>5. PICK n \in Nat \ {0} :
          /\ n = Len(text) /\ DOMAIN text = 1..n /\ DOMAIN text' = 1..(n + 4)
          /\ text' \in Seq(TextChar) /\ text' # <<>>
          /\ \A i \in 1..n : text'[i] = text[i]
          /\ \A i \in 1..4 : text'[n + i] = p[i]
  <2>1. text \in Seq(TextChar) /\ text # <<>> /\ text' = text \o p
    BY <1>3, <1>4 DEF SendingInv, SendTyped, Begun
  <2>2. /\ text \o p \in Seq(TextChar) /\ Len(text \o p) = Len(text) + Len(p)
        /\ \A i \in 1..(Len(text) + Len(p)) : (text \o p)[i] = IF i <= Len(text) THEN text[i] ELSE p[i - Len(text)]
    BY <2>1, ConcatProperties
  <2>3. PICK n \in Nat \ {0} : n = Len(text) /\ DOMAIN text = 1..n
    BY <2>1
  <2>4. \A i \in 1..4 : n + i \in 1..(n + 4) /\ ~(n + i <= n) /\ (n + i) - n = i
    OBVIOUS
  <2>5. \A i \in 1..n : i \in 1..(n + 4) /\ i <= n
    OBVIOUS
  <2>6. PICK t \in Seq(TextChar) :
            /\ t = text' /\ Len(t) = n + 4
            /\ \A i \in 1..(n + 4) : t[i] = IF i <= n THEN text[i] ELSE p[i - n]
    BY <1>4, <2>1, <2>2, <2>3
  <2>7. DOMAIN t = 1..(n + 4) /\ t # <<>>
    BY <2>6
  <2>8. (\A i \in 1..n : t[i] = text[i]) /\ (\A i \in 1..4 : t[n + i] = p[i])
    BY <2>4, <2>5, <2>6
  <2> QED
    BY <2>3, <2>6, <2>7, <2>8
<1>6. \A i \in 1..4 : /\ text'[n + i] \in TextChar /\ text'[n + i].part = "placeholder"
                      /\ text'[n + i].w = 3 <=> i \in {2, 3}
  BY <1>4, <1>5 DEF TextChar
<1>7. \A i \in 1..(n + 4) : i \in 1..n \/ (i - n \in 1..4 /\ n + (i - n) = i)
  OBVIOUS
<1> HIDE DEF c
<1>8. Begun(text')
  <2>1. Begun(text)
    BY DEF SendingInv, SendTyped
  <2>2. text'[1] = text[1]
    BY <1>5
  <2>3. \A i \in 1..(n + 4) : text'[i].part # "dots"
    BY <1>5, <1>6, <1>7, <2>1 DEF Begun, Sending!Whole
  <2> QED
    BY <1>5, <2>1, <2>2, <2>3 DEF Begun, Sending!Whole
<1>9. SendTyped'
  BY <1>2, <1>3, <1>8 DEF SendingInv, SendTyped
<1>10. FilesTraced'
  <2>1. \A k \in 1..looked' : k \in 1..looked \/ k \in missing'
    BY <1>2, <1>3
  <2>2. \A k \in 1..looked : k \in 1..looked'
    BY <1>2
  <2> QED
    BY <1>2, <1>3, <2>1, <2>2 DEF SendingInv, FilesTraced, PostShows
<1>11. PostsOrdered' /\ Settled'
  BY <1>2, <1>3 DEF PostsOrdered, Settled
<1>12. Placed'
  <2>1. Sending!Failed' = Sending!Failed \cup {looked + 1} /\ looked + 1 \notin Sending!Failed
    <3>1. looked + 1 \notin 1..looked /\ 1..looked' = (1..looked) \cup {looked + 1}
      BY <1>2
    <3>2. ~\E i \in DOMAIN files : files[i].of = looked + 1
      BY <3>1 DEF SendingInv, FilesTraced
    <3> QED
      BY <1>3, <3>1, <3>2 DEF Sending!Failed
  <2>2. Wide(text') = (Wide(text) \cup {n + 2}) \cup {n + 3} /\ n + 2 \notin Wide(text)
        /\ n + 3 \notin Wide(text) \cup {n + 2}
    <3>1. n + 2 \notin 1..n /\ n + 3 \notin 1..n /\ n + 3 # n + 2
      OBVIOUS
    <3>2. \A i \in 1..(n + 4) : i \in Wide(text') <=> i \in Wide(text) \/ i \in {n + 2, n + 3}
      <4> SUFFICES ASSUME NEW i \in 1..(n + 4)
                   PROVE  i \in Wide(text') <=> i \in Wide(text) \/ i \in {n + 2, n + 3}
        OBVIOUS
      <4>1. CASE i \in 1..n
        BY <1>5, <3>1, <4>1 DEF Wide
      <4>2. CASE i \notin 1..n
        <5>1. PICK j \in 1..4 : i = n + j
          BY <1>7, <4>2
        <5>2. j \in {2, 3} <=> i \in {n + 2, n + 3}
          BY <5>1
        <5> QED
          BY <1>5, <1>6, <4>2, <5>1, <5>2 DEF Wide
      <4> QED
        BY <4>1, <4>2
    <3>3. Wide(text') \subseteq 1..(n + 4) /\ Wide(text) \subseteq 1..n /\ 1..n \subseteq 1..(n + 4)
          /\ n + 2 \in 1..(n + 4) /\ n + 3 \in 1..(n + 4)
      BY <1>5 DEF Wide
    <3> QED
      BY <3>1, <3>2, <3>3
  <2>3. /\ IsFiniteSet(Wide(text)) /\ IsFiniteSet(Sending!Failed)
        /\ Cardinality(Wide(text)) = 2 * Cardinality(Sending!Failed)
    BY <1>2 DEF SendingInv, Placed
  <2>4. /\ IsFiniteSet(Sending!Failed') /\ Cardinality(Sending!Failed') = Cardinality(Sending!Failed) + 1
        /\ Cardinality(Sending!Failed) \in Nat
    BY <2>1, <2>3, FS_AddElement, FS_CardinalityType
  <2>5. PICK W : W = Wide(text) \cup {n + 2}
    OBVIOUS
  <2>6. IsFiniteSet(W) /\ Cardinality(W) = Cardinality(Wide(text)) + 1 /\ Cardinality(Wide(text)) \in Nat
    BY <2>2, <2>3, <2>5, FS_AddElement, FS_CardinalityType
  <2>7. IsFiniteSet(Wide(text')) /\ Cardinality(Wide(text')) = Cardinality(W) + 1
    <3>1. Wide(text') = W \cup {n + 3} /\ n + 3 \notin W
      BY <2>2, <2>5
    <3>2. IsFiniteSet(W \cup {n + 3}) /\ Cardinality(W \cup {n + 3}) = Cardinality(W) + 1
      BY <2>6, <3>1, FS_AddElement
    <3> QED
      BY <3>1, <3>2
  <2>8. Cardinality(Wide(text')) = 2 * Cardinality(Sending!Failed')
    BY <2>3, <2>4, <2>6, <2>7
  <2>9. Wide(text)' = Wide(text')
    BY DEF Wide
  <2> QED
    BY <2>4, <2>7, <2>8, <2>9 DEF Placed
<1> QED
  BY <1>9, <1>10, <1>11, <1>12 DEF SendingInv

(* One message with everything, or an album. *)
LEMMA AcceptedPosts ==
    ASSUME Sending!SendersAssumption, SendingInv, Sending!Accepted
    PROVE  SendingInv'
<1>1. /\ result = "open" /\ looked = Len(atts) /\ sender # "Matrix" /\ posted = <<>>
      /\ result' = "sent" /\ UNCHANGED <<sender, atts, text, files, missing, looked>>
  BY DEF Sending!Accepted, Sending!Posting, SendingInv, Settled
<1>2. files \in Seq(PlainFile) /\ Begun(text)
  BY DEF SendingInv, SendTyped
<1>3. Sending!FinalText \in Seq(TextChar)
  BY <1>2, FinalTextRight
<1>4. PICK n \in Nat : n = Len(files) /\ DOMAIN files = 1..n /\ \A i \in 1..n : files[i] \in PlainFile
  BY <1>2
<1>5. \A k \in 1..n : files[k] \in PlainFile /\ <<files[k]>> \in Seq(PlainFile)
                      /\ Len(<<files[k]>>) = 1 /\ <<files[k]>>[1] = files[k]
  BY <1>4
<1>6. CASE sender = "Telegram" /\ Len(files) > 1
  <2>1. posted' = Sending!Album
    BY <1>6 DEF Sending!Accepted
  <2>2. DOMAIN posted' = 1..n /\ n > 1
        /\ \A k \in 1..n : posted'[k] = [text |-> IF k = 1 THEN Sending!FinalText ELSE <<>>, files |-> <<files[k]>>]
    BY <1>4, <1>6, <2>1 DEF Sending!Album, Sending!First, Sending!Later, Sending!Post
  <2>3. posted' \in Seq(AnyPost) /\ posted' # <<>>
    <3>1. posted' = [k \in 1..n |-> posted'[k]]
      BY <1>4, <2>1, <2>2 DEF Sending!Album
    <3>2. \A k \in 1..n : posted'[k] \in AnyPost
      <4> SUFFICES ASSUME NEW k \in 1..n PROVE posted'[k] \in AnyPost
        OBVIOUS
      <4>1. PICK t \in Seq(TextChar), fs \in Seq(PlainFile) :
                posted'[k] = [text |-> t, files |-> fs]
        <5>1. <<>> \in Seq(TextChar)
          BY EmptySeq
        <5> QED
          BY <1>3, <1>5, <2>2, <5>1
      <4> QED
        BY <4>1 DEF AnyPost
    <3>3. posted' \in [1..n -> AnyPost] /\ 1 \in DOMAIN posted'
      BY <2>2, <3>1, <3>2
    <3> QED
      BY <3>3
  <2>4. SendTyped'
    BY <1>1, <2>3 DEF SendingInv, SendTyped
  <2>6. \A m \in 1..looked : m \in missing' \/ PostShows(m)'
    <3> SUFFICES ASSUME NEW m \in 1..looked, m \notin missing PROVE PostShows(m)'
      BY <1>1
    <3>1. ~PostShows(m)
      BY <1>1 DEF PostShows
    <3>2. PICK k \in 1..n : files[k] = [of |-> m, image |-> TRUE]
      BY <1>4, <3>1 DEF SendingInv, FilesTraced, Sending!Shows
    <3>3. posted'[k].files = <<files[k]>> /\ k \in DOMAIN posted'
      BY <2>2
    <3>4. 1 \in DOMAIN <<files[k]>> /\ <<files[k]>>[1] = [of |-> m, image |-> TRUE]
      BY <3>2
    <3>5. Sending!Shows(posted'[k].files, m)
      BY <3>3, <3>4 DEF Sending!Shows
    <3> QED
      BY <3>3, <3>5 DEF PostShows
  <2>7. FilesTraced' /\ Settled' /\ Placed'
    BY <1>1, <2>3, <2>6 DEF SendingInv, FilesTraced, Settled, Placed
  <2>8. PostsOrdered'
    <3>1. \A k \in 1..n : DOMAIN posted'[k].files = {1} /\ posted'[k].files[1] = files[k]
      BY <2>2
    <3>2. \A k \in 1..n : Rising(posted'[k].files)
      BY <3>1 DEF Rising
    <3>3. \A k, l \in 1..n : k < l => Before(posted'[k].files, posted'[l].files)
      BY <1>4, <3>1 DEF SendingInv, FilesTraced, Rising, Before
    <3>4. Sending!FinalText' = Sending!FinalText
      BY <1>1 DEF Sending!FinalText
    <3> QED
      BY <1>1, <2>2, <3>2, <3>3, <3>4 DEF PostsOrdered
  <2> QED
    BY <2>4, <2>7, <2>8 DEF SendingInv
<1>7. CASE ~(sender = "Telegram" /\ Len(files) > 1)
  <2> DEFINE p == [text |-> Sending!FinalText, files |-> files]
  <2>1. posted' = <<p>> /\ p.text = Sending!FinalText /\ p.files = files
    BY <1>7 DEF Sending!Accepted, Sending!Post
  <2>2. p \in AnyPost
    BY <1>2, <1>3 DEF AnyPost
  <2> HIDE DEF p
  <2>3. posted' \in Seq(AnyPost) /\ posted' # <<>> /\ DOMAIN posted' = {1} /\ posted'[1] = p
    BY <2>1, <2>2
  <2>4. SendTyped'
    BY <1>1, <2>3 DEF SendingInv, SendTyped
  <2>5. \A m \in 1..looked : m \in missing' \/ PostShows(m)'
    <3>1. \A m : ~PostShows(m)
      BY <1>1 DEF PostShows
    <3> QED
      BY <1>1, <2>1, <2>3, <3>1 DEF SendingInv, FilesTraced, PostShows
  <2>6. FilesTraced' /\ Settled' /\ Placed'
    BY <1>1, <2>3, <2>5 DEF SendingInv, FilesTraced, Settled, Placed
  <2>7. PostsOrdered'
    <3>1. Rising(files)
      BY DEF SendingInv, FilesTraced
    <3>2. Sending!FinalText' = Sending!FinalText
      BY <1>1 DEF Sending!FinalText
    <3> QED
      BY <1>1, <2>1, <2>3, <3>1, <3>2 DEF PostsOrdered
  <2> QED
    BY <2>4, <2>6, <2>7 DEF SendingInv
<1> QED
  BY <1>6, <1>7

LEMMA TailOf ==
    ASSUME NEW X, NEW s \in Seq(X), s # <<>>, NEW n \in Nat, n = Len(s), NEW t, t = Tail(s)
    PROVE  /\ t \in Seq(X) /\ DOMAIN t = 1..(n - 1) /\ Len(t) = n - 1
           /\ \A i \in 1..(n - 1) : t[i] = s[i + 1]
<1>1. /\ Tail(s) \in Seq(X) /\ Len(Tail(s)) = Len(s) - 1
      /\ \A i \in 1..Len(Tail(s)) : Tail(s)[i] = s[i + 1]
  BY HeadTailProperties
<1>2. t \in Seq(X) /\ Len(t) = n - 1 /\ \A i \in 1..(n - 1) : t[i] = s[i + 1]
  BY <1>1
<1>3. DOMAIN t = 1..(n - 1)
  BY <1>2
<1> QED
  BY <1>2, <1>3

LEMMA MatrixPosts ==
    ASSUME Sending!SendersAssumption, SendingInv, Sending!MatrixEvent
    PROVE  SendingInv'
<1>1. /\ result = "open" /\ looked = Len(atts) /\ sender = "Matrix"
      /\ UNCHANGED <<sender, atts, text, missing, looked>>
  BY DEF Sending!MatrixEvent, Sending!Posting
<1>2. files \in Seq(PlainFile) /\ Begun(text) /\ posted \in Seq(AnyPost)
  BY DEF SendingInv, SendTyped
<1>3. Sending!FinalText \in Seq(TextChar) /\ Sending!FinalText' = Sending!FinalText
  BY <1>1, <1>2, FinalTextRight DEF Sending!FinalText
<1>4. PICK n \in Nat : n = Len(files) /\ DOMAIN files = 1..n /\ \A i \in 1..n : files[i] \in PlainFile
  BY <1>2
<1>5. PICK m \in Nat : m = Len(posted) /\ DOMAIN posted = 1..m
  BY <1>2
<1> DEFINE t == IF m = 0 THEN Sending!FinalText ELSE <<>>
           fs == IF files = <<>> THEN <<>> ELSE <<files[1]>>
           p == [text |-> t, files |-> fs]
<1>6. t \in Seq(TextChar) /\ fs \in Seq(PlainFile)
  <2>1. <<>> \in Seq(TextChar) /\ <<>> \in Seq(PlainFile)
    BY EmptySeq
  <2>2. CASE files = <<>>
    BY <1>3, <2>1, <2>2
  <2>3. CASE files # <<>>
    <3>1. files[1] \in PlainFile
      BY <1>2, <2>3
    <3>2. <<files[1]>> \in Seq(PlainFile)
      BY <3>1
    <3> QED
      BY <1>3, <2>1, <2>3, <3>2
  <2> QED
    BY <2>2, <2>3
<1>7. p \in AnyPost /\ p.text = t /\ p.files = fs
  <2> HIDE DEF t, fs
  <2> QED
    BY <1>6 DEF AnyPost
<1>8. posted' = Append(posted, p)
  <2>1. posted = <<>> <=> m = 0
    BY <1>2, <1>5
  <2>2. CASE m = 0
    BY <2>1, <2>2 DEF Sending!MatrixEvent, Sending!First, Sending!Post
  <2>3. CASE m # 0
    <3>1. files # <<>>
      BY <1>1, <2>1, <2>3 DEF SendingInv, Settled
    <3> QED
      BY <2>1, <2>3, <3>1 DEF Sending!MatrixEvent, Sending!Later, Sending!Post
  <2> QED
    BY <2>2, <2>3
<1> HIDE DEF p
<1>9. /\ posted' \in Seq(AnyPost) /\ posted' # <<>> /\ DOMAIN posted' = 1..(m + 1)
      /\ \A k \in 1..m : posted'[k] = posted[k]
      /\ posted'[m + 1] = p
  <2>1. /\ Append(posted, p) \in Seq(AnyPost) /\ Append(posted, p) # <<>>
        /\ Len(Append(posted, p)) = Len(posted) + 1
        /\ \A k \in 1..Len(posted) : Append(posted, p)[k] = posted[k]
        /\ Append(posted, p)[Len(posted) + 1] = p
    BY <1>2, <1>7, AppendProperties
  <2>2. Len(posted') = m + 1 /\ posted' \in Seq(AnyPost)
    BY <1>5, <1>8, <2>1
  <2> QED
    BY <1>5, <1>8, <2>1, <2>2
<1>10. \A k \in 1..(m + 1) : k \in 1..m \/ k = m + 1
  OBVIOUS
<1>11. \A k \in 1..m : k \in 1..(m + 1) /\ k # m + 1 /\ k < m + 1
  OBVIOUS
<1>12. m + 1 \in 1..(m + 1)
  OBVIOUS
<1>13. CASE files = <<>>
  <2>1. m = 0 /\ posted = <<>> /\ fs = <<>> /\ p.files = <<>> /\ p.text = Sending!FinalText
    BY <1>1, <1>2, <1>5, <1>7, <1>13 DEF SendingInv, Settled
  <2>2. files' = <<>> /\ result' = "sent"
    BY <1>13 DEF Sending!MatrixEvent
  <2>3. DOMAIN posted' = {1} /\ posted'[1] = p
    BY <1>9, <2>1
  <2>4. SendTyped'
    BY <1>1, <1>9, <1>13, <2>2 DEF SendingInv, SendTyped
  <2>5. ASSUME NEW k \in 1..looked PROVE k \in missing
    BY <1>13, <2>1 DEF SendingInv, FilesTraced, PostShows, Sending!Shows
  <2>6. FilesTraced' /\ Settled' /\ Placed'
    BY <1>1, <1>9, <1>13, <2>2, <2>5 DEF SendingInv, FilesTraced, Settled, Placed
  <2>7. PostsOrdered'
    BY <1>3, <2>1, <2>2, <2>3 DEF PostsOrdered, Rising
  <2> QED
    BY <2>4, <2>6, <2>7 DEF SendingInv
<1>14. CASE files # <<>>
  <2>1. p.files = <<files[1]>> /\ n >= 1
    BY <1>2, <1>4, <1>7, <1>14
  <2>2. files' = Tail(files) /\ result' = IF n <= 1 THEN "sent" ELSE "open"
    BY <1>4, <1>14 DEF Sending!MatrixEvent
  <2>3. /\ files' \in Seq(PlainFile) /\ DOMAIN files' = 1..(n - 1) /\ Len(files') = n - 1
        /\ \A i \in 1..(n - 1) : files'[i] = files[i + 1]
    BY <1>2, <1>4, <1>14, <2>2, TailOf
  <2>4. \A i \in 1..(n - 1) : i + 1 \in 1..n /\ 1 < i + 1
    BY <2>1
  <2>5. \A i \in 1..n : i = 1 \/ (i - 1 \in 1..(n - 1) /\ (i - 1) + 1 = i)
    OBVIOUS
  <2>6. 1 \in 1..n /\ DOMAIN p.files = {1} /\ p.files[1] = files[1]
    BY <2>1
  <2>7. SendTyped'
    BY <1>1, <1>9, <2>2, <2>3 DEF SendingInv, SendTyped
  <2>8. ASSUME NEW k \in 1..looked PROVE k \in missing' \/ Sending!Shows(files', k) \/ PostShows(k)'
    <3>1. CASE PostShows(k)
      <4>1. PICK l \in 1..m : Sending!Shows(posted[l].files, k)
        BY <1>5, <3>1 DEF PostShows
      <4>2. l \in DOMAIN posted' /\ posted'[l] = posted[l]
        BY <1>9, <1>11
      <4> QED
        BY <4>1, <4>2 DEF PostShows
    <3>2. CASE Sending!Shows(files, k)
      <4>1. PICK i \in 1..n : files[i] = [of |-> k, image |-> TRUE]
        BY <1>4, <3>2 DEF Sending!Shows
      <4>2. CASE i = 1
        <5>1. Sending!Shows(p.files, k)
          BY <2>6, <4>1, <4>2 DEF Sending!Shows
        <5>2. m + 1 \in DOMAIN posted' /\ posted'[m + 1] = p
          BY <1>9, <1>12
        <5> QED
          BY <5>1, <5>2 DEF PostShows
      <4>3. CASE i # 1
        <5>1. i - 1 \in DOMAIN files' /\ files'[i - 1] = files[i]
          BY <2>3, <2>5, <4>3
        <5> QED
          BY <4>1, <5>1 DEF Sending!Shows
      <4> QED
        BY <4>2, <4>3
    <3> QED
      BY <1>1, <3>1, <3>2 DEF SendingInv, FilesTraced
  <2>9. FilesTraced'
    <3>1. \A i \in DOMAIN files' : files'[i].of \in 1..looked' /\ (files'[i].image \/ files'[i].of \in missing')
      BY <1>1, <1>4, <2>3, <2>4 DEF SendingInv, FilesTraced
    <3>2. Rising(files')
      <4> SUFFICES ASSUME NEW i \in 1..(n - 1), NEW j \in 1..(n - 1), i < j
                   PROVE  files'[i].of < files'[j].of
        BY <2>3 DEF Rising
      <4>1. i + 1 \in 1..n /\ j + 1 \in 1..n /\ i + 1 < j + 1
        BY <2>4
      <4> QED
        BY <1>4, <2>3, <4>1 DEF SendingInv, FilesTraced, Rising
    <3> QED
      BY <1>1, <2>8, <3>1, <3>2 DEF FilesTraced
  <2>10. Settled'
    <3>1. CASE n = 1
      <4>1. \A k : ~Sending!Shows(files', k)
        BY <2>3, <3>1 DEF Sending!Shows
      <4>2. result' = "sent"
        BY <2>2, <3>1
      <4> QED
        BY <1>1, <1>9, <2>8, <4>1, <4>2 DEF Settled
    <3>2. CASE n # 1
      <4>1. result' = "open" /\ files' # <<>>
        BY <2>1, <2>2, <2>3, <3>2
      <4> QED
        BY <1>1, <4>1 DEF Settled
    <3> QED
      BY <3>1, <3>2
  <2>11. Placed'
    BY <1>9 DEF Placed
  <2>12. PostsOrdered'
    <3>1. \A k \in 1..(m + 1) : Rising(posted'[k].files)
      <4>1. Rising(p.files)
        BY <2>6 DEF Rising
      <4> QED
        BY <1>5, <1>9, <1>10, <4>1 DEF SendingInv, PostsOrdered
    <3>2. ASSUME NEW k \in 1..m PROVE Before(posted[k].files, p.files) /\ Before(posted[k].files, files')
      <4>1. Before(posted[k].files, files)
        BY <1>1, <1>5 DEF SendingInv, PostsOrdered
      <4> QED
        BY <1>4, <2>3, <2>4, <2>6, <4>1 DEF Before
    <3>3. \A k, l \in 1..(m + 1) : k < l => Before(posted'[k].files, posted'[l].files)
      <4> SUFFICES ASSUME NEW k \in 1..(m + 1), NEW l \in 1..(m + 1), k < l
                   PROVE  Before(posted'[k].files, posted'[l].files)
        OBVIOUS
      <4>1. k \in 1..m
        OBVIOUS
      <4>2. CASE l = m + 1
        BY <1>9, <3>2, <4>1, <4>2
      <4>3. CASE l # m + 1
        <5>1. l \in 1..m
          BY <4>3
        <5> QED
          BY <1>5, <1>9, <4>1, <5>1 DEF SendingInv, PostsOrdered
      <4> QED
        BY <4>2, <4>3
    <3>4. \A k \in 1..(m + 1) : posted'[k].text = IF k = 1 THEN Sending!FinalText ELSE <<>>
      <4>1. p.text = IF m + 1 = 1 THEN Sending!FinalText ELSE <<>>
        BY <1>7
      <4>2. \A k \in 1..m : posted[k].text = IF k = 1 THEN Sending!FinalText ELSE <<>>
        BY <1>5 DEF SendingInv, PostsOrdered
      <4> HIDE DEF t, fs
      <4> QED
        BY <1>9, <1>10, <4>1, <4>2
    <3>5. \A k \in 1..(m + 1) : Before(posted'[k].files, files')
      <4>1. Before(p.files, files')
        BY <1>4, <2>3, <2>4, <2>6 DEF Before, SendingInv, FilesTraced, Rising
      <4> QED
        BY <1>9, <1>10, <3>2, <4>1
    <3> QED
      BY <1>3, <1>9, <3>1, <3>3, <3>4, <3>5 DEF PostsOrdered
  <2> QED
    BY <2>7, <2>9, <2>10, <2>11, <2>12 DEF SendingInv
<1> QED
  BY <1>13, <1>14

LEMMA MatrixPassesOver ==
    ASSUME SendingInv, Sending!MatrixSkips
    PROVE  SendingInv'
<1>1. /\ result = "open" /\ looked = Len(atts) /\ sender = "Matrix" /\ posted # <<>>
      /\ UNCHANGED <<sender, atts, text, looked, posted>>
      /\ files' = Tail(files) /\ missing' = missing \cup {files[1].of}
      /\ result' = IF Len(files) = 1 THEN "sent" ELSE "open"
  BY DEF Sending!MatrixSkips, Sending!Posting
<1>2. files \in Seq(PlainFile) /\ files # <<>>
  BY <1>1 DEF SendingInv, SendTyped, Settled
<1>3. PICK n \in Nat \ {0} : n = Len(files) /\ DOMAIN files = 1..n /\ \A i \in 1..n : files[i] \in PlainFile
  BY <1>2
<1>4. /\ files' \in Seq(PlainFile) /\ DOMAIN files' = 1..(n - 1) /\ Len(files') = n - 1
      /\ \A i \in 1..(n - 1) : files'[i] = files[i + 1]
  BY <1>1, <1>2, <1>3, TailOf
<1>5. \A i \in 1..(n - 1) : i + 1 \in 1..n
  OBVIOUS
<1>6. \A i \in 1..n : i = 1 \/ (i - 1 \in 1..(n - 1) /\ (i - 1) + 1 = i)
  OBVIOUS
<1>7. files[1].of \in 1..looked
  BY <1>3 DEF SendingInv, FilesTraced
<1>8. SendTyped'
  BY <1>1, <1>4, <1>7 DEF SendingInv, SendTyped
<1>9. ASSUME NEW k \in 1..looked PROVE k \in missing' \/ Sending!Shows(files', k) \/ PostShows(k)'
  <2>1. PostShows(k)' <=> PostShows(k)
    BY <1>1 DEF PostShows
  <2>2. CASE Sending!Shows(files, k)
    <3>1. PICK i \in 1..n : files[i] = [of |-> k, image |-> TRUE]
      BY <1>3, <2>2 DEF Sending!Shows
    <3>2. CASE i = 1
      BY <1>1, <3>1, <3>2
    <3>3. CASE i # 1
      <4>1. i - 1 \in DOMAIN files' /\ files'[i - 1] = files[i]
        BY <1>4, <1>6, <3>3
      <4> QED
        BY <3>1, <4>1 DEF Sending!Shows
    <3> QED
      BY <3>2, <3>3
  <2> QED
    BY <1>1, <2>1, <2>2 DEF SendingInv, FilesTraced
<1>10. FilesTraced'
  <2>1. \A i \in DOMAIN files' : files'[i].of \in 1..looked' /\ (files'[i].image \/ files'[i].of \in missing')
    BY <1>1, <1>3, <1>4, <1>5 DEF SendingInv, FilesTraced
  <2>2. Rising(files')
    <3> SUFFICES ASSUME NEW i \in 1..(n - 1), NEW j \in 1..(n - 1), i < j
                 PROVE  files'[i].of < files'[j].of
      BY <1>4 DEF Rising
    <3>1. i + 1 \in 1..n /\ j + 1 \in 1..n /\ i + 1 < j + 1
      BY <1>5
    <3> QED
      BY <1>3, <1>4, <3>1 DEF SendingInv, FilesTraced, Rising
  <2> QED
    BY <1>1, <1>9, <2>1, <2>2 DEF FilesTraced
<1>11. Settled'
  <2>1. CASE n = 1
    <3>1. \A k : ~Sending!Shows(files', k)
      BY <1>4, <2>1 DEF Sending!Shows
    <3> QED
      BY <1>1, <1>3, <1>9, <2>1, <3>1 DEF Settled
  <2>2. CASE n # 1
    <3>1. result' = "open" /\ files' # <<>>
      <4>1. Len(files') # 0
        BY <1>4, <2>2
      <4> QED
        BY <1>1, <1>3, <2>2, <4>1
    <3> QED
      BY <1>1, <3>1 DEF Settled
  <2> QED
    BY <2>1, <2>2
<1>12. Placed'
  BY <1>1 DEF Placed
<1>13. PostsOrdered'
  <2>1. ASSUME NEW k \in DOMAIN posted PROVE Before(posted[k].files, files')
    <3>1. Before(posted[k].files, files)
      BY <1>1 DEF SendingInv, PostsOrdered
    <3> QED
      BY <1>3, <1>4, <1>5, <3>1 DEF Before
  <2>2. Sending!FinalText' = Sending!FinalText
    BY <1>1 DEF Sending!FinalText
  <2> QED
    BY <1>1, <2>1, <2>2 DEF SendingInv, PostsOrdered
<1> QED
  BY <1>8, <1>10, <1>11, <1>12, <1>13 DEF SendingInv

LEMMA SendingStep ==
    ASSUME Sending!SendersAssumption, SendingInv, [Sending!Next]_(Sending!vars)
    PROVE  SendingInv'
<1>1. CASE Sending!Got
  <2>1. /\ Sending!Looking({"data", "url"}) /\ files' = Sending!File(TRUE) /\ text' = text
        /\ missing' = missing
    BY <1>1 DEF Sending!Got
  <2> QED
    BY <2>1, FileTaken
<1>2. CASE Sending!GotErrorPage
  <2>1. /\ Sending!Looking({"data", "url"}) /\ files' = Sending!File(FALSE) /\ text' = text
        /\ missing' = missing \cup {looked + 1}
    BY <1>2 DEF Sending!GotErrorPage, Sending!Looking
  <2> QED
    BY <2>1, FileTaken
<1>3. CASE Sending!Refused
  <2>1. /\ posted = <<>> /\ result' = "error"
        /\ UNCHANGED <<sender, atts, text, files, missing, looked, posted>>
    BY <1>3 DEF Sending!Refused
  <2>2. SendTyped'
    BY <2>1 DEF SendingInv, SendTyped
  <2>3. FilesTraced' /\ Settled'
    BY <2>1 DEF SendingInv, FilesTraced, Settled, PostShows
  <2>4. PostsOrdered'
    BY <2>1 DEF SendingInv, PostsOrdered
  <2>5. Placed'
    BY <2>1 DEF SendingInv, Placed, Sending!Failed, Wide
  <2> QED
    BY <2>2, <2>3, <2>4, <2>5 DEF SendingInv
<1>4. CASE UNCHANGED Sending!vars
  <2>1. UNCHANGED <<sender, atts, text, files, missing, looked, posted, result>>
    BY <1>4 DEF Sending!vars
  <2> QED
    BY <2>1
       DEF SendingInv, SendTyped, FilesTraced, PostsOrdered, Placed, Settled, PostShows, Sending!Failed,
           Sending!FinalText, Wide
<1> QED
  BY <1>1, <1>2, <1>3, <1>4, PlaceholderPut, AcceptedPosts, MatrixPosts, MatrixPassesOver
     DEF Sending!Next

LEMMA SendingSafe == ASSUME Sending!SendersAssumption PROVE Sending!Spec => []SendingInv
BY SendingStarts, SendingStep, PTL DEF Sending!Spec

----------------------------------------------------------------------------
(***************************************************************************)
(* The behaviours of Parts, in which a part that does not run rests.       *)
(***************************************************************************)
LEMMA SocketRuns == Spec => OneBot!Spec
<1>1. Init => OneBot!Init
  BY DEF Init
<1>2. [Next]_vars => [OneBot!Next]_(OneBot!vars)
  BY DEF Next, Runs, vars, socketVars, OneBot!vars, OneBot!client, OneBot!socket, OneBot!napcat
<1> QED
  BY <1>1, <1>2, PTL DEF Spec, OneBot!Spec

LEMMA TransactionsRun == Spec => Transactions!Spec
<1>1. Init => Transactions!Init
  BY DEF Init
<1>2. [Next]_vars => [Transactions!Next]_(Transactions!vars)
  BY DEF Next, Runs, vars, transactionVars, Transactions!vars
<1> QED
  BY <1>1, <1>2, PTL DEF Spec, Transactions!Spec

LEMMA SendRun == Spec /\ chosen = "send" => Sending!Spec
<1>1. chosen = "send" /\ Init => Sending!Init
  BY DEF Init
<1>2. chosen = "send" /\ [Next]_vars => (chosen = "send")' /\ [Sending!Next]_(Sending!vars)
  BY DEF Next, Runs, vars, sendVars, Sending!vars
<1> QED
  BY <1>1, <1>2, PTL DEF Spec, Sending!Spec

LEMMA SendIdle == Spec /\ ~(chosen = "send") => []SendingRests
<1>1. ~(chosen = "send") /\ Init => SendingRests
  BY DEF Init
<1>2. ~(chosen = "send") /\ SendingRests /\ [Next]_vars => ~(chosen = "send")' /\ SendingRests'
  BY DEF Next, Runs, vars, sendVars, SendingRests
<1> QED
  BY <1>1, <1>2, PTL DEF Spec

(* The shapes of the socket's state, and which of its two tasks hold the   *)
(* runtime (handle_socket).                                                *)
THEOREM TypeInvariant == Spec => []OneBot!TypeInv
<1>1. OneBot!Spec => []OneBot!TypeInv
  BY PartAssumptions, SocketTyped
<1> QED
  BY <1>1, SocketRuns, PTL

(* Whoever waits is found by its answer, nobody gets the answer of another *)
(* call, and an answered call leaves no entry behind (Api::call and the    *)
(* dispatch in handle_socket).                                             *)
THEOREM AnswersFindCallers == Spec => []AnswersMatch
<1>1. OneBot!Spec => []OneBot!AnswersMatch
  BY PartAssumptions, SocketAnswers
<1> QED
  BY <1>1, SocketRuns, PTL DEF AnswersMatch

(* Api::call, send_group_msg and delete_msg give their callers what Calls  *)
(* says, with calls interleaved, answers late, lost or out of order, and a *)
(* socket that ends at any time: at most one effect, a result that names   *)
(* the call's own effect, a failure that says nothing about it.            *)
THEOREM CallsKept == Spec => KeepsPromise
<1>1. OneBot!Spec => OneBot!KeepsPromise
  BY PartAssumptions, SocketKeeps
<1> QED
  BY <1>1, SocketRuns, PTL DEF KeepsPromise

(* However many callers send at once, requests and answers are lost and    *)
(* the process starts again: within a run of the process the id a send     *)
(* returns is that of its own first event (TXN_COUNTER, send_message).     *)
THEOREM OwnEventReturned == Spec => []OwnEventInRun
<1>1. Transactions!Spec => []Transactions!OwnEventInRun
  BY PartAssumptions, TransactionsOwnEvent
<1> QED
  BY <1>1, TransactionsRun, PTL DEF OwnEventInRun

(* And a send that reports an error has left one event behind at most, for *)
(* any number of images: a later part's failure is not the send's.         *)
THEOREM OneLeftByError == Spec => []ErrorLeavesOne
<1>1. Transactions!Spec => []Transactions!ErrorLeavesOne
  BY PartAssumptions, TransactionsOneLeft
<1> QED
  BY <1>1, TransactionsRun, PTL DEF ErrorLeavesOne

(* A message arrives as it was meant, for every text, every number and     *)
(* order of attachments and every limit of Discord's: what was said stands *)
(* once, in the message whose id is returned, within the limit; images     *)
(* arrive once and in their order; and unless the text was cut, there is a *)
(* placeholder for each that was not to be had (the senders' four sends).  *)
THEOREM SentRight == Spec => []SentAsMeant
<1>1. SendingRests => Sending!SentAsMeant
  <2> SUFFICES ASSUME SendingRests PROVE Sending!SentAsMeant
    OBVIOUS
  <2>1. Sending!FinalText = <<>>
    <3>1. Sending!Bytes(<<>>) <= MaxBytes
      BY PartAssumptions, BytesNone DEF Sending!SendersAssumption
    <3> QED
      BY <3>1 DEF SendingRests, Sending!FinalText, Sending!Truncated
  <2>2. Sending!Failed = {}
    BY DEF SendingRests, Sending!Failed
  <2>3. Sending!Placeholders(<<>>) = Sending!Cardinality({}) \div 2
    <3>1. {i \in DOMAIN <<>> : <<>>[i].part = "placeholder" /\ <<>>[i].w = 3} = {}
      OBVIOUS
    <3> QED
      BY <3>1 DEF Sending!Placeholders
  <2>4. Sending!Cardinality({}) = 0
    <3>1. Sending!Cardinality({}) = Cardinality({})
      BY DEF Sending!Cardinality, Cardinality
    <3> QED
      BY <3>1, FS_EmptySet
  <2>5. 0 \div 2 = 0
    OBVIOUS
  <2>6. Sending!PlaceholderUnlessCut
    BY <2>1, <2>2, <2>3, <2>4, <2>5 DEF Sending!PlaceholderUnlessCut
  <2> QED
    BY <2>6 DEF SendingRests, Sending!SentAsMeant, Sending!OneText, Sending!Sent,
         Sending!ImagesInOrder, Sending!WithinLimit
<1>2. Sending!Spec => []Sending!SentAsMeant
  <2>1. SendingInv => Sending!SentAsMeant
    BY PartAssumptions, SendingMeant
  <2>2. Sending!Spec => []SendingInv
    BY PartAssumptions, SendingSafe
  <2> QED
    BY <2>1, <2>2, PTL
<1> QED
  BY <1>1, <1>2, SendRun, SendIdle, PTL DEF SentAsMeant
=============================================================================
