-------------------------- MODULE ServerLinkProofs --------------------------
(***************************************************************************)
(* An answered request was acted upon, and no result is duplicated,        *)
(* overtaken or lost without being counted, for any number of kinds,       *)
(* requests, results, losses, and any size of the queue.                   *)
(***************************************************************************)
EXTENDS ServerLink, FiniteSetTheorems, SequenceTheorems, TLAPS

(* The place of the main loop and the datagram it looks at.                *)
Looking ==
  /\ statue = "RECV" => recv_buf \in Request
  /\ pc \in {"handle", "ok"} => statue = "RECV"
  /\ pc = "handle" => recv_buf.kind = cmd
  /\ pc = "handle" => cmd \in Kind

Sound == TypeOK /\ Looking

(* A sequence of datagrams has one of kind k, and no more than one.        *)
Has(s, k)  == \E n \in DOMAIN s : s[n].kind = k
Once(s, k) == \A m, n \in DOMAIN s : s[m].kind = k /\ s[n].kind = k => m = n

(* The same of a sequence of kinds.                                        *)
HasKind(s, k)  == \E n \in DOMAIN s : s[n] = k
OnceKind(s, k) == \A m, n \in DOMAIN s : s[m] = k /\ s[n] = k => m = n

Held(k)     == statue = "RECV" /\ recv_buf.kind = k /\ pc # "ok"
Buffered(k) == send_en /\ send_buf.kind = k

(* A request of kind k, or its answer, is in one place at most.            *)
Single(k) ==
  /\ Once(downward, k) /\ OnceKind(msgSendQueue, k) /\ Once(upward, k)
  /\ Held(k) => ~Has(downward, k)
  /\ HasKind(msgSendQueue, k) => ~Has(downward, k) /\ ~Held(k)
  /\ Buffered(k) => /\ ~Has(downward, k) /\ ~Held(k)
                    /\ ~HasKind(msgSendQueue, k)
  /\ Has(upward, k) => /\ ~Has(downward, k) /\ ~Held(k)
                       /\ ~HasKind(msgSendQueue, k) /\ ~Buffered(k)

(* A request under way is the current one, and an answer under way is to   *)
(* the current one, which was acted upon.                                  *)
Rightful(k) ==
  /\ \A n \in DOMAIN downward : downward[n].kind = k => downward[n] = Current(k)
  /\ Held(k) => recv_buf = Current(k)
  /\ HasKind(msgSendQueue, k) \/ Buffered(k) \/ Has(upward, k)
       => Asks(k) /\ Current(k) \in handled

(* The earlier ones were acted upon.                                       *)
Past(k) ==
  \A r \in Request : r.kind = k /\ r.no < asked[k] => r \in handled

Tidy(k) == Single(k) /\ Rightful(k) /\ Past(k)

Orderly == ~hasty => \A k \in Kind : Tidy(k)
-----------------------------------------------------------------------------
(* The constants are numbers, and no kind of request is called as a result *)
(* or as no request.                                                       *)
LEMMA Numbered ==
  /\ MaxRequests \in Nat /\ MaxRequests > 0 /\ MaxResults \in Nat
  /\ QueueMax \in Nat /\ QueueMax > 0 /\ MaxFaults \in Nat /\ MaxEarly \in Nat
  /\ Result \notin Kind /\ Nothing.kind \notin Kind /\ Nothing.kind # Result
BY LinkAssumption DEF Result, Nothing

(* What the first of some datagrams has to do with the others.             *)
LEMMA TailIs ==
  ASSUME NEW S, NEW s \in Seq(S), s # <<>>
  PROVE  /\ Head(s) \in S /\ Tail(s) \in Seq(S)
         /\ 1 \in DOMAIN s /\ Head(s) = s[1]
         /\ \A n \in DOMAIN Tail(s) : n + 1 \in DOMAIN s /\ Tail(s)[n] = s[n + 1]
         /\ \A n \in DOMAIN Tail(s) : n \in Nat /\ n > 0
<1>1. Len(s) \in Nat /\ Len(s) > 0 /\ DOMAIN s = 1 .. Len(s)
  BY EmptySeq
<1>2. Tail(s) \in Seq(S) /\ DOMAIN Tail(s) = 1 .. Len(s) - 1
      /\ \A n \in 1 .. Len(s) - 1 : Tail(s)[n] = s[n + 1]
  BY <1>1
<1>3. Head(s) = s[1] /\ s[1] \in S
  BY <1>1
<1> QED
  BY <1>1, <1>2, <1>3

LEMMA AppendIs ==
  ASSUME NEW S, NEW s \in Seq(S), NEW x \in S
  PROVE  /\ Append(s, x) \in Seq(S) /\ Len(Append(s, x)) = Len(s) + 1
         /\ DOMAIN s = 1 .. Len(s) /\ Len(s) \in Nat
         /\ DOMAIN Append(s, x) = 1 .. Len(s) + 1
         /\ \A n \in DOMAIN s : Append(s, x)[n] = s[n]
         /\ Append(s, x)[Len(s) + 1] = x
OBVIOUS

LEMMA TailHas ==
  ASSUME NEW S, NEW s \in Seq(S), s # <<>>, NEW k
  PROVE  /\ Has(Tail(s), k) => Has(s, k)
         /\ Head(s).kind = k => Has(s, k)
         /\ Once(s, k) => Once(Tail(s), k)
         /\ Once(s, k) /\ Head(s).kind = k => ~Has(Tail(s), k)
<1>1. Has(Tail(s), k) => Has(s, k)
  BY TailIs DEF Has
<1>2. Head(s).kind = k => Has(s, k)
  BY TailIs DEF Has
<1>3. Once(s, k) => Once(Tail(s), k)
  BY TailIs DEF Once
<1>4. Once(s, k) /\ Head(s).kind = k => ~Has(Tail(s), k)
  BY TailIs DEF Once, Has
<1> QED
  BY <1>1, <1>2, <1>3, <1>4

LEMMA AppendHas ==
  ASSUME NEW S, NEW s \in Seq(S), NEW x \in S, NEW k
  PROVE  /\ Has(Append(s, x), k) <=> Has(s, k) \/ x.kind = k
         /\ Once(s, k) /\ (x.kind = k => ~Has(s, k)) => Once(Append(s, x), k)
<1> DEFINE t == Append(s, x)
<1>1. /\ DOMAIN s = 1 .. Len(s) /\ Len(s) \in Nat
      /\ DOMAIN t = 1 .. Len(s) + 1
      /\ \A n \in DOMAIN s : t[n] = s[n]
      /\ t[Len(s) + 1] = x
  BY AppendIs
<1> HIDE DEF t
<1>2. Has(t, k) <=> Has(s, k) \/ x.kind = k
  BY <1>1 DEF Has
<1>3. Once(s, k) /\ (x.kind = k => ~Has(s, k)) => Once(t, k)
  BY <1>1 DEF Once, Has
<1> QED
  BY <1>2, <1>3 DEF t

LEMMA TailHasKind ==
  ASSUME NEW S, NEW s \in Seq(S), s # <<>>, NEW k
  PROVE  /\ HasKind(Tail(s), k) => HasKind(s, k)
         /\ Head(s) = k => HasKind(s, k)
         /\ OnceKind(s, k) => OnceKind(Tail(s), k)
         /\ OnceKind(s, k) /\ Head(s) = k => ~HasKind(Tail(s), k)
<1>1. HasKind(Tail(s), k) => HasKind(s, k)
  BY TailIs DEF HasKind
<1>2. Head(s) = k => HasKind(s, k)
  BY TailIs DEF HasKind
<1>3. OnceKind(s, k) => OnceKind(Tail(s), k)
  BY TailIs DEF OnceKind
<1>4. OnceKind(s, k) /\ Head(s) = k => ~HasKind(Tail(s), k)
  BY TailIs DEF OnceKind, HasKind
<1> QED
  BY <1>1, <1>2, <1>3, <1>4

LEMMA AppendHasKind ==
  ASSUME NEW S, NEW s \in Seq(S), NEW x \in S, NEW k
  PROVE  /\ HasKind(Append(s, x), k) <=> HasKind(s, k) \/ x = k
         /\ OnceKind(s, k) /\ (x = k => ~HasKind(s, k))
              => OnceKind(Append(s, x), k)
<1> DEFINE t == Append(s, x)
<1>1. /\ DOMAIN s = 1 .. Len(s) /\ Len(s) \in Nat
      /\ DOMAIN t = 1 .. Len(s) + 1
      /\ \A n \in DOMAIN s : t[n] = s[n]
      /\ t[Len(s) + 1] = x
  BY AppendIs
<1> HIDE DEF t
<1>2. HasKind(t, k) <=> HasKind(s, k) \/ x = k
  BY <1>1 DEF HasKind
<1>3. OnceKind(s, k) /\ (x = k => ~HasKind(s, k)) => OnceKind(t, k)
  BY <1>1 DEF OnceKind, HasKind
<1> QED
  BY <1>2, <1>3 DEF t

(* The queue takes a message if it has room.                               *)
LEMMA QueueIs ==
  ASSUME NEW S, NEW q \in Seq(S), Len(q) <= QueueMax, NEW x \in S
  PROVE  /\ AddSendMsgToQueue(q, x) \in Seq(S)
         /\ Len(AddSendMsgToQueue(q, x)) <= QueueMax
         /\ AddSendMsgToQueue(q, x) \in {q, Append(q, x)}
BY AppendIs, Numbered DEF AddSendMsgToQueue
-----------------------------------------------------------------------------
(* Types, and where the main loop is.                                      *)

(* What a datagram's kind says of it.                                      *)
LEMMA Kinds ==
  /\ \A m \in Request : /\ m.kind \in Kind /\ m.no \in 1 .. MaxRequests
                         /\ m = [kind |-> m.kind, no |-> m.no]
  /\ \A m \in Answers : m.kind \in Kind
  /\ \A m \in Results : m.kind = Result /\ m.no \in 1 .. MaxResults
  /\ \A k \in Kind, n \in 1 .. MaxRequests : [kind |-> k, no |-> n] \in Request
  /\ \A k \in Kind : [kind |-> k, no |-> 0] \in Answers
  /\ \A n \in 1 .. MaxResults : [kind |-> Result, no |-> n] \in Results
BY DEF Request, Answers, Results

LEMMA InitSound == Init => Sound
<1> SUFFICES ASSUME Init PROVE Sound
  OBVIOUS
<1>1. /\ statue = "OK" /\ recv_buf = Nothing /\ handled = {} /\ pc = "recv"
      /\ cmd = Nothing.kind /\ msgSendQueue = <<>> /\ send_buf = Nothing
      /\ send_en = FALSE /\ onems_flag = FALSE /\ pkgresultqueue = <<>>
      /\ upward = <<>> /\ downward = <<>> /\ asked = [k \in Kind |-> 1]
      /\ got = <<>> /\ produced = 0 /\ lost = 0 /\ faults = 0 /\ early = 0
      /\ hasty = FALSE
  BY DEF Init
<1>2. /\ msgSendQueue \in Seq(Kind \cup {Result}) /\ Len(msgSendQueue) <= QueueMax
      /\ pkgresultqueue \in Seq(1 .. MaxResults) /\ got \in Seq(1 .. MaxResults)
      /\ upward \in Seq(Answers \cup Results) /\ downward \in Seq(Request)
  BY <1>1, Numbered
<1>3. /\ asked \in [Kind -> 1 .. MaxRequests + 1]
      /\ produced \in 0 .. MaxResults /\ lost \in Nat
      /\ faults \in 0 .. MaxFaults /\ early \in 0 .. MaxEarly
  BY <1>1, Numbered
<1>4. send_en \in BOOLEAN /\ onems_flag \in BOOLEAN /\ hasty \in BOOLEAN
  BY <1>1
<1>5. TypeOK
  BY <1>1, <1>2, <1>3, <1>4 DEF TypeOK
<1>6. Looking
  BY <1>1 DEF Looking
<1> QED
  BY <1>5, <1>6 DEF Sound

LEMMA ArriveSound ==
  ASSUME Sound, Arrive
  PROVE  Sound'
<1>1. Head(downward) \in Request /\ downward' \in Seq(Request)
  BY TailIs DEF Sound, TypeOK, Arrive
<1>2. /\ statue' \in {"OK", "RECV"} /\ recv_buf' \in Request \cup {Nothing}
      /\ statue' = "RECV" => recv_buf' \in Request
      /\ statue = "RECV" => UNCHANGED <<statue, recv_buf>>
  BY <1>1 DEF Sound, TypeOK, Looking, Arrive, Accepts
<1>3. UNCHANGED <<handled, pc, cmd, msgSendQueue, send_en, send_buf, onems_flag,
                  pkgresultqueue, upward, server, produced, lost, faults>>
  BY DEF Arrive
<1>4. TypeOK'
  BY <1>1, <1>2, <1>3 DEF Sound, TypeOK, server
<1>5. Looking'
  BY <1>2, <1>3 DEF Sound, Looking
<1> QED
  BY <1>4, <1>5 DEF Sound

LEMMA TickSound ==
  ASSUME Sound, Time_Update
  PROVE  Sound'
<1>1. onems_flag' = TRUE
      /\ UNCHANGED <<statue, recv_buf, handled, pc, cmd, msgSendQueue, send_en,
                     send_buf, pkgresultqueue, upward, downward, server,
                     produced, lost, faults>>
  BY DEF Time_Update
<1>2. TypeOK'
  BY <1>1 DEF Sound, TypeOK, server
<1>3. Looking'
  BY <1>1 DEF Sound, Looking
<1> QED
  BY <1>2, <1>3 DEF Sound

LEMMA LookSound ==
  ASSUME Sound, Look
  PROVE  Sound'
<1>1. UNCHANGED <<statue, recv_buf, handled, msgSendQueue, send_en, send_buf,
                  onems_flag, pkgresultqueue, upward, downward, server,
                  produced, lost, faults>>
  BY DEF Look
<1>2. /\ pc' \in {"handle", "send"} /\ cmd' \in Kind \cup {Nothing.kind}
      /\ pc' = "handle" => /\ statue = "RECV" /\ cmd' = recv_buf.kind
                           /\ cmd' \in Kind
  BY Kinds DEF Sound, TypeOK, Looking, Look
<1>3. TypeOK'
  BY <1>1, <1>2 DEF Sound, TypeOK, server
<1>4. Looking'
  BY <1>1, <1>2 DEF Sound, Looking
<1> QED
  BY <1>3, <1>4 DEF Sound

LEMMA HandleSound ==
  ASSUME Sound, recv_msg_process
  PROVE  Sound'
<1>1. /\ pc = "handle" /\ pc' = "ok"
      /\ handled' = IF recv_buf.kind = cmd THEN handled \cup {recv_buf}
                    ELSE handled
      /\ msgSendQueue' = AddSendMsgToQueue(msgSendQueue, cmd)
      /\ UNCHANGED <<statue, recv_buf, cmd, send_en, send_buf, onems_flag,
                     pkgresultqueue, upward, downward, server, produced, lost,
                     faults>>
  BY DEF recv_msg_process
<1>2. statue = "RECV" /\ recv_buf \in Request /\ cmd \in Kind
  BY <1>1 DEF Sound, Looking
<1>3. /\ msgSendQueue' \in Seq(Kind \cup {Result})
      /\ Len(msgSendQueue') <= QueueMax
  BY <1>1, <1>2, QueueIs DEF Sound, TypeOK
<1>4. handled' \subseteq Request
  BY <1>1, <1>2 DEF Sound, TypeOK
<1>5. TypeOK'
  BY <1>1, <1>3, <1>4 DEF Sound, TypeOK, server
<1>6. Looking'
  BY <1>1, <1>2 DEF Sound, Looking
<1> QED
  BY <1>5, <1>6 DEF Sound

LEMMA ReadySound ==
  ASSUME Sound, ReadyAgain
  PROVE  Sound'
<1>1. /\ pc' = "send" /\ statue' = "OK" /\ recv_buf' = Nothing
      /\ cmd' = Nothing.kind
      /\ UNCHANGED <<handled, msgSendQueue, send_en, send_buf, onems_flag,
                     pkgresultqueue, upward, downward, server, produced, lost,
                     faults>>
  BY DEF ReadyAgain
<1>2. TypeOK'
  BY <1>1 DEF Sound, TypeOK, server
<1>3. Looking'
  BY <1>1 DEF Looking
<1> QED
  BY <1>2, <1>3 DEF Sound

(* What is sent is an answer or a result.                                  *)
LEMMA DepartsIs ==
  ASSUME Sound, Departs(send_buf) \/ Fails(send_buf)
  PROVE  /\ upward' \in Seq(Answers \cup Results)
         /\ \/ upward' = upward
            \/ upward' = Append(upward, send_buf) /\ send_buf # Nothing
         /\ lost' \in Nat /\ faults' \in 0 .. MaxFaults
<1>1. /\ send_buf \in Answers \cup Results \cup {Nothing}
      /\ upward \in Seq(Answers \cup Results)
      /\ lost \in Nat /\ faults \in 0 .. MaxFaults
  BY DEF Sound, TypeOK
<1>2. CASE Departs(send_buf)
  <2>1. /\ upward' = IF send_buf = Nothing THEN upward
                     ELSE Append(upward, send_buf)
        /\ UNCHANGED <<lost, faults>>
    BY <1>2 DEF Departs
  <2>2. CASE send_buf = Nothing
    BY <1>1, <2>1, <2>2
  <2>3. CASE send_buf # Nothing
    <3>1. send_buf \in Answers \cup Results
      BY <1>1, <2>3
    <3>2. upward' = Append(upward, send_buf)
      BY <2>1, <2>3
    <3>3. upward' \in Seq(Answers \cup Results)
      BY <1>1, <3>1, <3>2, AppendIs
    <3> QED
      BY <1>1, <2>1, <2>3, <3>2, <3>3
  <2> QED
    BY <2>2, <2>3
<1>3. CASE Fails(send_buf)
  BY <1>1, <1>3, Numbered DEF Fails
<1> QED
  BY <1>2, <1>3

LEMMA SendSound ==
  ASSUME Sound, udp_send_process
  PROVE  Sound'
<1>1. /\ pc' = "msg"
      /\ UNCHANGED <<statue, recv_buf, handled, cmd, msgSendQueue, onems_flag,
                     pkgresultqueue, downward, server, produced>>
  BY DEF udp_send_process
<1>2. CASE statue = "OK" /\ send_en
  <2>1. /\ Departs(send_buf) \/ Fails(send_buf)
        /\ send_en' = FALSE /\ send_buf' = Nothing
    BY <1>2 DEF udp_send_process
  <2>2. /\ upward' \in Seq(Answers \cup Results)
        /\ lost' \in Nat /\ faults' \in 0 .. MaxFaults
    BY <2>1, DepartsIs
  <2>3. TypeOK'
    BY <1>1, <2>1, <2>2 DEF Sound, TypeOK, server
  <2>4. Looking'
    BY <1>1 DEF Sound, Looking
  <2> QED
    BY <2>3, <2>4 DEF Sound
<1>3. CASE ~(statue = "OK" /\ send_en)
  <2>1. UNCHANGED <<send_en, send_buf, upward, lost, faults>>
    BY <1>3 DEF udp_send_process
  <2>2. TypeOK'
    BY <1>1, <2>1 DEF Sound, TypeOK, server
  <2>3. Looking'
    BY <1>1 DEF Sound, Looking
  <2> QED
    BY <2>2, <2>3 DEF Sound
<1> QED
  BY <1>2, <1>3

(* What is put in the send buffer.                                         *)
LEMMA MessageIs ==
  ASSUME Sound, send_message_to_server, Free, msgSendQueue # <<>>
  PROVE  /\ msgSendQueue' = Tail(msgSendQueue) /\ send_en' = TRUE
         /\ msgSendQueue' \in Seq(Kind \cup {Result})
         /\ Len(msgSendQueue') <= QueueMax
         /\ pkgresultqueue' \in Seq(1 .. MaxResults)
         /\ send_buf' \in Answers \cup Results \cup {Nothing}
         /\ send_buf'.kind \in Kind => send_buf'.kind = Head(msgSendQueue)
<1> DEFINE msg == Head(msgSendQueue)
<1>1. /\ msgSendQueue \in Seq(Kind \cup {Result}) /\ Len(msgSendQueue) <= QueueMax
      /\ pkgresultqueue \in Seq(1 .. MaxResults)
  BY DEF Sound, TypeOK
<1>2. /\ msgSendQueue' = Tail(msgSendQueue) /\ send_en' = TRUE
      /\ IF msg # Result
         THEN send_buf' = [kind |-> msg, no |-> 0] /\ UNCHANGED pkgresultqueue
         ELSE IF pkgresultqueue = <<>>
         THEN send_buf' = Nothing /\ UNCHANGED pkgresultqueue
         ELSE /\ send_buf' = [kind |-> Result, no |-> Head(pkgresultqueue)]
              /\ pkgresultqueue' = Tail(pkgresultqueue)
  BY DEF send_message_to_server
<1>3. msg \in Kind \cup {Result} /\ Tail(msgSendQueue) \in Seq(Kind \cup {Result})
  BY <1>1, TailIs
<1>4. Len(Tail(msgSendQueue)) <= QueueMax
  BY <1>1, EmptySeq, Numbered
<1> HIDE DEF msg
<1>5. CASE msg # Result
  <2>1. send_buf' = [kind |-> msg, no |-> 0] /\ msg \in Kind
    BY <1>2, <1>3, <1>5
  <2> QED
    BY <1>1, <1>2, <1>3, <1>4, <1>5, <2>1, Kinds DEF msg
<1>6. CASE msg = Result /\ pkgresultqueue = <<>>
  BY <1>1, <1>2, <1>3, <1>4, <1>6, Numbered
<1>7. CASE msg = Result /\ pkgresultqueue # <<>>
  <2>1. /\ send_buf' = [kind |-> Result, no |-> Head(pkgresultqueue)]
        /\ pkgresultqueue' = Tail(pkgresultqueue)
    BY <1>2, <1>7
  <2>2. /\ Head(pkgresultqueue) \in 1 .. MaxResults
        /\ Tail(pkgresultqueue) \in Seq(1 .. MaxResults)
    BY <1>1, <1>7, TailIs
  <2>3. send_buf' \in Results /\ send_buf'.kind \notin Kind
    BY <2>1, <2>2, Kinds, Numbered
  <2> QED
    BY <1>2, <1>3, <1>4, <2>1, <2>2, <2>3
<1> QED
  BY <1>5, <1>6, <1>7

LEMMA MessageSound ==
  ASSUME Sound, send_message_to_server
  PROVE  Sound'
<1>1. /\ pc' = "ms"
      /\ UNCHANGED <<statue, recv_buf, handled, cmd, onems_flag, upward, downward,
                     server, produced, lost, faults>>
  BY DEF send_message_to_server
<1>2. CASE Free /\ msgSendQueue # <<>>
  <2>1. /\ send_en' = TRUE
        /\ msgSendQueue' \in Seq(Kind \cup {Result})
        /\ Len(msgSendQueue') <= QueueMax
        /\ pkgresultqueue' \in Seq(1 .. MaxResults)
        /\ send_buf' \in Answers \cup Results \cup {Nothing}
    BY <1>2, MessageIs
  <2>2. TypeOK'
    BY <1>1, <2>1 DEF Sound, TypeOK, server
  <2>3. Looking'
    BY <1>1 DEF Sound, Looking
  <2> QED
    BY <2>2, <2>3 DEF Sound
<1>3. CASE ~(Free /\ msgSendQueue # <<>>)
  <2>1. UNCHANGED <<msgSendQueue, send_en, send_buf, pkgresultqueue>>
    BY <1>3 DEF send_message_to_server
  <2>2. TypeOK'
    BY <1>1, <2>1 DEF Sound, TypeOK, server
  <2>3. Looking'
    BY <1>1 DEF Sound, Looking
  <2> QED
    BY <2>2, <2>3 DEF Sound
<1> QED
  BY <1>2, <1>3

LEMMA OnemsSound ==
  ASSUME Sound, main_onems_process
  PROVE  /\ Sound'
         /\ msgSendQueue' \in {msgSendQueue, Append(msgSendQueue, Result)}
<1>0. /\ msgSendQueue \in Seq(Kind \cup {Result}) /\ Len(msgSendQueue) <= QueueMax
      /\ pkgresultqueue \in Seq(1 .. MaxResults) /\ produced \in 0 .. MaxResults
  BY DEF Sound, TypeOK
<1>1. /\ pc' = "recv"
      /\ UNCHANGED <<statue, recv_buf, handled, cmd, send_en, send_buf, upward,
                     downward, server, lost, faults>>
  BY DEF main_onems_process
<1>2. CASE onems_flag
  <2>1. onems_flag' = FALSE
    BY <1>2 DEF main_onems_process
  <2>2. produced' \in 0 .. MaxResults /\ pkgresultqueue' \in Seq(1 .. MaxResults)
    <3>1. CASE /\ produced < MaxResults /\ produced' = produced + 1
               /\ pkgresultqueue' = Append(pkgresultqueue, produced + 1)
      <4>1. produced + 1 \in 1 .. MaxResults
        BY <1>0, <3>1, Numbered
      <4> QED
        BY <1>0, <3>1, <4>1, AppendIs, Numbered
    <3>2. CASE UNCHANGED <<produced, pkgresultqueue>>
      BY <1>0, <3>2
    <3> QED
      BY <1>2, <3>1, <3>2 DEF main_onems_process
  <2>3. /\ msgSendQueue' \in Seq(Kind \cup {Result})
        /\ Len(msgSendQueue') <= QueueMax
        /\ msgSendQueue' \in {msgSendQueue, Append(msgSendQueue, Result)}
    <3> DEFINE q == AddSendMsgToQueue(msgSendQueue, Result)
    <3>1. msgSendQueue' \in {msgSendQueue, q}
      BY <1>2 DEF main_onems_process
    <3>2. /\ q \in Seq(Kind \cup {Result}) /\ Len(q) <= QueueMax
          /\ q \in {msgSendQueue, Append(msgSendQueue, Result)}
      BY <1>0, QueueIs
    <3> HIDE DEF q
    <3> QED
      BY <1>0, <3>1, <3>2
  <2>4. TypeOK'
    BY <1>1, <2>1, <2>2, <2>3 DEF Sound, TypeOK, server
  <2>5. Looking'
    BY <1>1 DEF Sound, Looking
  <2> QED
    BY <2>3, <2>4, <2>5 DEF Sound
<1>3. CASE ~onems_flag
  <2>1. UNCHANGED <<onems_flag, produced, pkgresultqueue, msgSendQueue>>
    BY <1>3 DEF main_onems_process
  <2>2. TypeOK'
    BY <1>1, <2>1 DEF Sound, TypeOK, server
  <2>3. Looking'
    BY <1>1 DEF Sound, Looking
  <2> QED
    BY <2>1, <2>2, <2>3 DEF Sound
<1> QED
  BY <1>2, <1>3

LEMMA LoseUpwardSound ==
  ASSUME Sound, LoseUpward
  PROVE  Sound'
<1>0. upward \in Seq(Answers \cup Results) /\ lost \in Nat /\ faults \in 0 .. MaxFaults
  BY DEF Sound, TypeOK
<1>1. /\ upward # <<>> /\ faults < MaxFaults /\ faults' = faults + 1
      /\ upward' = Tail(upward)
      /\ lost' \in {lost, lost + 1}
      /\ UNCHANGED <<board, downward, server, produced>>
  BY DEF LoseUpward
<1>2. upward' \in Seq(Answers \cup Results)
  BY <1>0, <1>1, TailIs
<1>3. lost' \in Nat /\ faults' \in 0 .. MaxFaults
  BY <1>0, <1>1, Numbered
<1>4. TypeOK'
  BY <1>1, <1>2, <1>3 DEF Sound, TypeOK, server, board
<1>5. Looking'
  BY <1>1 DEF Sound, Looking, board
<1> QED
  BY <1>4, <1>5 DEF Sound

LEMMA LoseDownwardSound ==
  ASSUME Sound, LoseDownward
  PROVE  Sound'
<1>0. downward \in Seq(Request) /\ faults \in 0 .. MaxFaults
  BY DEF Sound, TypeOK
<1>1. /\ downward # <<>> /\ faults < MaxFaults /\ faults' = faults + 1
      /\ downward' = Tail(downward)
      /\ UNCHANGED <<board, upward, server, produced, lost>>
  BY DEF LoseDownward
<1>2. downward' \in Seq(Request)
  BY <1>0, <1>1, TailIs
<1>3. faults' \in 0 .. MaxFaults
  BY <1>0, <1>1, Numbered
<1>4. TypeOK'
  BY <1>1, <1>2, <1>3 DEF Sound, TypeOK, server, board
<1>5. Looking'
  BY <1>1 DEF Sound, Looking, board
<1> QED
  BY <1>4, <1>5 DEF Sound

LEMMA CurrentIs ==
  ASSUME Sound, NEW k \in Kind, Asks(k)
  PROVE  Current(k) \in Request /\ Current(k).kind = k
<1>1. asked[k] \in 1 .. MaxRequests + 1
  BY DEF Sound, TypeOK
<1>2. asked[k] \in 1 .. MaxRequests
  BY <1>1, Numbered DEF Asks
<1> QED
  BY <1>2, Kinds DEF Current

LEMMA AskSound ==
  ASSUME Sound, NEW k \in Kind, Ask(k) \/ AskEarly(k)
  PROVE  Sound'
<1>0. downward \in Seq(Request) /\ early \in 0 .. MaxEarly
  BY DEF Sound, TypeOK
<1>1. /\ Asks(k) /\ downward' = Append(downward, Current(k))
      /\ UNCHANGED <<board, upward, asked, got, produced, lost, faults>>
  BY DEF Ask, AskEarly, server
<1>2. downward' \in Seq(Request)
  BY <1>0, <1>1, CurrentIs, AppendIs
<1>3. early' \in 0 .. MaxEarly
  BY <1>0, Numbered DEF Ask, AskEarly, server
<1>4. hasty' \in BOOLEAN
  BY DEF Ask, AskEarly, server, Sound, TypeOK
<1>5. TypeOK'
  BY <1>1, <1>2, <1>3, <1>4 DEF Sound, TypeOK, board
<1>6. Looking'
  BY <1>1 DEF Sound, Looking, board
<1> QED
  BY <1>5, <1>6 DEF Sound

LEMMA ServerTakesSound ==
  ASSUME Sound, ServerTakes
  PROVE  Sound'
<1> DEFINE m == Head(upward)
<1>0. /\ upward \in Seq(Answers \cup Results) /\ got \in Seq(1 .. MaxResults)
      /\ asked \in [Kind -> 1 .. MaxRequests + 1]
  BY DEF Sound, TypeOK
<1>1. /\ upward # <<>> /\ upward' = Tail(upward)
      /\ IF m.kind = Result
         THEN got' = Append(got, m.no) /\ UNCHANGED asked
         ELSE /\ asked' = IF Asks(m.kind) THEN [asked EXCEPT ![m.kind] = @ + 1]
                          ELSE asked
              /\ UNCHANGED got
      /\ UNCHANGED <<board, downward, early, hasty, produced, lost, faults>>
  BY DEF ServerTakes
<1>2. m \in Answers \cup Results /\ upward' \in Seq(Answers \cup Results)
  BY <1>0, <1>1, TailIs
<1> HIDE DEF m
<1>3. got' \in Seq(1 .. MaxResults) /\ asked' \in [Kind -> 1 .. MaxRequests + 1]
  <2>1. CASE m.kind = Result
    <3>1. m.no \in 1 .. MaxResults
      BY <1>2, <2>1, Kinds, Numbered
    <3>2. got' = Append(got, m.no) /\ asked' = asked
      BY <1>1, <2>1
    <3>3. Append(got, m.no) \in Seq(1 .. MaxResults)
      BY <1>0, <3>1, AppendIs
    <3> QED
      BY <1>0, <3>2, <3>3
  <2>2. CASE m.kind # Result
    <3>1. m.kind \in Kind
      BY <1>2, <2>2, Kinds
    <3>2. Asks(m.kind) => asked[m.kind] + 1 \in 1 .. MaxRequests + 1
      BY <1>0, <3>1, Numbered DEF Asks
    <3> QED
      BY <1>0, <1>1, <2>2, <3>1, <3>2
  <2> QED
    BY <2>1, <2>2
<1>4. TypeOK'
  BY <1>1, <1>2, <1>3 DEF Sound, TypeOK, board
<1>5. Looking'
  BY <1>1 DEF Sound, Looking, board
<1> QED
  BY <1>4, <1>5 DEF Sound

LEMMA StutterSound ==
  ASSUME Sound, UNCHANGED vars
  PROVE  Sound'
<1>1. TypeOK'
  BY DEF Sound, TypeOK, vars, board, server
<1>2. Looking'
  BY DEF Sound, Looking, vars, board
<1> QED
  BY <1>1, <1>2 DEF Sound

LEMMA NextSound ==
  ASSUME Sound, [Next]_vars
  PROVE  Sound'
BY ArriveSound, TickSound, LookSound, HandleSound, ReadySound, SendSound,
   MessageSound, OnemsSound, LoseUpwardSound, LoseDownwardSound, AskSound,
   ServerTakesSound, StutterSound DEF Next, Pass
-----------------------------------------------------------------------------
(* Requests and answers.                                                   *)

LEMMA InitOrderly == Init => Orderly
<1> SUFFICES ASSUME Init, NEW k \in Kind PROVE Tidy(k)
  BY DEF Orderly
<1>1. /\ downward = <<>> /\ msgSendQueue = <<>> /\ upward = <<>>
      /\ send_en = FALSE /\ statue = "OK" /\ asked[k] = 1
  BY DEF Init
<1>2. /\ ~Has(downward, k) /\ ~HasKind(msgSendQueue, k) /\ ~Has(upward, k)
      /\ ~Held(k) /\ ~Buffered(k)
      /\ Once(downward, k) /\ OnceKind(msgSendQueue, k) /\ Once(upward, k)
  BY <1>1 DEF Has, HasKind, Held, Buffered, Once, OnceKind
<1>3. Past(k)
  BY <1>1, Kinds, Numbered DEF Past
<1>4. Rightful(k)
  BY <1>1, <1>2 DEF Rightful
<1> QED
  BY <1>2, <1>3, <1>4 DEF Tidy, Single

(* Nothing of kind k has come anywhere.                                    *)
LEMMA Fewer ==
  ASSUME NEW k \in Kind, Tidy(k),
         Once(downward', k), OnceKind(msgSendQueue', k), Once(upward', k),
         Has(downward', k) => Has(downward, k),
         HasKind(msgSendQueue', k) => HasKind(msgSendQueue, k),
         Has(upward', k) => Has(upward, k),
         Held(k)' => Held(k) /\ recv_buf' = recv_buf,
         Buffered(k)' => Buffered(k),
         \A n \in DOMAIN downward' : downward'[n].kind = k =>
           \E m \in DOMAIN downward : downward'[n] = downward[m],
         handled \subseteq handled', asked'[k] = asked[k]
  PROVE  Tidy(k)'
<1>1. Single(k)'
  BY DEF Tidy, Single
<1>2. Current(k)' = Current(k) /\ Asks(k)' = Asks(k)
  BY DEF Current, Asks
<1>3. Rightful(k)'
  BY <1>2 DEF Tidy, Rightful
<1>4. Past(k)'
  BY DEF Tidy, Past
<1> QED
  BY <1>1, <1>3, <1>4 DEF Tidy

(* The first datagram has left a line.                                     *)
LEMMA TailFewer ==
  ASSUME NEW S, NEW s \in Seq(S), s # <<>>, NEW k, Once(s, k)
  PROVE  /\ Once(Tail(s), k) /\ (Has(Tail(s), k) => Has(s, k))
         /\ \A n \in DOMAIN Tail(s) :
              \E m \in DOMAIN s : Tail(s)[n] = s[m]
<1>1. \A n \in DOMAIN Tail(s) : \E m \in DOMAIN s : Tail(s)[n] = s[m]
  BY TailIs
<1> QED
  BY <1>1, TailHas

LEMMA ArriveTidy ==
  ASSUME Sound, NEW k \in Kind, Tidy(k), Arrive
  PROVE  Tidy(k)'
<1>0. downward \in Seq(Request) /\ downward # <<>> /\ Once(downward, k)
  BY DEF Sound, TypeOK, Arrive, Tidy, Single
<1>1. /\ downward' = Tail(downward)
      /\ UNCHANGED <<handled, pc, msgSendQueue, send_en, send_buf, upward, asked>>
  BY DEF Arrive, server
<1>2. /\ Once(downward', k) /\ (Has(downward', k) => Has(downward, k))
      /\ \A n \in DOMAIN downward' :
           \E m \in DOMAIN downward : downward'[n] = downward[m]
  BY <1>0, <1>1, TailFewer
<1>3. Buffered(k)' = Buffered(k)
  BY <1>1 DEF Buffered
<1>4. CASE Held(k)' => Held(k) /\ recv_buf' = recv_buf
  <2>1. OnceKind(msgSendQueue', k) /\ Once(upward', k)
    BY <1>1 DEF Tidy, Single
  <2> QED
    BY <1>1, <1>2, <1>3, <1>4, <2>1, Fewer
<1>5. CASE Held(k)' /\ ~(Held(k) /\ recv_buf' = recv_buf)
  <2>1. recv_buf' = Head(downward)
    BY <1>1, <1>5 DEF Arrive, Held
  <2>2. Head(downward).kind = k
    BY <1>5, <2>1 DEF Held
  <2>3. Has(downward, k) /\ ~Has(downward', k)
    BY <1>0, <1>1, <2>2, TailHas
  <2>4. Single(k)'
    BY <1>1, <1>2, <1>3, <2>3 DEF Tidy, Single
  <2>5. 1 \in DOMAIN downward /\ Head(downward) = downward[1]
    BY <1>0, TailIs
  <2>6. recv_buf' = Current(k)
    BY <2>1, <2>2, <2>5 DEF Tidy, Rightful
  <2>7. Current(k)' = Current(k) /\ Asks(k)' = Asks(k)
    BY <1>1 DEF Current, Asks
  <2>8. \A n \in DOMAIN downward' : downward'[n].kind # k
    BY <2>3 DEF Has
  <2>9. Rightful(k)'
    BY <1>1, <1>3, <2>6, <2>7, <2>8 DEF Tidy, Rightful
  <2>10. Past(k)'
    BY <1>1 DEF Tidy, Past
  <2> QED
    BY <2>4, <2>9, <2>10 DEF Tidy
<1> QED
  BY <1>4, <1>5

(* The steps that move nothing.                                            *)
LEMMA QuietTidy ==
  ASSUME Sound, NEW k \in Kind, Tidy(k),
         Time_Update \/ Look \/ ReadyAgain \/ UNCHANGED vars
  PROVE  Tidy(k)'
<1>1. UNCHANGED <<downward, msgSendQueue, upward, send_en, send_buf, handled,
                  asked>>
  BY DEF Time_Update, Look, ReadyAgain, vars, board, server
<1>2. /\ Once(downward', k) /\ OnceKind(msgSendQueue', k) /\ Once(upward', k)
  BY <1>1 DEF Tidy, Single
<1>3. Held(k)' => Held(k) /\ recv_buf' = recv_buf
  BY DEF Sound, Looking, Held, Time_Update, Look, ReadyAgain, vars, board
<1>4. Buffered(k)' = Buffered(k)
  BY <1>1 DEF Buffered
<1> QED
  BY <1>1, <1>2, <1>3, <1>4, Fewer

LEMMA HandleTidy ==
  ASSUME Sound, NEW k \in Kind, Tidy(k), recv_msg_process
  PROVE  Tidy(k)'
<1>0. msgSendQueue \in Seq(Kind \cup {Result}) /\ Len(msgSendQueue) <= QueueMax
  BY DEF Sound, TypeOK
<1>1. /\ pc = "handle" /\ pc' = "ok"
      /\ handled' = IF recv_buf.kind = cmd THEN handled \cup {recv_buf}
                    ELSE handled
      /\ msgSendQueue' = AddSendMsgToQueue(msgSendQueue, cmd)
      /\ UNCHANGED <<downward, upward, send_en, send_buf, asked>>
  BY DEF recv_msg_process, server
<1>2. /\ recv_buf \in Request /\ recv_buf.kind = cmd /\ cmd \in Kind
      /\ statue = "RECV"
  BY <1>1 DEF Sound, Looking
<1>3. /\ ~Held(k)' /\ Buffered(k)' = Buffered(k)
      /\ Once(downward', k) /\ Once(upward', k)
  BY <1>1 DEF Held, Buffered, Tidy, Single
<1>4. msgSendQueue' \in {msgSendQueue, Append(msgSendQueue, cmd)}
  <2> DEFINE q == AddSendMsgToQueue(msgSendQueue, cmd)
  <2>1. cmd \in Kind \cup {Result} /\ msgSendQueue' = q
    BY <1>1, <1>2
  <2>2. q \in {msgSendQueue, Append(msgSendQueue, cmd)}
    BY <1>0, <2>1, QueueIs
  <2> QED
    BY <2>1, <2>2
<1>5. /\ HasKind(msgSendQueue', k) => HasKind(msgSendQueue, k) \/ cmd = k
      /\ (cmd = k => ~HasKind(msgSendQueue, k)) => OnceKind(msgSendQueue', k)
  <2>1. CASE msgSendQueue' = msgSendQueue
    BY <2>1 DEF Tidy, Single
  <2>2. CASE msgSendQueue' = Append(msgSendQueue, cmd)
    <3>1. cmd \in Kind \cup {Result} /\ OnceKind(msgSendQueue, k)
      BY <1>2 DEF Tidy, Single
    <3> QED
      BY <1>0, <2>2, <3>1, AppendHasKind
  <2> QED
    BY <1>4, <2>1, <2>2
<1>6. CASE cmd # k
  BY <1>1, <1>3, <1>5, <1>6, Fewer
<1>7. CASE cmd = k
  <2>1. Held(k)
    BY <1>1, <1>2, <1>7 DEF Held
  <2>2. /\ ~Has(downward, k) /\ ~HasKind(msgSendQueue, k) /\ ~Buffered(k)
        /\ ~Has(upward, k)
    BY <2>1 DEF Tidy, Single
  <2>3. Single(k)'
    BY <1>1, <1>3, <1>5, <2>2 DEF Single
  <2>4. recv_buf = Current(k) /\ Current(k)' = Current(k)
    BY <1>1, <2>1 DEF Tidy, Rightful, Current
  <2>5. Asks(k)'
    <3>1. recv_buf.no \in 1 .. MaxRequests
      BY <1>2, Kinds
    <3>2. asked[k] \in 1 .. MaxRequests
      BY <2>4, <3>1 DEF Current
    <3> QED
      BY <1>1, <3>2, Numbered DEF Asks
  <2>6. \A n \in DOMAIN downward' : downward'[n].kind # k
    BY <1>1, <2>2 DEF Has
  <2>7. Current(k)' \in handled'
    BY <1>1, <1>2, <2>4
  <2>8. Rightful(k)'
    BY <1>3, <2>5, <2>6, <2>7 DEF Rightful
  <2>9. Past(k)'
    BY <1>1 DEF Tidy, Past
  <2> QED
    BY <2>3, <2>8, <2>9 DEF Tidy
<1> QED
  BY <1>6, <1>7

LEMMA SendTidy ==
  ASSUME Sound, NEW k \in Kind, Tidy(k), udp_send_process
  PROVE  Tidy(k)'
<1>0. /\ upward \in Seq(Answers \cup Results)
      /\ send_buf \in Answers \cup Results \cup {Nothing}
  BY DEF Sound, TypeOK
<1>1. /\ pc = "send" /\ pc' = "msg"
      /\ UNCHANGED <<statue, recv_buf, handled, msgSendQueue, downward, asked>>
  BY DEF udp_send_process, server
<1>2. /\ Once(downward', k) /\ OnceKind(msgSendQueue', k) /\ Once(upward, k)
      /\ Held(k)' => Held(k) /\ recv_buf' = recv_buf
  BY <1>1 DEF Held, Tidy, Single
<1>3. CASE statue = "OK" /\ send_en
  <2>1. /\ Departs(send_buf) \/ Fails(send_buf)
        /\ send_en' = FALSE
    BY <1>3 DEF udp_send_process
  <2>2. ~Buffered(k)'
    BY <2>1 DEF Buffered
  <2>3. \/ upward' = upward
        \/ upward' = Append(upward, send_buf) /\ send_buf # Nothing
    BY <2>1, DepartsIs
  <2>4. CASE upward' = upward
    BY <1>1, <1>2, <2>2, <2>4, Fewer
  <2>5. CASE upward' = Append(upward, send_buf) /\ send_buf # Nothing
    <3>1. /\ Has(upward', k) => Has(upward, k) \/ send_buf.kind = k
          /\ (send_buf.kind = k => ~Has(upward, k)) => Once(upward', k)
      <4>1. send_buf \in Answers \cup Results
        BY <1>0, <2>5
      <4> QED
        BY <1>0, <1>2, <2>5, <4>1, AppendHas
    <3>2. CASE send_buf.kind # k
      BY <1>1, <1>2, <2>2, <3>1, <3>2, Fewer
    <3>3. CASE send_buf.kind = k
      <4>1. Buffered(k)
        BY <1>3, <3>3 DEF Buffered
      <4>2. /\ ~Has(downward, k) /\ ~Held(k) /\ ~HasKind(msgSendQueue, k)
            /\ ~Has(upward, k) /\ Asks(k) /\ Current(k) \in handled
        BY <4>1 DEF Tidy, Single, Rightful
      <4>3. Single(k)'
        BY <1>1, <1>2, <2>2, <3>1, <4>2 DEF Single
      <4>4. Rightful(k)'
        BY <1>1, <1>2, <4>2 DEF Rightful, Has, Asks, Current
      <4>5. Past(k)'
        BY <1>1 DEF Tidy, Past
      <4> QED
        BY <4>3, <4>4, <4>5 DEF Tidy
    <3> QED
      BY <3>2, <3>3
  <2> QED
    BY <2>3, <2>4, <2>5
<1>4. CASE ~(statue = "OK" /\ send_en)
  <2>1. UNCHANGED <<send_en, send_buf, upward>>
    BY <1>4 DEF udp_send_process
  <2>2. Buffered(k)' = Buffered(k)
    BY <2>1 DEF Buffered
  <2> QED
    BY <1>1, <1>2, <2>1, <2>2, Fewer
<1> QED
  BY <1>3, <1>4

LEMMA MessageTidy ==
  ASSUME Sound, NEW k \in Kind, Tidy(k), send_message_to_server
  PROVE  Tidy(k)'
<1>0. msgSendQueue \in Seq(Kind \cup {Result})
  BY DEF Sound, TypeOK
<1>1. /\ pc = "msg" /\ pc' = "ms"
      /\ UNCHANGED <<statue, recv_buf, handled, upward, downward, asked>>
  BY DEF send_message_to_server, server
<1>2. /\ Once(downward', k) /\ OnceKind(msgSendQueue, k) /\ Once(upward', k)
      /\ Held(k)' => Held(k) /\ recv_buf' = recv_buf
  BY <1>1 DEF Held, Tidy, Single
<1>3. CASE Free /\ msgSendQueue # <<>>
  <2> DEFINE msg == Head(msgSendQueue)
  <2>1. /\ msgSendQueue' = Tail(msgSendQueue)
        /\ send_buf'.kind \in Kind => send_buf'.kind = msg
    BY <1>3, MessageIs
  <2>2. ~send_en
    BY <1>3 DEF Free
  <2>3. /\ HasKind(msgSendQueue', k) => HasKind(msgSendQueue, k)
        /\ msg = k => HasKind(msgSendQueue, k) /\ ~HasKind(msgSendQueue', k)
        /\ OnceKind(msgSendQueue', k)
    BY <1>0, <1>2, <1>3, <2>1, TailHasKind
  <2> HIDE DEF msg
  <2>4. Buffered(k)' => msg = k
    BY <2>1 DEF Buffered
  <2>5. CASE msg # k
    BY <1>1, <1>2, <2>3, <2>4, <2>5, Fewer
  <2>6. CASE msg = k
    <3>1. /\ ~Has(downward, k) /\ ~Held(k) /\ ~Has(upward, k)
          /\ Asks(k) /\ Current(k) \in handled
      BY <2>3, <2>6 DEF Tidy, Single, Rightful
    <3>2. Single(k)'
      BY <1>1, <1>2, <2>3, <2>6, <3>1 DEF Single
    <3>3. Rightful(k)'
      BY <1>1, <1>2, <3>1 DEF Rightful, Has, Asks, Current
    <3>4. Past(k)'
      BY <1>1 DEF Tidy, Past
    <3> QED
      BY <3>2, <3>3, <3>4 DEF Tidy
  <2> QED
    BY <2>5, <2>6
<1>4. CASE ~(Free /\ msgSendQueue # <<>>)
  <2>1. UNCHANGED <<msgSendQueue, send_en, send_buf>>
    BY <1>4 DEF send_message_to_server
  <2>2. Buffered(k)' = Buffered(k)
    BY <2>1 DEF Buffered
  <2> QED
    BY <1>1, <1>2, <2>1, <2>2, Fewer
<1> QED
  BY <1>3, <1>4

LEMMA OnemsTidy ==
  ASSUME Sound, NEW k \in Kind, Tidy(k), main_onems_process
  PROVE  Tidy(k)'
<1>0. msgSendQueue \in Seq(Kind \cup {Result}) /\ OnceKind(msgSendQueue, k)
  BY DEF Sound, TypeOK, Tidy, Single
<1>1. /\ pc = "ms" /\ pc' = "recv"
      /\ UNCHANGED <<statue, recv_buf, handled, send_en, send_buf, upward,
                     downward, asked>>
  BY DEF main_onems_process, server
<1>2. msgSendQueue' \in {msgSendQueue, Append(msgSendQueue, Result)}
  BY OnemsSound
<1>3. /\ HasKind(msgSendQueue', k) => HasKind(msgSendQueue, k)
      /\ OnceKind(msgSendQueue', k)
  <2>1. CASE msgSendQueue' = msgSendQueue
    BY <1>0, <2>1
  <2>2. CASE msgSendQueue' = Append(msgSendQueue, Result)
    <3>1. Result \in Kind \cup {Result} /\ Result # k
      BY Numbered
    <3> QED
      BY <1>0, <2>2, <3>1, AppendHasKind
  <2> QED
    BY <1>2, <2>1, <2>2
<1>4. /\ Once(downward', k) /\ Once(upward', k)
      /\ Held(k)' => Held(k) /\ recv_buf' = recv_buf
      /\ Buffered(k)' = Buffered(k)
  BY <1>1 DEF Held, Buffered, Tidy, Single
<1> QED
  BY <1>1, <1>3, <1>4, Fewer

LEMMA LoseTidy ==
  ASSUME Sound, NEW k \in Kind, Tidy(k), LoseUpward \/ LoseDownward
  PROVE  Tidy(k)'
<1>0. /\ upward \in Seq(Answers \cup Results) /\ downward \in Seq(Request)
      /\ Once(downward, k) /\ OnceKind(msgSendQueue, k) /\ Once(upward, k)
  BY DEF Sound, TypeOK, Tidy, Single
<1>1. UNCHANGED <<statue, recv_buf, pc, handled, msgSendQueue, send_en, send_buf,
                  asked>>
  BY DEF LoseUpward, LoseDownward, board, server
<1>2. Held(k)' = Held(k) /\ Buffered(k)' = Buffered(k)
  BY <1>1 DEF Held, Buffered
<1>3. CASE LoseUpward
  <2>1. upward # <<>> /\ upward' = Tail(upward) /\ downward' = downward
    BY <1>3 DEF LoseUpward
  <2>2. Once(upward', k) /\ (Has(upward', k) => Has(upward, k))
    BY <1>0, <2>1, TailFewer
  <2> QED
    BY <1>0, <1>1, <1>2, <2>1, <2>2, Fewer
<1>4. CASE LoseDownward
  <2>1. downward # <<>> /\ downward' = Tail(downward) /\ upward' = upward
    BY <1>4 DEF LoseDownward
  <2>2. /\ Once(downward', k) /\ (Has(downward', k) => Has(downward, k))
        /\ \A n \in DOMAIN downward' :
             \E m \in DOMAIN downward : downward'[n] = downward[m]
    BY <1>0, <2>1, TailFewer
  <2> QED
    BY <1>0, <1>1, <1>2, <2>1, <2>2, Fewer
<1> QED
  BY <1>3, <1>4

LEMMA AskTidy ==
  ASSUME Sound, NEW k \in Kind, Tidy(k), NEW j \in Kind, Ask(j)
  PROVE  Tidy(k)'
<1>0. downward \in Seq(Request) /\ Once(downward, k)
  BY DEF Sound, TypeOK, Tidy, Single
<1>1. /\ Asks(j) /\ ~UnderWay(j)
      /\ downward' = Append(downward, Current(j))
      /\ UNCHANGED <<statue, recv_buf, pc, handled, msgSendQueue, send_en,
                     send_buf, upward, asked>>
  BY DEF Ask, board, server
<1>2. Current(j) \in Request /\ Current(j).kind = j
  BY <1>1, CurrentIs
<1>3. /\ Has(downward', k) => Has(downward, k) \/ j = k
      /\ (j = k => ~Has(downward, k)) => Once(downward', k)
  BY <1>0, <1>1, <1>2, AppendHas
<1>4. /\ Held(k)' = Held(k) /\ Buffered(k)' = Buffered(k)
      /\ OnceKind(msgSendQueue', k) /\ Once(upward', k)
  BY <1>1 DEF Held, Buffered, Tidy, Single
<1>5. \A n \in DOMAIN downward' :
        \/ downward'[n] = Current(j)
        \/ \E m \in DOMAIN downward : downward'[n] = downward[m]
  <2>1. /\ DOMAIN downward = 1 .. Len(downward) /\ Len(downward) \in Nat
        /\ DOMAIN downward' = 1 .. Len(downward) + 1
        /\ \A n \in DOMAIN downward : downward'[n] = downward[n]
        /\ downward'[Len(downward) + 1] = Current(j)
    BY <1>0, <1>1, <1>2, AppendIs
  <2> QED
    BY <2>1
<1>6. CASE j # k
  <2>1. \A n \in DOMAIN downward' : downward'[n].kind = k =>
          \E m \in DOMAIN downward : downward'[n] = downward[m]
    BY <1>2, <1>5, <1>6
  <2> QED
    BY <1>1, <1>3, <1>4, <1>6, <2>1, Fewer
<1>7. CASE j = k
  <2>1. /\ ~Has(downward, k) /\ ~Held(k) /\ ~HasKind(msgSendQueue, k)
        /\ ~Buffered(k) /\ ~Has(upward, k)
    BY <1>1, <1>7 DEF UnderWay, Has, HasKind, Held, Buffered
  <2>2. Single(k)'
    BY <1>1, <1>3, <1>4, <2>1 DEF Single
  <2>3. \A n \in DOMAIN downward' : downward'[n].kind = k =>
          downward'[n] = Current(k)
    BY <1>5, <1>7, <2>1 DEF Has
  <2>4. Rightful(k)'
    BY <1>1, <1>4, <2>1, <2>3 DEF Rightful, Current
  <2>5. Past(k)'
    BY <1>1 DEF Tidy, Past
  <2> QED
    BY <2>2, <2>4, <2>5 DEF Tidy
<1> QED
  BY <1>6, <1>7

LEMMA ServerTakesTidy ==
  ASSUME Sound, NEW k \in Kind, Tidy(k), ServerTakes
  PROVE  Tidy(k)'
<1> DEFINE m == Head(upward)
<1>0. /\ upward \in Seq(Answers \cup Results)
      /\ asked \in [Kind -> 1 .. MaxRequests + 1]
      /\ Once(downward, k) /\ OnceKind(msgSendQueue, k) /\ Once(upward, k)
  BY DEF Sound, TypeOK, Tidy, Single
<1>1. /\ upward # <<>> /\ upward' = Tail(upward)
      /\ m.kind = Result => asked' = asked
      /\ m.kind # Result =>
           asked' = IF Asks(m.kind) THEN [asked EXCEPT ![m.kind] = @ + 1]
                    ELSE asked
      /\ UNCHANGED <<statue, recv_buf, pc, handled, msgSendQueue, send_en,
                     send_buf, downward>>
  BY DEF ServerTakes, board
<1>2. /\ Once(upward', k) /\ (Has(upward', k) => Has(upward, k))
      /\ m.kind = k => Has(upward, k) /\ ~Has(upward', k)
  BY <1>0, <1>1, TailHas
<1> HIDE DEF m
<1>3. Held(k)' = Held(k) /\ Buffered(k)' = Buffered(k)
  BY <1>1 DEF Held, Buffered
<1>4. CASE m.kind # k
  <2>1. asked'[k] = asked[k]
    BY <1>0, <1>1, <1>4
  <2> QED
    BY <1>0, <1>1, <1>2, <1>3, <2>1, Fewer
<1>5. CASE m.kind = k
  <2>1. /\ ~Has(downward, k) /\ ~Held(k) /\ ~HasKind(msgSendQueue, k)
        /\ ~Buffered(k) /\ Asks(k) /\ Current(k) \in handled
    BY <1>2, <1>5 DEF Tidy, Single, Rightful
  <2>2. asked'[k] = asked[k] + 1
    BY <1>0, <1>1, <1>5, <2>1, Numbered
  <2>3. Single(k)'
    BY <1>0, <1>1, <1>2, <1>3, <1>5, <2>1 DEF Single
  <2>4. Rightful(k)'
    BY <1>1, <1>2, <1>3, <1>5, <2>1 DEF Rightful, Has
  <2>5. Past(k)'
    <3> SUFFICES ASSUME NEW r \in Request, r.kind = k, r.no < asked'[k]
                 PROVE  r \in handled'
      BY DEF Past
    <3>1. /\ r.no \in 1 .. MaxRequests /\ r = [kind |-> k, no |-> r.no]
          /\ asked[k] \in 1 .. MaxRequests + 1
      BY <1>0, Kinds
    <3>2. r.no < asked[k] \/ r.no = asked[k]
      BY <2>2, <3>1, Numbered
    <3>3. r.no = asked[k] => r = Current(k)
      BY <3>1 DEF Current
    <3> QED
      BY <1>1, <2>1, <3>2, <3>3 DEF Tidy, Past
  <2> QED
    BY <2>3, <2>4, <2>5 DEF Tidy
<1> QED
  BY <1>4, <1>5

LEMMA NextOrderly ==
  ASSUME Sound, Orderly, [Next]_vars
  PROVE  Orderly'
<1>1. CASE \E j \in Kind : AskEarly(j)
  <2>1. hasty' = TRUE
    BY <1>1 DEF AskEarly
  <2> QED
    BY <2>1 DEF Orderly
<1>2. CASE \/ Arrive \/ Time_Update \/ Pass
           \/ LoseUpward \/ LoseDownward \/ ServerTakes
           \/ (\E j \in Kind : Ask(j)) \/ UNCHANGED vars
  <2>1. hasty' = hasty
    BY <1>2 DEF Arrive, Time_Update, Pass, LoseUpward, LoseDownward, ServerTakes,
       Ask, Look, recv_msg_process, ReadyAgain, udp_send_process,
       send_message_to_server, main_onems_process, vars, server
  <2>2. ASSUME NEW k \in Kind, Tidy(k) PROVE Tidy(k)'
    BY <1>2, <2>2, ArriveTidy, QuietTidy, HandleTidy, SendTidy, MessageTidy,
       OnemsTidy, LoseTidy, AskTidy, ServerTakesTidy DEF Pass
  <2> QED
    BY <2>1, <2>2 DEF Orderly
<1> QED
  BY <1>1, <1>2 DEF Next

LEMMA AlwaysOrderly == Spec => [](Sound /\ Orderly)
<1>1. Init => Sound /\ Orderly
  BY InitSound, InitOrderly
<1>2. Sound /\ Orderly /\ [Next]_vars => (Sound /\ Orderly)'
  BY NextSound, NextOrderly
<1> QED
  BY <1>1, <1>2, PTL DEF Spec

(* Every variable has its type; the queue does not grow beyond its size.   *)
THEOREM TypeCorrect == Spec => []TypeOK
<1>1. Sound => TypeOK
  BY DEF Sound
<1> QED
  BY <1>1, AlwaysOrderly, PTL

(* A request the server believes done was acted upon, unless the server    *)
(* has repeated one while its answer could still come.                     *)
THEOREM AnsweredHandled == Spec => []AnsweredIsHandled
<1>1. Sound /\ Orderly => AnsweredIsHandled
  BY Kinds DEF Orderly, Tidy, Past, AnsweredIsHandled
<1> QED
  BY <1>1, AlwaysOrderly, PTL
-----------------------------------------------------------------------------
(* The results.  A new number is above all others because none exceeds the *)
(* count of the numbers given out.                                         *)
Conserved == ResultsConserved /\ \A n \in Reported : n <= produced

LEMMA RangeIs ==
  ASSUME NEW S, NEW s \in Seq(S)
  PROVE  Range(s) \subseteq S
<1>1. \A n \in DOMAIN s : s[n] \in S
  OBVIOUS
<1> QED
  BY <1>1 DEF Range

LEMMA ReportedType ==
  ASSUME Sound
  PROVE  /\ Range(got) \subseteq Nat /\ ResultNos(upward) \subseteq Nat
         /\ InBuffer \subseteq Nat /\ Waiting \subseteq Nat
         /\ Reported \subseteq 1 .. MaxResults /\ IsFiniteSet(Reported)
         /\ Cardinality(Reported) \in Nat
<1>1. Range(got) \subseteq 1 .. MaxResults
  BY RangeIs DEF Sound, TypeOK
<1>2. Waiting \subseteq 1 .. MaxResults
  BY RangeIs DEF Sound, TypeOK, Waiting
<1>3. ResultNos(upward) \subseteq 1 .. MaxResults
  <2>1. ASSUME NEW n \in DOMAIN upward, upward[n].kind = Result
        PROVE  upward[n].no \in 1 .. MaxResults
    <3>1. upward[n] \in Answers \cup Results
      BY DEF Sound, TypeOK
    <3> QED
      BY <2>1, <3>1, Kinds, Numbered
  <2> QED
    BY <2>1 DEF ResultNos
<1>4. InBuffer \subseteq 1 .. MaxResults
  <2>1. send_buf \in Answers \cup Results \cup {Nothing}
    BY DEF Sound, TypeOK
  <2>2. send_buf.kind = Result => send_buf.no \in 1 .. MaxResults
    BY <2>1, Kinds, Numbered
  <2> QED
    BY <2>2 DEF InBuffer
<1>5. Reported \subseteq 1 .. MaxResults
  BY <1>1, <1>2, <1>3, <1>4 DEF Reported
<1>6. IsFiniteSet(1 .. MaxResults)
  BY FS_Interval, Numbered
<1>7. IsFiniteSet(Reported) /\ Cardinality(Reported) \in Nat
  BY <1>5, <1>6, FS_Subset, FS_CardinalityType
<1> QED
  BY <1>1, <1>2, <1>3, <1>4, <1>5, <1>7, Numbered

(* Taking the first of rising numbers, and putting one behind.             *)
LEMMA TailRising ==
  ASSUME NEW s \in Seq(Nat), s # <<>>, Rising(s)
  PROVE  /\ Range(s) = {Head(s)} \cup Range(Tail(s))
         /\ Rising(Tail(s)) /\ Before({Head(s)}, Range(Tail(s)))
<1>1. /\ Len(s) \in Nat /\ Len(s) > 0 /\ DOMAIN s = 1 .. Len(s)
      /\ Head(s) = s[1] /\ DOMAIN Tail(s) = 1 .. Len(s) - 1
      /\ \A n \in 1 .. Len(s) - 1 : Tail(s)[n] = s[n + 1]
  BY EmptySeq
<1> DEFINE t == Tail(s)
           h == Head(s)
           l == Len(s)
<1>2. /\ l \in Nat /\ l > 0 /\ DOMAIN s = 1 .. l
      /\ h = s[1] /\ DOMAIN t = 1 .. l - 1
      /\ \A n \in 1 .. l - 1 : t[n] = s[n + 1]
  BY <1>1
<1> HIDE DEF t, h, l
<1>3. Range(s) = {h} \cup Range(t)
  <2>1. ASSUME NEW n \in DOMAIN s PROVE s[n] \in {h} \cup Range(t)
    <3>1. CASE n = 1
      BY <1>2, <3>1
    <3>2. CASE n # 1
      <4>1. n - 1 \in DOMAIN t /\ t[n - 1] = s[n]
        BY <1>2, <3>2
      <4> QED
        BY <4>1 DEF Range
    <3> QED
      BY <3>1, <3>2
  <2>2. ASSUME NEW n \in DOMAIN t PROVE t[n] \in Range(s)
    <3>1. n + 1 \in DOMAIN s /\ t[n] = s[n + 1]
      BY <1>2
    <3> QED
      BY <3>1 DEF Range
  <2>3. h \in Range(s)
    BY <1>2 DEF Range
  <2> QED
    BY <2>1, <2>2, <2>3 DEF Range
<1>4. Rising(t)
  <2>1. ASSUME NEW m \in DOMAIN t, NEW n \in DOMAIN t, m < n
        PROVE  t[m] < t[n]
    <3>1. l \in Nat /\ m \in 1 .. l - 1 /\ n \in 1 .. l - 1
      BY <1>2
    <3>2. m + 1 \in 1 .. l /\ n + 1 \in 1 .. l /\ m + 1 < n + 1
      BY <2>1, <3>1
    <3>3. t[m] = s[m + 1] /\ t[n] = s[n + 1]
      BY <1>2, <3>1
    <3>4. m + 1 \in DOMAIN s /\ n + 1 \in DOMAIN s
      BY <1>2, <3>2
    <3> QED
      BY <3>2, <3>3, <3>4 DEF Rising
  <2> QED
    BY <2>1 DEF Rising
<1>5. Before({h}, Range(t))
  <2>1. ASSUME NEW n \in DOMAIN t PROVE h < t[n]
    <3>1. /\ 1 \in DOMAIN s /\ n + 1 \in DOMAIN s /\ 1 < n + 1
          /\ t[n] = s[n + 1]
      BY <1>2
    <3> QED
      BY <1>2, <3>1 DEF Rising
  <2> QED
    BY <2>1 DEF Before, Range
<1> QED
  BY <1>3, <1>4, <1>5 DEF t, h

LEMMA AppendRising ==
  ASSUME NEW s \in Seq(Nat), Rising(s), NEW x \in Nat, Before(Range(s), {x})
  PROVE  /\ Range(Append(s, x)) = Range(s) \cup {x}
         /\ Rising(Append(s, x))
<1> DEFINE t == Append(s, x)
           l == Len(s)
<1>1. /\ l \in Nat /\ DOMAIN s = 1 .. l /\ DOMAIN t = 1 .. l + 1
      /\ t[l + 1] = x /\ \A n \in 1 .. l : t[n] = s[n]
  OBVIOUS
<1> HIDE DEF t, l
<1>2. Range(t) = Range(s) \cup {x}
  <2>1. ASSUME NEW n \in DOMAIN t PROVE t[n] \in Range(s) \cup {x}
    <3>1. n = l + 1 \/ n \in 1 .. l
      BY <1>1
    <3> QED
      BY <1>1, <3>1 DEF Range
  <2>2. ASSUME NEW n \in DOMAIN s PROVE s[n] \in Range(t)
    <3>1. n \in DOMAIN t /\ t[n] = s[n]
      BY <1>1
    <3> QED
      BY <3>1 DEF Range
  <2>3. x \in Range(t)
    BY <1>1 DEF Range
  <2> QED
    BY <2>1, <2>2, <2>3 DEF Range
<1>3. Rising(t)
  <2>1. ASSUME NEW m \in DOMAIN t, NEW n \in DOMAIN t, m < n
        PROVE  t[m] < t[n]
    <3>1. m \in DOMAIN s /\ t[m] = s[m] /\ s[m] \in Range(s)
      BY <1>1, <2>1 DEF Range
    <3>2. CASE n = l + 1
      BY <1>1, <3>1, <3>2 DEF Before
    <3>3. CASE n \in 1 .. l
      BY <1>1, <2>1, <3>1, <3>3 DEF Rising
    <3> QED
      BY <1>1, <3>2, <3>3
  <2> QED
    BY <2>1 DEF Rising
<1> QED
  BY <1>2, <1>3 DEF t
(* The same of the results among datagrams.                                *)
LEMMA TailResults ==
  ASSUME NEW s \in Seq(Answers \cup Results), s # <<>>, RisingResults(s)
  PROVE  /\ RisingResults(Tail(s))
         /\ Head(s).kind # Result => ResultNos(s) = ResultNos(Tail(s))
         /\ Head(s).kind = Result =>
              /\ ResultNos(s) = {Head(s).no} \cup ResultNos(Tail(s))
              /\ Before({Head(s).no}, ResultNos(Tail(s)))
<1>1. /\ Len(s) \in Nat /\ Len(s) > 0 /\ DOMAIN s = 1 .. Len(s)
      /\ Head(s) = s[1] /\ DOMAIN Tail(s) = 1 .. Len(s) - 1
      /\ \A n \in 1 .. Len(s) - 1 : Tail(s)[n] = s[n + 1]
  BY EmptySeq
<1> DEFINE t == Tail(s)
           h == Head(s)
           l == Len(s)
<1>2. /\ l \in Nat /\ l > 0 /\ DOMAIN s = 1 .. l
      /\ h = s[1] /\ DOMAIN t = 1 .. l - 1
      /\ \A n \in 1 .. l - 1 : t[n] = s[n + 1]
  BY <1>1
<1> HIDE DEF t, h, l
<1>3. ASSUME NEW n \in DOMAIN t
      PROVE  n + 1 \in DOMAIN s /\ t[n] = s[n + 1] /\ 1 < n + 1 /\ n \in Nat
  BY <1>2
<1>4. ResultNos(t) \subseteq ResultNos(s)
  BY <1>3 DEF ResultNos
<1>5. ASSUME NEW n \in DOMAIN s, n # 1
      PROVE  n - 1 \in DOMAIN t /\ t[n - 1] = s[n]
  BY <1>2, <1>5
<1>6. \A x \in ResultNos(s) :
        x \in ResultNos(t) \/ (h.kind = Result /\ x = h.no)
  <2>1. ASSUME NEW n \in DOMAIN s, s[n].kind = Result
        PROVE  s[n].no \in ResultNos(t) \/ (h.kind = Result /\ s[n].no = h.no)
    <3>1. CASE n = 1
      BY <1>2, <2>1, <3>1
    <3>2. CASE n # 1
      BY <1>5, <2>1, <3>2 DEF ResultNos
    <3> QED
      BY <3>1, <3>2
  <2> QED
    BY <2>1 DEF ResultNos
<1>7. h.kind = Result => h.no \in ResultNos(s)
  BY <1>2 DEF ResultNos
<1>8. RisingResults(t)
  <2>1. ASSUME NEW m \in DOMAIN t, NEW n \in DOMAIN t, m < n,
               t[m].kind = Result, t[n].kind = Result
        PROVE  t[m].no < t[n].no
    <3>1. m + 1 < n + 1
      BY <1>2, <2>1
    <3> QED
      BY <1>3, <2>1, <3>1 DEF RisingResults
  <2> QED
    BY <2>1 DEF RisingResults
<1>9. h.kind = Result => Before({h.no}, ResultNos(t))
  <2>1. ASSUME h.kind = Result, NEW n \in DOMAIN t, t[n].kind = Result
        PROVE  h.no < t[n].no
    <3>1. 1 \in DOMAIN s
      BY <1>2
    <3> QED
      BY <1>2, <1>3, <2>1, <3>1 DEF RisingResults
  <2> QED
    BY <2>1 DEF Before, ResultNos
<1>10. h.kind # Result => ResultNos(s) = ResultNos(t)
  BY <1>4, <1>6
<1>11. h.kind = Result => ResultNos(s) = {h.no} \cup ResultNos(t)
  BY <1>4, <1>6, <1>7
<1> QED
  BY <1>8, <1>9, <1>10, <1>11 DEF t, h

LEMMA AppendResults ==
  ASSUME NEW s \in Seq(Answers \cup Results), RisingResults(s),
         NEW x \in Answers \cup Results,
         x.kind = Result => Before(ResultNos(s), {x.no})
  PROVE  /\ RisingResults(Append(s, x))
         /\ ResultNos(Append(s, x)) =
              ResultNos(s) \cup (IF x.kind = Result THEN {x.no} ELSE {})
<1> DEFINE t == Append(s, x)
           l == Len(s)
<1>1. /\ l \in Nat /\ DOMAIN s = 1 .. l /\ DOMAIN t = 1 .. l + 1
      /\ t[l + 1] = x /\ \A n \in 1 .. l : t[n] = s[n]
  OBVIOUS
<1> HIDE DEF t, l
<1>2. ASSUME NEW n \in DOMAIN t
      PROVE  \/ n = l + 1 /\ t[n] = x
             \/ n \in DOMAIN s /\ t[n] = s[n]
  <2>1. n = l + 1 \/ n \in DOMAIN s
    BY <1>1
  <2> QED
    BY <1>1, <2>1
<1>3. ASSUME NEW n \in DOMAIN s PROVE n \in DOMAIN t /\ t[n] = s[n]
  BY <1>1
<1>4. ResultNos(s) \subseteq ResultNos(t)
  BY <1>3 DEF ResultNos
<1>5. x.kind = Result => x.no \in ResultNos(t)
  BY <1>1 DEF ResultNos
<1>6. \A y \in ResultNos(t) :
        y \in ResultNos(s) \/ (x.kind = Result /\ y = x.no)
  <2>1. ASSUME NEW n \in DOMAIN t, t[n].kind = Result
        PROVE  t[n].no \in ResultNos(s) \/ (x.kind = Result /\ t[n].no = x.no)
    BY <1>2, <2>1 DEF ResultNos
  <2> QED
    BY <2>1 DEF ResultNos
<1>7. RisingResults(t)
  <2>1. ASSUME NEW m \in DOMAIN t, NEW n \in DOMAIN t, m < n,
               t[m].kind = Result, t[n].kind = Result
        PROVE  t[m].no < t[n].no
    <3>1. m \in DOMAIN s /\ t[m] = s[m]
      BY <1>1, <2>1
    <3>2. CASE n = l + 1
      <4>1. t[m].no \in ResultNos(s) /\ t[n] = x
        BY <1>1, <2>1, <3>1, <3>2 DEF ResultNos
      <4> QED
        BY <2>1, <4>1 DEF Before
    <3>3. CASE n # l + 1
      BY <1>2, <2>1, <3>1, <3>3 DEF RisingResults
    <3> QED
      BY <3>2, <3>3
  <2> QED
    BY <2>1 DEF RisingResults
<1>8. ResultNos(t) = ResultNos(s) \cup (IF x.kind = Result THEN {x.no} ELSE {})
  <2>1. CASE x.kind = Result
    BY <1>4, <1>5, <1>6, <2>1
  <2>2. CASE x.kind # Result
    BY <1>4, <1>6, <2>2
  <2> QED
    BY <2>1, <2>2
<1> QED
  BY <1>7, <1>8 DEF t
LEMMA InitConserved == Init => Conserved
<1> SUFFICES ASSUME Init PROVE Conserved
  OBVIOUS
<1>1. /\ upward = <<>> /\ got = <<>> /\ pkgresultqueue = <<>>
      /\ send_en = FALSE /\ produced = 0 /\ lost = 0
  BY DEF Init
<1>2. Range(got) = {} /\ ResultNos(upward) = {} /\ InBuffer = {} /\ Waiting = {}
  BY <1>1 DEF Range, ResultNos, InBuffer, Waiting
<1>3. Reported = {} /\ Cardinality(Reported) + lost = produced
  BY <1>1, <1>2, FS_EmptySet DEF Reported
<1>4. Rising(got) /\ RisingResults(upward) /\ Rising(pkgresultqueue)
  BY <1>1 DEF Rising, RisingResults
<1> QED
  BY <1>2, <1>3, <1>4 DEF Conserved, ResultsConserved, Before

(* A number handed on from one place to the next keeps the set of all.     *)
LEMMA SameReported ==
  ASSUME Conserved, Reported' = Reported, UNCHANGED <<produced, lost>>,
         Rising(got'), RisingResults(upward'), Rising(pkgresultqueue'),
         Before(Range(got'), ResultNos(upward') \cup InBuffer' \cup Waiting'),
         Before(ResultNos(upward'), InBuffer' \cup Waiting'),
         Before(InBuffer', Waiting')
  PROVE  Conserved'
<1>1. /\ Rising(got)' = Rising(got') /\ RisingResults(upward)' = RisingResults(upward')
      /\ Rising(pkgresultqueue)' = Rising(pkgresultqueue')
  BY DEF Rising, RisingResults
<1>2. ResultsConserved'
  BY <1>1 DEF Conserved, ResultsConserved, Before, Range, ResultNos
<1> QED
  BY <1>2 DEF Conserved

(* One that is lost leaves the set and is counted.                         *)
LEMMA OneLost ==
  ASSUME Sound, Conserved, NEW x \in Reported, Reported' = Reported \ {x},
         produced' = produced, lost' = lost + 1,
         Rising(got'), RisingResults(upward'), Rising(pkgresultqueue'),
         Before(Range(got'), ResultNos(upward') \cup InBuffer' \cup Waiting'),
         Before(ResultNos(upward'), InBuffer' \cup Waiting'),
         Before(InBuffer', Waiting')
  PROVE  Conserved'
<1>1. /\ Rising(got)' = Rising(got') /\ RisingResults(upward)' = RisingResults(upward')
      /\ Rising(pkgresultqueue)' = Rising(pkgresultqueue')
  BY DEF Rising, RisingResults
<1>2. Cardinality(Reported)' + lost' = produced'
  <2>1. Cardinality(Reported \ {x}) = Cardinality(Reported) - 1
    BY ReportedType, FS_RemoveElement
  <2>2. Cardinality(Reported)' = Cardinality(Reported) - 1
    BY <2>1
  <2>3. Cardinality(Reported) \in Nat /\ lost \in Nat
        /\ Cardinality(Reported) + lost = produced
    BY ReportedType DEF Sound, TypeOK, Conserved, ResultsConserved
  <2> QED
    BY <2>2, <2>3
<1>3. ResultsConserved'
  BY <1>1, <1>2 DEF ResultsConserved, Before, Range, ResultNos
<1> QED
  BY <1>3 DEF Conserved

(* udp_send_process: from the buffer to the network, or lost.              *)
LEMMA SendConserved ==
  ASSUME Sound, Conserved, udp_send_process
  PROVE  Conserved'
<1>1. UNCHANGED <<pkgresultqueue, got, produced>>
  BY DEF udp_send_process, server
<1>2. Range(got') = Range(got) /\ Waiting' = Waiting
  BY <1>1 DEF Waiting
<1>3. /\ Rising(got) /\ RisingResults(upward) /\ Rising(pkgresultqueue)
      /\ Before(Range(got), ResultNos(upward) \cup InBuffer \cup Waiting)
      /\ Before(ResultNos(upward), InBuffer \cup Waiting)
      /\ Before(InBuffer, Waiting)
  BY DEF Conserved, ResultsConserved
<1>4. Reported' = Range(got') \cup ResultNos(upward') \cup InBuffer' \cup Waiting'
  BY DEF Reported, Range, ResultNos
<1>5. CASE statue = "OK" /\ send_en
  <2>1. /\ Departs(send_buf) \/ Fails(send_buf)
        /\ send_en' = FALSE
    BY <1>5 DEF udp_send_process
  <2>2. InBuffer' = {}
    BY <2>1 DEF InBuffer
  <2>3. /\ upward \in Seq(Answers \cup Results)
        /\ send_buf \in Answers \cup Results \cup {Nothing}
    BY DEF Sound, TypeOK
  <2>4. InBuffer = IF send_buf.kind = Result THEN {send_buf.no} ELSE {}
    BY <1>5 DEF InBuffer
  <2>5. CASE Departs(send_buf)
    <3>1. /\ upward' = IF send_buf = Nothing THEN upward
                       ELSE Append(upward, send_buf)
          /\ lost' = lost
      BY <2>5 DEF Departs
    <3>2. /\ RisingResults(upward')
          /\ ResultNos(upward') = ResultNos(upward) \cup InBuffer
      <4>1. CASE send_buf = Nothing
        BY <1>3, <2>4, <3>1, <4>1, Numbered
      <4>2. CASE send_buf # Nothing
        <5>1. send_buf \in Answers \cup Results
          BY <2>3, <4>2
        <5>2. send_buf.kind = Result => Before(ResultNos(upward), {send_buf.no})
          BY <1>3, <2>4 DEF Before
        <5> QED
          BY <1>3, <2>3, <2>4, <3>1, <4>2, <5>1, <5>2, AppendResults
      <4> QED
        BY <4>1, <4>2
    <3>3. Reported' = Reported
      BY <1>2, <1>4, <2>2, <3>2 DEF Reported
    <3>4. /\ Before(Range(got'), ResultNos(upward') \cup InBuffer' \cup Waiting')
          /\ Before(ResultNos(upward'), InBuffer' \cup Waiting')
          /\ Before(InBuffer', Waiting')
      BY <1>2, <1>3, <2>2, <3>2 DEF Before
    <3> QED
      BY <1>1, <1>3, <3>1, <3>2, <3>3, <3>4, SameReported
  <2>6. CASE Fails(send_buf)
    <3>1. /\ lost' = IF send_buf.kind = Result THEN lost + 1 ELSE lost
          /\ upward' = upward
      BY <2>6 DEF Fails
    <3>2. /\ Before(Range(got'), ResultNos(upward') \cup InBuffer' \cup Waiting')
          /\ Before(ResultNos(upward'), InBuffer' \cup Waiting')
          /\ Before(InBuffer', Waiting')
      BY <1>2, <1>3, <2>2, <3>1 DEF Before
    <3>3. CASE send_buf.kind = Result
      <4>1. InBuffer = {send_buf.no} /\ send_buf.no \in Reported
        BY <2>4, <3>3 DEF Reported
      <4>2. send_buf.no \in Nat
        BY <4>1, ReportedType
      <4>3. send_buf.no \notin Range(got) \cup ResultNos(upward) \cup Waiting
        BY <1>3, <4>1, <4>2 DEF Before
      <4>4. Reported' = Reported \ {send_buf.no}
        BY <1>2, <1>4, <2>2, <3>1, <4>1, <4>3 DEF Reported
      <4> QED
        BY <1>1, <1>3, <3>1, <3>2, <3>3, <4>1, <4>4, OneLost
    <3>4. CASE send_buf.kind # Result
      <4>1. InBuffer = {}
        BY <2>4, <3>4
      <4>2. Reported' = Reported
        BY <1>2, <1>4, <2>2, <3>1, <4>1 DEF Reported
      <4> QED
        BY <1>1, <1>3, <3>1, <3>2, <3>4, <4>2, SameReported
    <3> QED
      BY <3>3, <3>4
  <2> QED
    BY <2>1, <2>5, <2>6
<1>6. CASE ~(statue = "OK" /\ send_en)
  <2>1. UNCHANGED <<send_en, send_buf, upward, lost>>
    BY <1>6 DEF udp_send_process
  <2>2. InBuffer' = InBuffer
    BY <2>1 DEF InBuffer
  <2>3. Reported' = Reported
    BY <1>2, <1>4, <2>1, <2>2 DEF Reported
  <2> QED
    BY <1>1, <1>2, <1>3, <2>1, <2>2, <2>3, SameReported
<1> QED
  BY <1>5, <1>6
(* send_message_to_server: from the ring to the buffer, which is free.     *)
LEMMA MessageConserved ==
  ASSUME Sound, Conserved, send_message_to_server
  PROVE  Conserved'
<1>1. UNCHANGED <<upward, got, produced, lost>>
  BY DEF send_message_to_server, server
<1>2. Range(got') = Range(got) /\ ResultNos(upward') = ResultNos(upward)
  BY <1>1
<1>3. /\ Rising(got) /\ RisingResults(upward) /\ Rising(pkgresultqueue)
      /\ Before(Range(got), ResultNos(upward) \cup InBuffer \cup Waiting)
      /\ Before(ResultNos(upward), InBuffer \cup Waiting)
      /\ Before(InBuffer, Waiting)
  BY DEF Conserved, ResultsConserved
<1>4. Reported' = Range(got') \cup ResultNos(upward') \cup InBuffer' \cup Waiting'
  BY DEF Reported, Range, ResultNos
<1>5. CASE Free /\ msgSendQueue # <<>>
  <2> DEFINE msg == Head(msgSendQueue)
  <2>1. /\ send_en' = TRUE
        /\ IF msg # Result
           THEN send_buf' = [kind |-> msg, no |-> 0] /\ UNCHANGED pkgresultqueue
           ELSE IF pkgresultqueue = <<>>
           THEN send_buf' = Nothing /\ UNCHANGED pkgresultqueue
           ELSE /\ send_buf' = [kind |-> Result, no |-> Head(pkgresultqueue)]
                /\ pkgresultqueue' = Tail(pkgresultqueue)
    BY <1>5 DEF send_message_to_server
  <2> HIDE DEF msg
  <2>2. InBuffer = {}
    BY <1>5 DEF InBuffer, Free
  <2>3. CASE msg # Result \/ pkgresultqueue = <<>>
    <3>1. send_buf'.kind # Result /\ pkgresultqueue' = pkgresultqueue
      BY <2>1, <2>3, Numbered
    <3>2. InBuffer' = {} /\ Waiting' = Waiting
      BY <3>1 DEF InBuffer, Waiting
    <3>3. Reported' = Reported
      BY <1>2, <1>4, <2>2, <3>2 DEF Reported
    <3> QED
      BY <1>1, <1>2, <1>3, <2>2, <3>1, <3>2, <3>3, SameReported
  <2>4. CASE msg = Result /\ pkgresultqueue # <<>>
    <3>1. /\ send_buf' = [kind |-> Result, no |-> Head(pkgresultqueue)]
          /\ pkgresultqueue' = Tail(pkgresultqueue)
      BY <2>1, <2>4
    <3>2. InBuffer' = {Head(pkgresultqueue)}
      BY <2>1, <3>1 DEF InBuffer
    <3>3. pkgresultqueue \in Seq(Nat)
      BY Numbered DEF Sound, TypeOK
    <3>4. /\ Waiting = InBuffer' \cup Waiting' /\ Rising(pkgresultqueue')
          /\ Before(InBuffer', Waiting')
      BY <1>3, <2>4, <3>1, <3>2, <3>3, TailRising DEF Waiting
    <3>5. Reported' = Reported
      BY <1>2, <1>4, <2>2, <3>4 DEF Reported
    <3>6. /\ Before(Range(got'), ResultNos(upward') \cup InBuffer' \cup Waiting')
          /\ Before(ResultNos(upward'), InBuffer' \cup Waiting')
      BY <1>2, <1>3, <3>4 DEF Before
    <3> QED
      BY <1>1, <1>3, <3>4, <3>5, <3>6, SameReported
  <2> QED
    BY <2>3, <2>4
<1>6. CASE ~(Free /\ msgSendQueue # <<>>)
  <2>1. UNCHANGED <<send_en, send_buf, pkgresultqueue>>
    BY <1>6 DEF send_message_to_server
  <2>2. InBuffer' = InBuffer /\ Waiting' = Waiting
    BY <2>1 DEF InBuffer, Waiting
  <2>3. Reported' = Reported
    BY <1>2, <1>4, <2>2 DEF Reported
  <2> QED
    BY <1>1, <1>2, <1>3, <2>1, <2>2, <2>3, SameReported
<1> QED
  BY <1>5, <1>6

(* main_onems_process: a new number goes behind the others.                *)
LEMMA OnemsConserved ==
  ASSUME Sound, Conserved, main_onems_process
  PROVE  Conserved'
<1>1. /\ UNCHANGED <<send_en, send_buf, upward, got, lost>>
      /\ \/ produced' = produced + 1
            /\ pkgresultqueue' = Append(pkgresultqueue, produced + 1)
         \/ UNCHANGED <<produced, pkgresultqueue>>
  BY DEF main_onems_process, server
<1>2. /\ Range(got') = Range(got) /\ ResultNos(upward') = ResultNos(upward)
      /\ InBuffer' = InBuffer
  BY <1>1 DEF InBuffer
<1>3. /\ Rising(got) /\ RisingResults(upward) /\ Rising(pkgresultqueue)
      /\ Before(Range(got), ResultNos(upward) \cup InBuffer \cup Waiting)
      /\ Before(ResultNos(upward), InBuffer \cup Waiting)
      /\ Before(InBuffer, Waiting)
      /\ Cardinality(Reported) + lost = produced
      /\ \A n \in Reported : n <= produced
  BY DEF Conserved, ResultsConserved
<1>4. Reported' = Range(got') \cup ResultNos(upward') \cup InBuffer' \cup Waiting'
  BY DEF Reported, Range, ResultNos
<1>5. CASE UNCHANGED <<produced, pkgresultqueue>>
  <2>1. Waiting' = Waiting
    BY <1>5 DEF Waiting
  <2>2. Reported' = Reported
    BY <1>2, <1>4, <2>1 DEF Reported
  <2> QED
    BY <1>1, <1>2, <1>3, <1>5, <2>1, <2>2, SameReported
<1>6. CASE /\ produced' = produced + 1
           /\ pkgresultqueue' = Append(pkgresultqueue, produced + 1)
  <2> DEFINE x == produced + 1
  <2>1. x \in Nat /\ pkgresultqueue \in Seq(Nat) /\ produced \in Nat
        /\ lost \in Nat
    BY Numbered DEF Sound, TypeOK
  <2>2. produced' = x /\ pkgresultqueue' = Append(pkgresultqueue, x)
    BY <1>6
  <2>3. \A n \in Reported : n \in Nat /\ n < x
    BY <1>3, <2>1, ReportedType
  <2> HIDE DEF x
  <2>4. Before(Reported, {x}) /\ x \notin Reported
    BY <2>1, <2>3 DEF Before
  <2>5. Waiting \subseteq Reported /\ Range(got) \subseteq Reported
        /\ ResultNos(upward) \subseteq Reported /\ InBuffer \subseteq Reported
    BY DEF Reported
  <2>6. Before(Range(pkgresultqueue), {x})
    BY <2>4, <2>5 DEF Before, Waiting
  <2>7. Waiting' = Waiting \cup {x} /\ Rising(pkgresultqueue')
    BY <1>3, <2>1, <2>2, <2>6, AppendRising DEF Waiting
  <2>8. Reported' = Reported \cup {x}
    BY <1>2, <1>4, <2>7 DEF Reported
  <2>9. /\ Before(Range(got'), ResultNos(upward') \cup InBuffer' \cup Waiting')
        /\ Before(ResultNos(upward'), InBuffer' \cup Waiting')
        /\ Before(InBuffer', Waiting')
    BY <1>2, <1>3, <2>4, <2>5, <2>7 DEF Before
  <2>10. Cardinality(Reported)' + lost' = produced'
    <3>1. Cardinality(Reported \cup {x}) = Cardinality(Reported) + 1
      BY <2>4, ReportedType, FS_AddElement
    <3>2. Cardinality(Reported)' = Cardinality(Reported) + 1
      BY <2>8, <3>1
    <3>3. Cardinality(Reported) \in Nat
      BY ReportedType
    <3>4. produced' = produced + 1 /\ lost' = lost
          /\ Cardinality(Reported) + lost = produced
      BY <1>1, <1>3, <1>6
    <3> QED
      BY <2>1, <3>2, <3>3, <3>4
  <2>11. /\ Rising(got)' = Rising(got')
         /\ RisingResults(upward)' = RisingResults(upward')
         /\ Rising(pkgresultqueue)' = Rising(pkgresultqueue')
    BY DEF Rising, RisingResults
  <2>12. ResultsConserved'
    BY <1>1, <1>3, <2>7, <2>9, <2>10, <2>11
    DEF ResultsConserved, Before, Range, ResultNos
  <2>13. \A n \in Reported' : n <= produced'
    BY <2>1, <2>2, <2>3, <2>8
  <2> QED
    BY <2>12, <2>13 DEF Conserved
<1> QED
  BY <1>1, <1>5, <1>6

(* The network: the first of the datagrams arrives or is lost.             *)
LEMMA LoseConserved ==
  ASSUME Sound, Conserved, LoseUpward
  PROVE  Conserved'
<1>1. /\ upward # <<>> /\ upward' = Tail(upward)
      /\ lost' = IF Head(upward).kind = Result THEN lost + 1 ELSE lost
      /\ UNCHANGED <<got, send_en, send_buf, pkgresultqueue, produced>>
  BY DEF LoseUpward, board, server
<1>2. Range(got') = Range(got) /\ InBuffer' = InBuffer /\ Waiting' = Waiting
  BY <1>1 DEF InBuffer, Waiting
<1>3. /\ Rising(got) /\ RisingResults(upward) /\ Rising(pkgresultqueue)
      /\ Before(Range(got), ResultNos(upward) \cup InBuffer \cup Waiting)
      /\ Before(ResultNos(upward), InBuffer \cup Waiting)
      /\ Before(InBuffer, Waiting)
  BY DEF Conserved, ResultsConserved
<1>4. Reported' = Range(got') \cup ResultNos(upward') \cup InBuffer' \cup Waiting'
  BY DEF Reported, Range, ResultNos
<1> DEFINE h == Head(upward)
<1>5. /\ RisingResults(upward')
      /\ h.kind # Result => ResultNos(upward) = ResultNos(upward')
      /\ h.kind = Result => /\ ResultNos(upward) = {h.no} \cup ResultNos(upward')
                            /\ Before({h.no}, ResultNos(upward'))
  BY <1>1, <1>3, TailResults DEF Sound, TypeOK
<1>6. lost' = IF h.kind = Result THEN lost + 1 ELSE lost
  BY <1>1
<1> HIDE DEF h
<1>7. ResultNos(upward') \subseteq ResultNos(upward)
  BY <1>5
<1>8. /\ Before(Range(got'), ResultNos(upward') \cup InBuffer' \cup Waiting')
      /\ Before(ResultNos(upward'), InBuffer' \cup Waiting')
      /\ Before(InBuffer', Waiting')
  BY <1>2, <1>3, <1>7 DEF Before
<1>9. CASE h.kind # Result
  <2>1. Reported' = Reported /\ lost' = lost
    BY <1>2, <1>4, <1>5, <1>6, <1>9 DEF Reported
  <2> QED
    BY <1>1, <1>3, <1>5, <1>8, <2>1, SameReported
<1>10. CASE h.kind = Result
  <2>1. ResultNos(upward) = {h.no} \cup ResultNos(upward')
        /\ Before({h.no}, ResultNos(upward')) /\ lost' = lost + 1
    BY <1>5, <1>6, <1>10
  <2>2. h.no \in Reported
    BY <2>1 DEF Reported
  <2>3. h.no \in Nat
    BY <2>1, ReportedType
  <2>4. h.no \notin Range(got) \cup ResultNos(upward') \cup InBuffer \cup Waiting
    BY <1>3, <2>1, <2>3 DEF Before
  <2>5. Reported' = Reported \ {h.no}
    BY <1>2, <1>4, <2>1, <2>4 DEF Reported
  <2> QED
    BY <1>1, <1>3, <1>5, <1>8, <2>1, <2>2, <2>5, OneLost
<1> QED
  BY <1>9, <1>10

LEMMA TakesConserved ==
  ASSUME Sound, Conserved, ServerTakes
  PROVE  Conserved'
<1> DEFINE h == Head(upward)
<1>1. /\ upward # <<>> /\ upward' = Tail(upward)
      /\ IF h.kind = Result THEN got' = Append(got, h.no) ELSE got' = got
      /\ UNCHANGED <<send_en, send_buf, pkgresultqueue, produced, lost>>
  BY DEF ServerTakes, board
<1>2. InBuffer' = InBuffer /\ Waiting' = Waiting
  BY <1>1 DEF InBuffer, Waiting
<1>3. /\ Rising(got) /\ RisingResults(upward) /\ Rising(pkgresultqueue)
      /\ Before(Range(got), ResultNos(upward) \cup InBuffer \cup Waiting)
      /\ Before(ResultNos(upward), InBuffer \cup Waiting)
      /\ Before(InBuffer, Waiting)
  BY DEF Conserved, ResultsConserved
<1>4. Reported' = Range(got') \cup ResultNos(upward') \cup InBuffer' \cup Waiting'
  BY DEF Reported, Range, ResultNos
<1>5. /\ RisingResults(upward')
      /\ h.kind # Result => ResultNos(upward) = ResultNos(upward')
      /\ h.kind = Result => /\ ResultNos(upward) = {h.no} \cup ResultNos(upward')
                            /\ Before({h.no}, ResultNos(upward'))
  BY <1>1, <1>3, TailResults DEF Sound, TypeOK
<1> HIDE DEF h
<1>6. CASE h.kind # Result
  <2>1. Reported' = Reported /\ got' = got
    BY <1>1, <1>2, <1>4, <1>5, <1>6 DEF Reported
  <2>2. Range(got') = Range(got) /\ ResultNos(upward') = ResultNos(upward)
    BY <1>5, <1>6, <2>1
  <2> QED
    BY <1>1, <1>2, <1>3, <1>5, <2>1, <2>2, SameReported
<1>7. CASE h.kind = Result
  <2>1. /\ ResultNos(upward) = {h.no} \cup ResultNos(upward')
        /\ Before({h.no}, ResultNos(upward')) /\ got' = Append(got, h.no)
    BY <1>1, <1>5, <1>7
  <2>2. h.no \in Nat /\ got \in Seq(Nat)
    BY <2>1, ReportedType, Numbered DEF Sound, TypeOK
  <2>3. Before(Range(got), {h.no})
    BY <1>3, <2>1 DEF Before
  <2>4. Range(got') = Range(got) \cup {h.no} /\ Rising(got')
    BY <1>3, <2>1, <2>2, <2>3, AppendRising
  <2>5. Reported' = Reported
    BY <1>2, <1>4, <2>1, <2>4 DEF Reported
  <2>6. /\ Before(Range(got'), ResultNos(upward') \cup InBuffer' \cup Waiting')
        /\ Before(ResultNos(upward'), InBuffer' \cup Waiting')
        /\ Before(InBuffer', Waiting')
    BY <1>2, <1>3, <2>1, <2>4 DEF Before
  <2> QED
    BY <1>1, <1>3, <1>5, <2>4, <2>5, <2>6, SameReported
<1> QED
  BY <1>6, <1>7

LEMMA NextConserved ==
  ASSUME Sound, Conserved, [Next]_vars
  PROVE  Conserved'
<1>1. CASE udp_send_process \/ send_message_to_server \/ main_onems_process
  BY <1>1, SendConserved, MessageConserved, OnemsConserved
<1>2. CASE LoseUpward \/ ServerTakes
  BY <1>2, LoseConserved, TakesConserved
<1>3. CASE \/ Arrive \/ Time_Update \/ Look \/ recv_msg_process \/ ReadyAgain
           \/ LoseDownward \/ (\E k \in Kind : Ask(k) \/ AskEarly(k))
           \/ UNCHANGED vars
  <2>1. UNCHANGED <<upward, got, send_en, send_buf, pkgresultqueue, produced,
                    lost>>
    BY <1>3
    DEF Arrive, Time_Update, Look, recv_msg_process, ReadyAgain, LoseDownward,
        Ask, AskEarly, vars, board, server
  <2>2. InBuffer' = InBuffer /\ Waiting' = Waiting /\ Range(got') = Range(got)
        /\ ResultNos(upward') = ResultNos(upward)
    BY <2>1 DEF InBuffer, Waiting
  <2>3. Reported' = Reported
    BY <2>1, <2>2 DEF Reported, Range, ResultNos
  <2> QED
    BY <2>1, <2>2, <2>3, SameReported DEF Conserved, ResultsConserved
<1> QED
  BY <1>1, <1>2, <1>3 DEF Next, Pass

(* Every result is on its way once and in order, or counted as lost, for   *)
(* any number of results, any size of the queue and any losses.            *)
THEOREM ResultsKept == Spec => []ResultsConserved
<1>1. Init => Sound /\ Conserved
  BY InitSound, InitConserved
<1>2. Sound /\ Conserved /\ [Next]_vars => (Sound /\ Conserved)'
  BY NextSound, NextConserved
<1>3. Sound /\ Conserved => ResultsConserved
  BY DEF Conserved
<1> QED
  BY <1>1, <1>2, <1>3, PTL DEF Spec
=============================================================================
