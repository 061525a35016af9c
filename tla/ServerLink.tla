----------------------------- MODULE ServerLink -----------------------------
(***************************************************************************)
(* The master's side of the server protocol.  The Ethernet interrupt puts  *)
(* a datagram in tcp_recv_buf (udp_receive_callback); the main loop acts   *)
(* upon it, queues the answer and sends one message per pass               *)
(* (udp_client_process, send_message_to_server).  What has become of the   *)
(* packages waits in a ring of its own and is announced in the same queue  *)
(* every millisecond as long as some is left.                              *)
(*                                                                         *)
(* The server is external.  It has one request of each kind outstanding,   *)
(* and sends it again until an answer of its kind comes: an answer says    *)
(* the kind of the request.  (That to a configuration packet also carries  *)
(* zonetmp.pkgcurnum as it is when it is sent; this server does without.)  *)
(* Mostly it waits until no answer can come any more; it may be early      *)
(* MaxEarly times.  Datagrams get lost on the way, or when no pbuf is left.*)
(***************************************************************************)
EXTENDS Integers, Sequences, FiniteSets, Functions

CONSTANTS
  Kind,        \* the kinds of requests that are answered at once
  MaxRequests, \* requests of each kind
  MaxResults,  \* packages whose result is reported
  QueueMax,    \* messages that fit into msgSendQueue
  MaxFaults,   \* bound on lost datagrams
  MaxEarly     \* bound on repetitions before the answer can be missed

ASSUME LinkAssumption ==
  /\ MaxRequests \in Nat \ {0} /\ MaxResults \in Nat
  /\ QueueMax \in Nat \ {0} /\ MaxFaults \in Nat /\ MaxEarly \in Nat
  /\ IsFiniteSet(Kind) /\ Kind \cap {"none", "result"} = {}

VARIABLES
  statue,      \* tcp_client_statue once connected
  recv_buf,    \* tcp_recv_buf, the last request taken
  handled,     \* the requests acted upon
  pc, cmd,     \* where the main loop is; the kind it is handling
  msgSendQueue,
  send_en, send_buf,
  onems_flag,
  pkgresultqueue,
  upward, downward,   \* datagrams to the server and to the board
  asked,       \* the server: number of the current request of each kind
  got,         \* the server: results, in the order they came
  produced, lost,     \* results put in the ring; of these, lost on the way
  faults, early, hasty

board  == <<statue, recv_buf, handled, pc, cmd, msgSendQueue, send_en,
            send_buf, onems_flag, pkgresultqueue>>
server == <<asked, got, early, hasty>>
vars   == <<board, upward, downward, server, produced, lost, faults>>

Nothing == [kind |-> "none", no |-> 0]
Request == [kind : Kind, no : 1 .. MaxRequests]
Result  == "result"
Results == [kind : {Result}, no : 1 .. MaxResults]
Answers == [kind : Kind, no : {0}]

Init ==
  /\ statue = "OK" /\ recv_buf = Nothing /\ handled = {}
  /\ pc = "recv" /\ cmd = Nothing.kind
  /\ msgSendQueue = <<>>
  /\ send_en = FALSE /\ send_buf = Nothing
  /\ onems_flag = FALSE
  /\ pkgresultqueue = <<>>
  /\ upward = <<>> /\ downward = <<>>
  /\ asked = [k \in Kind |-> 1] /\ got = <<>>
  /\ produced = 0 /\ lost = 0
  /\ faults = 0 /\ early = 0 /\ hasty = FALSE
-----------------------------------------------------------------------------
(* The board's interrupts.                                                 *)

(* Mutant of Accepts: a datagram is taken whatever waits.                  *)
AcceptsAlways == statue \in {"OK", "RECV"}

Accepts == statue = "OK"

(* udp_receive_callback: what comes while the last datagram waits is       *)
(* dropped.                                                                *)
Arrive ==
  /\ downward # <<>>
  /\ downward' = Tail(downward)
  /\ IF Accepts
     THEN recv_buf' = Head(downward) /\ statue' = "RECV"
     ELSE UNCHANGED <<recv_buf, statue>>
  /\ UNCHANGED <<handled, pc, cmd, msgSendQueue, send_en, send_buf,
                 onems_flag, pkgresultqueue, upward, server, produced, lost,
                 faults>>

Time_Update ==
  /\ ~onems_flag
  /\ onems_flag' = TRUE
  /\ UNCHANGED <<statue, recv_buf, handled, pc, cmd, msgSendQueue, send_en,
                 send_buf, pkgresultqueue, upward, downward, server, produced,
                 lost, faults>>
-----------------------------------------------------------------------------
(* The main loop.                                                          *)

(* Mutant of AddSendMsgToQueue: one message too many.                      *)
OneTooMany(q, msg) == IF Len(q) <= QueueMax THEN Append(q, msg) ELSE q

(* enQueue: a message that finds the queue full is forgotten.              *)
AddSendMsgToQueue(q, msg) == IF Len(q) < QueueMax THEN Append(q, msg) ELSE q

(* udp_client_process looks for a datagram.                                *)
Look ==
  /\ pc = "recv"
  /\ IF statue = "RECV"
     THEN pc' = "handle" /\ cmd' = recv_buf.kind
     ELSE pc' = "send" /\ UNCHANGED cmd
  /\ UNCHANGED <<statue, recv_buf, handled, msgSendQueue, send_en, send_buf,
                 onems_flag, pkgresultqueue, upward, downward, server,
                 produced, lost, faults>>

(* recv_msg_process: the kind was read before, the contents are read now.  *)
recv_msg_process ==
  /\ pc = "handle" /\ pc' = "ok"
  /\ handled' = IF recv_buf.kind = cmd THEN handled \cup {recv_buf}
                ELSE handled
  /\ msgSendQueue' = AddSendMsgToQueue(msgSendQueue, cmd)
  /\ UNCHANGED <<statue, recv_buf, cmd, send_en, send_buf, onems_flag,
                 pkgresultqueue, upward, downward, server, produced, lost,
                 faults>>

(* The length is 0 by now: what the buffer holds is read no more.          *)
ReadyAgain ==
  /\ pc = "ok" /\ pc' = "send"
  /\ statue' = "OK" /\ recv_buf' = Nothing /\ cmd' = Nothing.kind
  /\ UNCHANGED <<handled, msgSendQueue, send_en, send_buf, onems_flag,
                 pkgresultqueue, upward, downward, server, produced, lost,
                 faults>>

(* A datagram leaves; the server ignores one without contents.             *)
Departs(m) ==
  /\ upward' = IF m = Nothing THEN upward ELSE Append(upward, m)
  /\ UNCHANGED <<lost, faults>>

(* One is lost for want of a pbuf.                                         *)
Fails(m) ==
  /\ faults < MaxFaults
  /\ faults' = faults + 1
  /\ lost' = IF m.kind = Result THEN lost + 1 ELSE lost
  /\ UNCHANGED upward

(* The rest of udp_client_process: nothing is sent while a datagram waits. *)
udp_send_process ==
  /\ pc = "send" /\ pc' = "msg"
  /\ IF statue = "OK" /\ send_en
     THEN /\ Departs(send_buf) \/ Fails(send_buf)
          /\ send_en' = FALSE /\ send_buf' = Nothing
     ELSE UNCHANGED <<send_en, send_buf, upward, lost, faults>>
  /\ UNCHANGED <<statue, recv_buf, handled, cmd, msgSendQueue, onems_flag,
                 pkgresultqueue, downward, server, produced>>

(* Mutant of Free: the send buffer is written whatever waits in it.        *)
FreeAlways == send_en \in BOOLEAN

Free == ~send_en

(* send_message_to_server: a result is taken from its ring only now, and   *)
(* one that is announced once too often finds it empty.                    *)
send_message_to_server ==
  /\ pc = "msg" /\ pc' = "ms"
  /\ IF Free /\ msgSendQueue # <<>>
     THEN LET msg == Head(msgSendQueue) IN
          /\ msgSendQueue' = Tail(msgSendQueue)
          /\ send_en' = TRUE
          /\ IF msg # Result
             THEN send_buf' = [kind |-> msg, no |-> 0]
                  /\ UNCHANGED pkgresultqueue
             ELSE IF pkgresultqueue = <<>>
             THEN send_buf' = Nothing /\ UNCHANGED pkgresultqueue
             ELSE /\ send_buf' = [kind |-> Result, no |-> Head(pkgresultqueue)]
                  /\ pkgresultqueue' = Tail(pkgresultqueue)
     ELSE UNCHANGED <<msgSendQueue, send_en, send_buf, pkgresultqueue>>
  /\ UNCHANGED <<statue, recv_buf, handled, cmd, onems_flag, upward, downward,
                 server, produced, lost, faults>>

(* Mutant of Announces: only the first result is announced.                *)
AnnouncesOnce(ring) == ring # <<>> /\ Len(ring) > Len(pkgresultqueue)

(* upload_pkg_result_queue announces as long as a result is left.          *)
Announces(ring) == ring # <<>>

(* main_onems_process: the transport logic may have a result.  One that    *)
(* finds the ring full is not put in it, as if there had been none.        *)
main_onems_process ==
  /\ pc = "ms" /\ pc' = "recv"
  /\ IF onems_flag
     THEN /\ onems_flag' = FALSE
          /\ \/ /\ produced < MaxResults
                /\ produced' = produced + 1
                /\ pkgresultqueue' = Append(pkgresultqueue, produced + 1)
             \/ UNCHANGED <<produced, pkgresultqueue>>
          /\ msgSendQueue' = IF Announces(pkgresultqueue')
                             THEN AddSendMsgToQueue(msgSendQueue, Result)
                             ELSE msgSendQueue
     ELSE UNCHANGED <<onems_flag, produced, pkgresultqueue, msgSendQueue>>
  /\ UNCHANGED <<statue, recv_buf, handled, cmd, send_en, send_buf, upward,
                 downward, server, lost, faults>>

Pass == \/ Look \/ recv_msg_process \/ ReadyAgain \/ udp_send_process
        \/ send_message_to_server \/ main_onems_process
-----------------------------------------------------------------------------
(* The network and the server.                                             *)

LoseUpward ==
  /\ upward # <<>>
  /\ faults < MaxFaults
  /\ faults' = faults + 1
  /\ upward' = Tail(upward)
  /\ lost' = IF Head(upward).kind = Result THEN lost + 1 ELSE lost
  /\ UNCHANGED <<board, downward, server, produced>>

LoseDownward ==
  /\ downward # <<>>
  /\ faults < MaxFaults
  /\ faults' = faults + 1
  /\ downward' = Tail(downward)
  /\ UNCHANGED <<board, upward, server, produced, lost>>

Asks(k) == asked[k] <= MaxRequests
Current(k) == [kind |-> k, no |-> asked[k]]

(* Some trace of the current request of kind k, or of its answer.          *)
UnderWay(k) ==
  \/ \E n \in DOMAIN downward : downward[n].kind = k
  \/ statue = "RECV" /\ recv_buf.kind = k /\ pc # "ok"
  \/ \E n \in DOMAIN msgSendQueue : msgSendQueue[n] = k
  \/ send_en /\ send_buf.kind = k
  \/ \E n \in DOMAIN upward : upward[n].kind = k

Ask(k) ==
  /\ Asks(k) /\ ~UnderWay(k)
  /\ downward' = Append(downward, Current(k))
  /\ UNCHANGED <<board, upward, server, produced, lost, faults>>

AskEarly(k) ==
  /\ Asks(k) /\ UnderWay(k)
  /\ early < MaxEarly
  /\ early' = early + 1
  /\ hasty' = TRUE
  /\ downward' = Append(downward, Current(k))
  /\ UNCHANGED <<board, upward, asked, got, produced, lost, faults>>

ServerTakes ==
  /\ upward # <<>>
  /\ upward' = Tail(upward)
  /\ LET m == Head(upward) IN
     IF m.kind = Result
     THEN got' = Append(got, m.no) /\ UNCHANGED asked
     ELSE /\ asked' = IF Asks(m.kind) THEN [asked EXCEPT ![m.kind] = @ + 1]
                      ELSE asked
          /\ UNCHANGED got
  /\ UNCHANGED <<board, downward, early, hasty, produced, lost, faults>>

Next ==
  \/ Arrive \/ Time_Update \/ Pass
  \/ LoseUpward \/ LoseDownward \/ ServerTakes
  \/ \E k \in Kind : Ask(k) \/ AskEarly(k)

Spec == Init /\ [][Next]_vars

(* The main loop never stops and the clock never does; the network brings  *)
(* what it does not lose; the server does not give up.  Its repetitions    *)
(* are further apart than two passes: they do not hit the instructions     *)
(* between ReadyAgain and udp_send_process in every pass.                  *)
Sends == statue = "OK" /\ send_en /\ udp_send_process

FairSpec ==
  /\ Spec
  /\ WF_vars(Pass) /\ SF_vars(Sends) /\ WF_vars(Time_Update)
  /\ WF_vars(Arrive) /\ WF_vars(ServerTakes)
  /\ \A k \in Kind : WF_vars(Ask(k))
-----------------------------------------------------------------------------
TypeOK ==
  /\ statue \in {"OK", "RECV"}
  /\ recv_buf \in Request \cup {Nothing} /\ handled \subseteq Request
  /\ pc \in {"recv", "handle", "ok", "send", "msg", "ms"}
  /\ cmd \in Kind \cup {Nothing.kind}
  /\ msgSendQueue \in Seq(Kind \cup {Result}) /\ Len(msgSendQueue) <= QueueMax
  /\ send_en \in BOOLEAN /\ send_buf \in Answers \cup Results \cup {Nothing}
  /\ onems_flag \in BOOLEAN
  /\ pkgresultqueue \in Seq(1 .. MaxResults)
  /\ upward \in Seq(Answers \cup Results) /\ downward \in Seq(Request)
  /\ asked \in [Kind -> 1 .. MaxRequests + 1]
  /\ got \in Seq(1 .. MaxResults)
  /\ produced \in 0 .. MaxResults /\ lost \in Nat
  /\ faults \in 0 .. MaxFaults /\ early \in 0 .. MaxEarly
  /\ hasty \in BOOLEAN

(* A request the server believes done was acted upon, however the          *)
(* interrupt falls into the handling and whatever is lost or dropped.  It  *)
(* holds for a server that repeats a request only when no answer to it can *)
(* come any more: an answer does not say which request it is for.          *)
AnsweredIsHandled ==
  hasty \/ \A r \in Request : r.no < asked[r.kind] => r \in handled

(* Where the number of a package can be: with the server, on the way to it,*)
(* in the board's send buffer, in the ring.                                *)
ResultNos(s) == {s[n].no : n \in {k \in DOMAIN s : s[k].kind = Result}}
InBuffer     == IF send_en /\ send_buf.kind = Result THEN {send_buf.no} ELSE {}
Waiting      == Range(pkgresultqueue)
Reported     == Range(got) \cup ResultNos(upward) \cup InBuffer \cup Waiting

Rising(s) == \A m, n \in DOMAIN s : m < n => s[m] < s[n]

RisingResults(s) ==
  \A m, n \in DOMAIN s :
    m < n /\ s[m].kind = Result /\ s[n].kind = Result => s[m].no < s[n].no

Before(S, T) == \A a \in S, b \in T : a < b

(* Every result is on its way exactly once and in order, however often it  *)
(* was announced; it is lost only with the datagram that carries it, and   *)
(* then for good: nobody asks for it again.                                *)
ResultsConserved ==
  /\ Cardinality(Reported) + lost = produced
  /\ Rising(got) /\ RisingResults(upward) /\ Rising(pkgresultqueue)
  /\ Before(Range(got), ResultNos(upward) \cup InBuffer \cup Waiting)
  /\ Before(ResultNos(upward), InBuffer \cup Waiting)
  /\ Before(InBuffer, Waiting)

(* In the end the server has an answer to every request, and no result is  *)
(* left on the board: a full queue costs time but no message.              *)
AllSettled ==
  <>[](/\ \A k \in Kind : ~Asks(k)
       /\ Len(got) + lost = produced)
=============================================================================
