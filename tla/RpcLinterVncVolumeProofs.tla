---------------------- MODULE RpcLinterVncVolumeProofs ----------------------
(***************************************************************************)
(* Proofs about five machines that share no variable.  First RabbitRpc,    *)
(* for any clients, priorities, queue length and numbers of requests and   *)
(* crashes.  Second RequirementsLinter: the index is what the files read   *)
(* so far define, a run without errors means that the code keeps the       *)
(* contract, and one without warnings that the contract lists all that was *)
(* read, for any sources, contract and bounds.  Third VncManager: sessions *)
(* share neither ports nor processes, no port is lost and no websockify    *)
(* process is left without a session, for any machines, ports and          *)
(* processes, and any number of failures and restarts.  Fourth             *)
(* SchedulerService, as an instance: entries leave the crontab only after  *)
(* the row of their job was deleted, for any jobs, limits, failures,       *)
(* timeouts and crashes.  Last VolumeService: nothing is deleted from      *)
(* under a virtual machine, and no file outlives the row of its volume,    *)
(* for any volumes, sizes, timeouts and crashes.                           *)
(*                                                                         *)
(* The attachments a row is left with after detach_volume are computed by  *)
(* a fold, of which nothing is known here; so the types of the volumes     *)
(* leave the lists of attachments open.                                    *)
(***************************************************************************)
EXTENDS RabbitRpc, RequirementsLinter, VncManager, VolumeService, WellFoundedInduction,
        SequenceTheorems, TLAPS

-----------------------------------------------------------------------------
(* RPC over RabbitMQ *)

(***************************************************************************)
(* The inductive invariant.  ReplyMatchesCall alone is not inductive: it   *)
(* needs that a waiting call starts from a cleared response, and that what *)
(* lies in a callback queue is the result of a handler that ran.           *)
(***************************************************************************)
WaitingCalls ==
  \A c \in Clients : waiting[c] =>
    /\ corrId[c] \in 1..lastId
    /\ response[c] = {}
    /\ outcome[corrId[c]].how = "none"
    /\ \A d \in Clients : waiting[d] /\ corrId[d] = corrId[c] => d = c

RepliesFromRuns ==
  /\ \A c \in Clients : \A i \in 1..Len(replies[c]) : runs[replies[c][i].corr] > 0
  /\ stage \in {"ran", "replied"} => \A m \in delivered : runs[m.corr] > 0

OneDelivery ==
  /\ stage = "idle" => delivered = {}
  /\ \A m, n \in queue \cup delivered : m.corr = n.corr => m = n
  /\ \A m, n \in delivered : m = n
  /\ queue \cap delivered = {}

OnlyIssued ==
  /\ \A m \in queue \cup delivered : m.corr <= lastId
  /\ \A i \in CorrIds : i > lastId => runs[i] = 0 /\ outcome[i].how = "none"

RunsBounded ==
  /\ \A m \in queue : runs[m.corr] <= crashes
  /\ stage = "got" => \A m \in delivered : runs[m.corr] <= crashes

RpcInv ==
  /\ RpcTypeOK
  /\ WaitingCalls
  /\ RepliesFromRuns
  /\ OneDelivery
  /\ OnlyIssued
  /\ RunsBounded
  /\ ReplyMatchesCall
  /\ AnswerNeedsRun
  /\ NoRequestLost
  /\ RepeatsNeedCrash

-----------------------------------------------------------------------------
\* The broker only discards: what Enqueue leaves in the queue was there or is
\* the new message, and everything that is gone is counted as dropped.
LEMMA EnqueueKeeps ==
  ASSUME NEW m, Enqueue(m)
  PROVE  /\ queue' \subseteq queue \cup {m}
         /\ \A n \in queue \cup {m} : n \in queue' \/ n.corr \in dropped'
         /\ dropped \subseteq dropped'
         /\ \A k \in dropped' : k \in dropped \/ \E n \in queue \cup {m} : n.corr = k
BY DEF Enqueue, Kept

\* What on_response leaves in self.response: what was there, or a single reply
\* that carries the id of the call in progress.
LEMMA ReceivedMatches ==
  ASSUME NEW c, NEW s, NEW resp \in Received(c, s)
  PROVE  \/ resp = response[c]
         \/ \E i \in DOMAIN s : resp = {s[i]} /\ s[i].corr = corrId[c]
BY DEF Received

LEMMA RpcInitInv == RpcInit => RpcInv
<1> SUFFICES ASSUME RpcInit PROVE RpcInv
  OBVIOUS
<1> USE RpcAssumption DEF RpcInit
<1>1. RpcTypeOK
  BY DEF RpcTypeOK, CorrIds, Outcomes, Pending
<1>2. WaitingCalls /\ RepliesFromRuns /\ OneDelivery /\ OnlyIssued /\ RunsBounded
  BY DEF WaitingCalls, RepliesFromRuns, OneDelivery, OnlyIssued, RunsBounded, Pending
<1>3. ReplyMatchesCall /\ AnswerNeedsRun /\ NoRequestLost /\ RepeatsNeedCrash
  BY DEF ReplyMatchesCall, AnswerNeedsRun, NoRequestLost, RepeatsNeedCrash, Pending, CorrIds
<1> QED BY <1>1, <1>2, <1>3 DEF RpcInv

-----------------------------------------------------------------------------
\* Publishing a request keeps every part about the queue.
LEMMA PublishKeeps ==
  ASSUME RpcInv, lastId < MaxRequests, lastId' = lastId + 1,
         NEW c \in Clients, NEW p \in Priorities, NEW w \in BOOLEAN,
         Enqueue(Request(c, p, w)),
         UNCHANGED <<replies, epoch, outcome, serverVars>>
  PROVE  /\ lastId' \in 0..MaxRequests /\ queue' \subseteq Messages
         /\ dropped' \subseteq CorrIds
         /\ RepliesFromRuns' /\ OneDelivery' /\ OnlyIssued' /\ RunsBounded'
         /\ ReplyMatchesCall' /\ AnswerNeedsRun' /\ NoRequestLost'
         /\ RepeatsNeedCrash'
<1> DEFINE m == Request(c, p, w)
<1> USE RpcAssumption
<1>0. lastId \in Nat /\ lastId + 1 \in CorrIds
  BY DEF RpcInv, RpcTypeOK, CorrIds
<1>1. m \in Messages /\ m.corr = lastId + 1
  BY <1>0 DEF Request, Messages, RpcInv, RpcTypeOK
<1> HIDE DEF m
<1>2. /\ queue' \subseteq queue \cup {m}
      /\ \A n \in queue \cup {m} : n \in queue' \/ n.corr \in dropped'
      /\ dropped \subseteq dropped'
      /\ \A k \in dropped' : k \in dropped \/ \E n \in queue \cup {m} : n.corr = k
  BY EnqueueKeeps, Enqueue(m) DEF m
<1>3. /\ lastId' \in 0..MaxRequests /\ queue' \subseteq Messages
      /\ dropped' \subseteq CorrIds
  <2>1. lastId' \in 0..MaxRequests
    BY DEF RpcInv, RpcTypeOK
  <2>2. queue' \subseteq Messages
    BY <1>1, <1>2 DEF RpcInv, RpcTypeOK
  <2>3. \A n \in Messages : n.corr \in CorrIds
    BY DEF Messages
  <2>4. dropped' \subseteq CorrIds
    BY <1>1, <1>2, <2>3 DEF RpcInv, RpcTypeOK
  <2> QED BY <2>1, <2>2, <2>4
<1>4. runs[m.corr] = 0
  BY <1>0, <1>1 DEF RpcInv, OnlyIssued, CorrIds
<1>5. \A n \in queue \cup delivered : n.corr \in 1..lastId /\ n.corr # m.corr
  <2>1. \A n \in Messages : n.corr \in CorrIds
    BY DEF Messages
  <2> QED BY <1>0, <1>1, <2>1 DEF RpcInv, OnlyIssued, RpcTypeOK, CorrIds
<1>6. OneDelivery'
  BY <1>1, <1>2, <1>5 DEF RpcInv, OneDelivery, serverVars
<1>7. OnlyIssued'
  <2>1. \A n \in queue' \cup delivered' : n.corr <= lastId'
    BY <1>0, <1>1, <1>2, <1>5 DEF serverVars
  <2>2. ASSUME NEW i \in CorrIds, i > lastId'
        PROVE  runs'[i] = 0 /\ outcome'[i].how = "none"
    BY <2>2, <1>0 DEF RpcInv, OnlyIssued, serverVars, CorrIds
  <2> QED BY <2>1, <2>2 DEF OnlyIssued
<1>8. RunsBounded'
  BY <1>2, <1>4 DEF RpcInv, RunsBounded, serverVars, RpcTypeOK
<1>9. NoRequestLost'
  <2> SUFFICES ASSUME NEW i \in 1..(lastId + 1), i \notin dropped', ~(runs[i] > 0)
               PROVE  \E n \in queue' \cup delivered : n.corr = i
    BY DEF NoRequestLost, serverVars
  <2>1. CASE i = lastId + 1
    BY <2>1, <1>1, <1>2
  <2>2. CASE i \in 1..lastId
    BY <2>2, <1>2 DEF RpcInv, NoRequestLost
  <2> QED BY <2>1, <2>2, <1>0
<1>10. RepliesFromRuns' /\ ReplyMatchesCall' /\ AnswerNeedsRun' /\ RepeatsNeedCrash'
  BY DEF RpcInv, RepliesFromRuns, ReplyMatchesCall, AnswerNeedsRun, RepeatsNeedCrash,
         serverVars
<1> QED BY <1>3, <1>6, <1>7, <1>8, <1>9, <1>10

LEMMA CallIInv ==
  ASSUME RpcInv, NEW c \in Clients, NEW p \in CallPriorities, Call(c, p)
  PROVE  RpcInv'
<1> USE RpcAssumption
<1>1. /\ lastId' \in 0..MaxRequests /\ queue' \subseteq Messages
      /\ dropped' \subseteq CorrIds
      /\ RepliesFromRuns' /\ OneDelivery' /\ OnlyIssued' /\ RunsBounded'
      /\ ReplyMatchesCall' /\ AnswerNeedsRun' /\ NoRequestLost'
      /\ RepeatsNeedCrash'
  BY PublishKeeps DEF Call, Priorities
<1>2. RpcTypeOK'
  BY <1>1 DEF RpcInv, RpcTypeOK, Call, serverVars
<1>3. WaitingCalls'
  <2> SUFFICES ASSUME NEW d \in Clients, waiting'[d]
               PROVE  /\ corrId'[d] \in 1..lastId'
                      /\ response'[d] = {}
                      /\ outcome'[corrId'[d]].how = "none"
                      /\ \A e \in Clients : waiting'[e] /\ corrId'[e] = corrId'[d] => e = d
    BY DEF WaitingCalls
  <2>0. lastId \in Nat /\ lastId + 1 \in CorrIds /\ lastId + 1 > lastId
    BY DEF RpcInv, RpcTypeOK, Call, CorrIds
  <2>1. outcome'[lastId + 1].how = "none"
    BY <2>0 DEF RpcInv, OnlyIssued, Call
  <2>2. CASE d = c
    BY <2>0, <2>1, <2>2 DEF RpcInv, RpcTypeOK, WaitingCalls, Call
  <2>3. CASE d # c
    BY <2>0, <2>3 DEF RpcInv, RpcTypeOK, WaitingCalls, Call
  <2> QED BY <2>2, <2>3
<1> QED BY <1>1, <1>2, <1>3 DEF RpcInv

LEMMA CastIInv ==
  ASSUME RpcInv, NEW c \in Clients, NEW p \in CastPriorities, Cast(c, p)
  PROVE  RpcInv'
<1> USE RpcAssumption
<1>1. /\ lastId' \in 0..MaxRequests /\ queue' \subseteq Messages
      /\ dropped' \subseteq CorrIds
      /\ RepliesFromRuns' /\ OneDelivery' /\ OnlyIssued' /\ RunsBounded'
      /\ ReplyMatchesCall' /\ AnswerNeedsRun' /\ NoRequestLost'
      /\ RepeatsNeedCrash'
  BY PublishKeeps DEF Cast, Priorities
<1>2. RpcTypeOK'
  BY <1>1 DEF RpcInv, RpcTypeOK, Cast, serverVars
<1>3. WaitingCalls'
  BY DEF RpcInv, RpcTypeOK, WaitingCalls, Cast
<1> QED BY <1>1, <1>2, <1>3 DEF RpcInv
-----------------------------------------------------------------------------
\* The end of a call, from a response that is empty or answers this very call.
LEMMA FinishKeeps ==
  ASSUME RpcInv, NEW c \in Clients, waiting[c], NEW resp, NEW x \in BOOLEAN,
         \/ resp = {}
         \/ \E b \in Bodies : resp = {b} /\ b.corr = corrId[c] /\ runs[b.corr] > 0,
         Finish(c, resp, x),
         UNCHANGED <<lastId, queue, epoch, corrId, dropped, serverVars>>
  PROVE  /\ response' \in [Clients -> SUBSET Bodies]
         /\ waiting' \in [Clients -> BOOLEAN]
         /\ outcome' \in [CorrIds -> Outcomes]
         /\ WaitingCalls' /\ OneDelivery' /\ OnlyIssued' /\ RunsBounded'
         /\ ReplyMatchesCall' /\ AnswerNeedsRun' /\ NoRequestLost'
         /\ RepeatsNeedCrash'
<1> USE RpcAssumption
<1>0. /\ lastId \in 0..MaxRequests /\ corrId[c] \in 1..lastId /\ corrId[c] \in CorrIds
      /\ outcome[corrId[c]].how = "none"
  BY DEF RpcInv, RpcTypeOK, WaitingCalls, CorrIds
<1>1. resp \in SUBSET Bodies
  OBVIOUS
<1>2. PICK o \in Outcomes :
        /\ outcome' = [outcome EXCEPT ![corrId[c]] = o]
        /\ o.body = resp
  <2>1. \A h \in {"timeout", "raised", "returned"} :
          Ended(h, resp, x) \in Outcomes /\ Ended(h, resp, x).body = resp
    BY <1>1 DEF Ended, Outcomes
  <2>2. resp = {} => Ended("timeout", {}, x) = Ended("timeout", resp, x)
    OBVIOUS
  <2>3. \E h \in {"timeout", "raised", "returned"} :
          outcome' = [outcome EXCEPT ![corrId[c]] = Ended(h, resp, x)]
    BY <2>2 DEF Finish
  <2> QED BY <2>1, <2>3
<1>3. /\ response' \in [Clients -> SUBSET Bodies]
      /\ waiting' \in [Clients -> BOOLEAN]
      /\ outcome' \in [CorrIds -> Outcomes]
  BY <1>0, <1>1, <1>2 DEF RpcInv, RpcTypeOK, Finish
<1>4. WaitingCalls'
  <2> SUFFICES ASSUME NEW d \in Clients, waiting'[d]
               PROVE  /\ corrId'[d] \in 1..lastId'
                      /\ response'[d] = {}
                      /\ outcome'[corrId'[d]].how = "none"
                      /\ \A e \in Clients : waiting'[e] /\ corrId'[e] = corrId'[d] => e = d
    BY DEF WaitingCalls
  <2>1. d # c /\ waiting[d] /\ response'[d] = response[d]
    BY DEF RpcInv, RpcTypeOK, Finish
  <2>2. corrId[d] # corrId[c]
    BY <2>1 DEF RpcInv, WaitingCalls
  <2>3. outcome'[corrId[d]] = outcome[corrId[d]]
    BY <2>1, <2>2, <1>0, <1>2 DEF RpcInv, RpcTypeOK, WaitingCalls, CorrIds
  <2>4. \A e \in Clients : waiting'[e] => waiting[e]
    BY DEF RpcInv, RpcTypeOK, Finish
  <2> QED BY <2>1, <2>3, <2>4 DEF RpcInv, WaitingCalls
<1>5. \A i \in CorrIds : i # corrId[c] => outcome'[i] = outcome[i]
  BY <1>0, <1>2 DEF RpcInv, RpcTypeOK
<1>6. outcome'[corrId[c]].body = resp
  BY <1>0, <1>2 DEF RpcInv, RpcTypeOK
<1>7. OnlyIssued'
  BY <1>0, <1>5 DEF RpcInv, OnlyIssued, serverVars
<1>8. ReplyMatchesCall' /\ AnswerNeedsRun'
  BY <1>5, <1>6 DEF RpcInv, ReplyMatchesCall, AnswerNeedsRun, serverVars
<1>9. OneDelivery' /\ RunsBounded' /\ NoRequestLost' /\ RepeatsNeedCrash'
  BY DEF RpcInv, OneDelivery, RunsBounded, NoRequestLost, RepeatsNeedCrash, serverVars
<1> QED BY <1>3, <1>4, <1>7, <1>8, <1>9

LEMMA ProcessDataEventsIInv ==
  ASSUME RpcInv, NEW c \in Clients, ProcessDataEvents(c)
  PROVE  RpcInv'
<1> USE RpcAssumption
<1>0. waiting[c] /\ replies[c] \in Seq(Bodies) /\ response[c] = {}
  BY DEF ProcessDataEvents, RpcInv, RpcTypeOK, WaitingCalls
<1>1. PICK k \in 1..Len(replies[c]) :
        /\ \E resp \in Received(c, SubSeq(replies[c], 1, k)) : Finish(c, resp, FALSE)
        /\ replies' = [replies EXCEPT ![c] = SubSeq(@, k + 1, Len(@))]
  BY DEF ProcessDataEvents
<1> DEFINE s == SubSeq(replies[c], 1, k)
           t == SubSeq(replies[c], k + 1, Len(replies[c]))
<1>2. \A i \in DOMAIN s : s[i] \in Bodies /\ i \in 1..Len(replies[c]) /\ s[i] = replies[c][i]
  BY <1>0
<1>3. /\ t \in Seq(Bodies)
      /\ \A i \in 1..Len(t) : i + k \in 1..Len(replies[c]) /\ t[i] = replies[c][i + k]
  BY <1>0
<1>4. replies' \in [Clients -> Seq(Bodies)] /\ replies'[c] = t
      /\ \A d \in Clients : d # c => replies'[d] = replies[d]
  BY <1>1, <1>3 DEF RpcInv, RpcTypeOK
<1> HIDE DEF s, t
<1>5. PICK resp \in Received(c, s) : Finish(c, resp, FALSE)
  BY <1>1 DEF s
<1>6. \/ resp = {}
      \/ \E b \in Bodies : resp = {b} /\ b.corr = corrId[c] /\ runs[b.corr] > 0
  BY <1>0, <1>2, <1>5, ReceivedMatches DEF RpcInv, RepliesFromRuns
<1>7. UNCHANGED <<lastId, queue, epoch, corrId, dropped, serverVars>>
  BY DEF ProcessDataEvents
<1>8. /\ response' \in [Clients -> SUBSET Bodies]
      /\ waiting' \in [Clients -> BOOLEAN]
      /\ outcome' \in [CorrIds -> Outcomes]
      /\ WaitingCalls' /\ OneDelivery' /\ OnlyIssued' /\ RunsBounded'
      /\ ReplyMatchesCall' /\ AnswerNeedsRun' /\ NoRequestLost'
      /\ RepeatsNeedCrash'
  BY <1>0, <1>5, <1>6, <1>7, FinishKeeps
<1>9. RepliesFromRuns'
  <2>1. \A d \in Clients : \A i \in 1..Len(replies'[d]) : runs[replies'[d][i].corr] > 0
    <3> SUFFICES ASSUME NEW d \in Clients, NEW i \in 1..Len(replies'[d])
                 PROVE  runs[replies'[d][i].corr] > 0
      OBVIOUS
    <3>1. CASE d = c
      BY <3>1, <1>3, <1>4 DEF RpcInv, RepliesFromRuns
    <3>2. CASE d # c
      BY <3>2, <1>4 DEF RpcInv, RepliesFromRuns
    <3> QED BY <3>1, <3>2
  <2> QED BY <2>1, <1>7 DEF RpcInv, RepliesFromRuns, serverVars
<1>10. RpcTypeOK'
  BY <1>4, <1>7, <1>8 DEF RpcInv, RpcTypeOK, serverVars
<1> QED BY <1>8, <1>9, <1>10 DEF RpcInv

LEMMA ExpireIInv ==
  ASSUME RpcInv, NEW c \in Clients, Expire(c)
  PROVE  RpcInv'
<1>0. waiting[c] /\ response[c] = {} /\ Finish(c, {}, TRUE)
  BY DEF Expire, RpcInv, RpcTypeOK, WaitingCalls
<1>1. UNCHANGED <<lastId, queue, replies, epoch, corrId, dropped, serverVars>>
  BY DEF Expire
<1>2. /\ response' \in [Clients -> SUBSET Bodies]
      /\ waiting' \in [Clients -> BOOLEAN]
      /\ outcome' \in [CorrIds -> Outcomes]
      /\ WaitingCalls' /\ OneDelivery' /\ OnlyIssued' /\ RunsBounded'
      /\ ReplyMatchesCall' /\ AnswerNeedsRun' /\ NoRequestLost'
      /\ RepeatsNeedCrash'
  BY <1>0, <1>1, FinishKeeps
<1>3. RepliesFromRuns'
  BY <1>1 DEF RpcInv, RepliesFromRuns, serverVars
<1>4. RpcTypeOK'
  BY <1>1, <1>2 DEF RpcInv, RpcTypeOK, serverVars
<1> QED BY <1>2, <1>3, <1>4 DEF RpcInv

LEMMA ReplaceIInv ==
  ASSUME RpcInv, NEW c \in Clients, Replace(c)
  PROVE  RpcInv'
<1> USE RpcAssumption
<1> DEFINE o == Ended("abandoned", {}, FALSE)
<1>0. waiting[c] => corrId[c] \in CorrIds
  BY DEF RpcInv, RpcTypeOK, WaitingCalls, CorrIds
<1>1. o \in Outcomes /\ o.body = {}
  BY DEF Ended, Outcomes
<1>2. /\ outcome' \in [CorrIds -> Outcomes]
      /\ \A i \in CorrIds : outcome'[i] = outcome[i] \/ outcome'[i] = o
      /\ \A i \in CorrIds : outcome'[i] # outcome[i] => waiting[c] /\ i = corrId[c]
  BY <1>0, <1>1 DEF Replace, RpcInv, RpcTypeOK
<1> HIDE DEF o
<1>3. RpcTypeOK'
  <2>1. <<>> \in Seq(Bodies) /\ {} \in SUBSET Bodies /\ 0 \in 0..MaxRequests
    OBVIOUS
  <2>2. replies' \in [Clients -> Seq(Bodies)] /\ response' \in [Clients -> SUBSET Bodies]
    BY <2>1 DEF Replace, RpcInv, RpcTypeOK
  <2>3. /\ epoch' \in [Clients -> Nat] /\ corrId' \in [Clients -> 0..MaxRequests]
        /\ waiting' \in [Clients -> BOOLEAN]
    BY <2>1 DEF Replace, RpcInv, RpcTypeOK
  <2> QED BY <1>2, <2>2, <2>3 DEF Replace, RpcInv, RpcTypeOK, serverVars
<1>4. WaitingCalls'
  <2> SUFFICES ASSUME NEW d \in Clients, waiting'[d]
               PROVE  /\ corrId'[d] \in 1..lastId'
                      /\ response'[d] = {}
                      /\ outcome'[corrId'[d]].how = "none"
                      /\ \A e \in Clients : waiting'[e] /\ corrId'[e] = corrId'[d] => e = d
    BY DEF WaitingCalls
  <2>1. \A e \in Clients : waiting'[e] =>
          e # c /\ waiting[e] /\ corrId'[e] = corrId[e] /\ response'[e] = response[e]
    BY DEF Replace, RpcInv, RpcTypeOK
  <2>2. corrId[d] \in CorrIds /\ (waiting[c] => corrId[d] # corrId[c])
    BY <2>1 DEF RpcInv, RpcTypeOK, WaitingCalls, CorrIds
  <2>3. outcome'[corrId[d]] = outcome[corrId[d]]
    BY <2>2, <1>2
  <2>4. lastId' = lastId /\ WaitingCalls
    BY DEF Replace, RpcInv
  <2> QED BY <2>1, <2>3, <2>4 DEF WaitingCalls
<1>5. RepliesFromRuns'
  <2>1. \A d \in Clients : replies'[d] = replies[d] \/ replies'[d] = <<>>
    BY DEF Replace, RpcInv, RpcTypeOK
  <2>2. ASSUME NEW d \in Clients, NEW i \in 1..Len(replies'[d])
        PROVE  runs[replies'[d][i].corr] > 0
    BY <2>1, <2>2 DEF RpcInv, RepliesFromRuns
  <2> QED BY <2>2 DEF Replace, RpcInv, RepliesFromRuns, serverVars
<1>6. OnlyIssued'
  <2>1. ASSUME NEW i \in CorrIds, i > lastId
        PROVE  outcome'[i].how = "none"
    <3>1. ~(waiting[c] /\ i = corrId[c])
      BY <2>1 DEF RpcInv, RpcTypeOK, WaitingCalls, CorrIds
    <3>2. outcome'[i] = outcome[i]
      BY <3>1, <1>2
    <3> QED BY <2>1, <3>2 DEF RpcInv, OnlyIssued
  <2> QED BY <2>1 DEF Replace, RpcInv, OnlyIssued, serverVars
<1>7. ReplyMatchesCall' /\ AnswerNeedsRun'
  BY <1>1, <1>2 DEF Replace, RpcInv, ReplyMatchesCall, AnswerNeedsRun, serverVars
<1>8. OneDelivery' /\ RunsBounded' /\ NoRequestLost' /\ RepeatsNeedCrash'
  BY DEF Replace, RpcInv, OneDelivery, RunsBounded, NoRequestLost, RepeatsNeedCrash,
         serverVars
<1> QED BY <1>3, <1>4, <1>5, <1>6, <1>7, <1>8 DEF RpcInv
-----------------------------------------------------------------------------
\* What the steps of the server leave alone.
LEMMA ServerKeepsClients ==
  ASSUME RpcInv, UNCHANGED <<lastId, corrId, response, waiting, outcome>>
  PROVE  WaitingCalls' /\ ReplyMatchesCall'
BY DEF RpcInv, WaitingCalls, ReplyMatchesCall

LEMMA DeliverIInv ==
  ASSUME RpcInv, Deliver
  PROVE  RpcInv'
<1>1. PICK m \in queue : queue' = queue \ {m} /\ delivered' = {m}
  BY DEF Deliver
<1>2. delivered = {}
  BY DEF Deliver, RpcInv, OneDelivery
<1>3. RpcTypeOK'
  BY <1>1 DEF Deliver, RpcInv, RpcTypeOK, clientVars
<1>4. WaitingCalls' /\ ReplyMatchesCall'
  BY ServerKeepsClients DEF Deliver, clientVars
<1>5. RepliesFromRuns' /\ AnswerNeedsRun' /\ RepeatsNeedCrash'
  BY DEF Deliver, RpcInv, RepliesFromRuns, AnswerNeedsRun, RepeatsNeedCrash, clientVars
<1>6. OneDelivery' /\ OnlyIssued'
  BY <1>1, <1>2 DEF Deliver, RpcInv, OneDelivery, OnlyIssued, clientVars
<1>7. RunsBounded' /\ NoRequestLost'
  BY <1>1, <1>2 DEF Deliver, RpcInv, RunsBounded, NoRequestLost
<1> QED BY <1>3, <1>4, <1>5, <1>6, <1>7 DEF RpcInv

LEMMA RunHandlerIInv ==
  ASSUME RpcInv, RunHandler
  PROVE  RpcInv'
<1>1. PICK m \in delivered : runs' = [runs EXCEPT ![m.corr] = @ + 1]
  BY DEF RunHandler
<1>2. m.corr \in CorrIds /\ m.corr <= lastId /\ runs \in [CorrIds -> Nat]
  BY DEF RpcInv, RpcTypeOK, Messages, OnlyIssued
<1>3. /\ runs' \in [CorrIds -> Nat] /\ runs'[m.corr] = runs[m.corr] + 1
      /\ \A i \in CorrIds : i # m.corr => runs'[i] = runs[i]
  BY <1>1, <1>2
<1>4. \A i \in CorrIds : runs[i] > 0 => runs'[i] > 0
  BY <1>2, <1>3
<1>5. RpcTypeOK'
  BY <1>3 DEF RunHandler, RpcInv, RpcTypeOK, clientVars
<1>6. WaitingCalls' /\ ReplyMatchesCall'
  BY ServerKeepsClients DEF RunHandler, clientVars
<1>7. RepliesFromRuns'
  <2>1. ASSUME NEW c \in Clients, NEW i \in 1..Len(replies[c])
        PROVE  runs'[replies[c][i].corr] > 0
    <3>1. replies[c][i] \in Bodies
      BY DEF RpcInv, RpcTypeOK
    <3>2. replies[c][i].corr \in CorrIds
      BY <3>1 DEF Bodies
    <3> QED BY <3>2, <1>4 DEF RpcInv, RepliesFromRuns
  <2>2. \A n \in delivered : runs'[n.corr] > 0
    BY <1>2, <1>3 DEF RpcInv, OneDelivery
  <2> QED BY <2>1, <2>2 DEF RunHandler, RepliesFromRuns, clientVars
<1>8. OneDelivery' /\ OnlyIssued'
  <2>1. OneDelivery'
    BY DEF RunHandler, RpcInv, OneDelivery
  <2>2. \A i \in CorrIds : i > lastId => i # m.corr
    BY <1>2 DEF RpcInv, RpcTypeOK, CorrIds
  <2> QED BY <2>1, <2>2, <1>3 DEF RunHandler, RpcInv, OnlyIssued, clientVars
<1>9. AnswerNeedsRun' /\ NoRequestLost'
  <2>1. \A i \in 1..lastId : i \in CorrIds
    BY RpcAssumption DEF RpcInv, RpcTypeOK, CorrIds
  <2> QED BY <2>1, <1>4 DEF RunHandler, RpcInv, AnswerNeedsRun, NoRequestLost, clientVars
<1>10. RunsBounded'
  <2>1. ASSUME NEW n \in queue
        PROVE  n.corr \in CorrIds /\ n.corr # m.corr
    BY DEF RpcInv, OneDelivery, RpcTypeOK, Messages
  <2> QED BY <2>1, <1>3 DEF RunHandler, RpcInv, RunsBounded
<1>11. RepeatsNeedCrash'
  BY <1>2, <1>3 DEF RunHandler, RpcInv, RunsBounded, RepeatsNeedCrash, RpcTypeOK
<1> QED BY <1>5, <1>6, <1>7, <1>8, <1>9, <1>10, <1>11 DEF RpcInv

LEMMA ReplyIInv ==
  ASSUME RpcInv, Reply
  PROVE  RpcInv'
<1>1. PICK m \in delivered, kind \in {"data", "err", "emptyErr"} :
        IF m.wantsReply /\ m.epoch = epoch[m.client]
        THEN replies' = [replies EXCEPT ![m.client] =
                           Append(@, [kind |-> kind, corr |-> m.corr])]
        ELSE UNCHANGED replies
  BY DEF Reply
<1> DEFINE b == [kind |-> kind, corr |-> m.corr]
<1>2. m.client \in Clients /\ b \in Bodies /\ b.corr = m.corr /\ runs[m.corr] > 0
  BY DEF Reply, RpcInv, RpcTypeOK, Messages, Bodies, RepliesFromRuns
<1> HIDE DEF b
<1>3. \A d \in Clients : /\ replies[d] \in Seq(Bodies)
                         /\ replies'[d] = replies[d] \/ replies'[d] = Append(replies[d], b)
  BY <1>1, <1>2 DEF RpcInv, RpcTypeOK, b
<1>4. replies' \in [Clients -> Seq(Bodies)]
  <2>1. replies \in [Clients -> Seq(Bodies)] /\ Append(replies[m.client], b) \in Seq(Bodies)
    BY <1>2 DEF RpcInv, RpcTypeOK
  <2>2. CASE UNCHANGED replies
    BY <2>1, <2>2
  <2>3. CASE replies' = [replies EXCEPT ![m.client] = Append(@, b)]
    BY <2>1, <2>3
  <2> QED BY <1>1, <2>2, <2>3 DEF b
<1>5. RpcTypeOK'
  BY <1>4 DEF Reply, RpcInv, RpcTypeOK
<1>6. WaitingCalls' /\ ReplyMatchesCall'
  BY ServerKeepsClients DEF Reply
<1>7. RepliesFromRuns'
  <2>1. ASSUME NEW d \in Clients, NEW i \in 1..Len(replies'[d])
        PROVE  runs[replies'[d][i].corr] > 0
    <3>1. CASE replies'[d] = replies[d]
      BY <3>1 DEF RpcInv, RepliesFromRuns
    <3>2. CASE replies'[d] = Append(replies[d], b)
      <4>1. CASE i \in 1..Len(replies[d])
        BY <3>2, <4>1, <1>2, <1>3 DEF RpcInv, RepliesFromRuns
      <4>2. CASE i = Len(replies[d]) + 1
        BY <3>2, <4>2, <1>2, <1>3
      <4> QED BY <3>2, <4>1, <4>2, <1>2, <1>3
    <3> QED BY <3>1, <3>2, <1>3
  <2> QED BY <2>1 DEF Reply, RpcInv, RepliesFromRuns
<1>8. OneDelivery' /\ OnlyIssued' /\ RunsBounded' /\ AnswerNeedsRun'
      /\ NoRequestLost' /\ RepeatsNeedCrash'
  BY DEF Reply, RpcInv, OneDelivery, OnlyIssued, RunsBounded, AnswerNeedsRun,
         NoRequestLost, RepeatsNeedCrash
<1> QED BY <1>5, <1>6, <1>7, <1>8 DEF RpcInv

LEMMA AckIInv ==
  ASSUME RpcInv, Ack
  PROVE  RpcInv'
<1>1. RpcTypeOK'
  BY DEF Ack, RpcInv, RpcTypeOK, clientVars
<1>2. WaitingCalls' /\ ReplyMatchesCall'
  BY ServerKeepsClients DEF Ack, clientVars
<1>3. NoRequestLost'
  BY DEF Ack, RpcInv, NoRequestLost, RepliesFromRuns
<1>4. RepliesFromRuns' /\ OneDelivery' /\ OnlyIssued' /\ RunsBounded'
      /\ AnswerNeedsRun' /\ RepeatsNeedCrash'
  BY DEF Ack, RpcInv, RepliesFromRuns, OneDelivery, OnlyIssued, RunsBounded,
         AnswerNeedsRun, RepeatsNeedCrash, clientVars
<1> QED BY <1>1, <1>2, <1>3, <1>4 DEF RpcInv

LEMMA ServerCrashIInv ==
  ASSUME RpcInv, ServerCrash
  PROVE  RpcInv'
<1>1. PICK m \in delivered : Enqueue(m)
  BY DEF ServerCrash
<1>2. /\ queue' \subseteq queue \cup {m}
      /\ \A n \in queue \cup {m} : n \in queue' \/ n.corr \in dropped'
      /\ dropped \subseteq dropped'
      /\ \A k \in dropped' : k \in dropped \/ \E n \in queue \cup {m} : n.corr = k
  BY <1>1, EnqueueKeeps
<1>3. /\ delivered = {m} /\ delivered' = {} /\ stage' = "idle" /\ runs' = runs
      /\ crashes' = crashes + 1 /\ crashes \in Nat /\ crashes' \in 0..MaxCrashes
  BY RpcAssumption DEF ServerCrash, RpcInv, OneDelivery, RpcTypeOK
<1>4. \A n \in queue \cup {m} : n \in Messages /\ n.corr \in CorrIds
  BY <1>3 DEF RpcInv, RpcTypeOK, Messages
<1>5. RpcTypeOK'
  <2>1. queue' \subseteq Messages /\ dropped' \subseteq CorrIds /\ delivered' \subseteq Messages
    BY <1>2, <1>3, <1>4 DEF RpcInv, RpcTypeOK
  <2> QED BY <2>1, <1>3 DEF ServerCrash, RpcInv, RpcTypeOK, clientVars
<1>6. WaitingCalls' /\ ReplyMatchesCall'
  BY ServerKeepsClients DEF ServerCrash, clientVars
<1>7. OneDelivery' /\ OnlyIssued'
  BY <1>2, <1>3 DEF ServerCrash, RpcInv, OneDelivery, OnlyIssued, clientVars
<1>8. RunsBounded' /\ RepeatsNeedCrash'
  <2>1. \A i \in CorrIds : runs[i] \in Nat /\ runs[i] <= crashes'
    BY <1>3 DEF RpcInv, RpcTypeOK, RepeatsNeedCrash
  <2> QED BY <2>1, <1>2, <1>3, <1>4 DEF RunsBounded, RepeatsNeedCrash
<1>9. NoRequestLost'
  BY <1>2, <1>3 DEF ServerCrash, RpcInv, NoRequestLost
<1>10. RepliesFromRuns' /\ AnswerNeedsRun'
  BY <1>3 DEF ServerCrash, RpcInv, RepliesFromRuns, AnswerNeedsRun, clientVars
<1> QED BY <1>5, <1>6, <1>7, <1>8, <1>9, <1>10 DEF RpcInv

LEMMA NextIInv == RpcInv /\ [RpcNext]_rpcVars => RpcInv'
<1> SUFFICES ASSUME RpcInv, [RpcNext]_rpcVars PROVE RpcInv'
  OBVIOUS
<1>1. CASE UNCHANGED rpcVars
  <2>1. /\ RpcTypeOK' /\ WaitingCalls' /\ RepliesFromRuns' /\ OneDelivery'
        /\ OnlyIssued' /\ RunsBounded'
    BY <1>1 DEF RpcInv, rpcVars, RpcTypeOK, WaitingCalls, RepliesFromRuns, OneDelivery,
                OnlyIssued, RunsBounded
  <2>2. ReplyMatchesCall' /\ AnswerNeedsRun' /\ NoRequestLost' /\ RepeatsNeedCrash'
    BY <1>1 DEF RpcInv, rpcVars, ReplyMatchesCall, AnswerNeedsRun, NoRequestLost,
                RepeatsNeedCrash
  <2> QED BY <2>1, <2>2 DEF RpcInv
<1>2. CASE ServerStep
  BY <1>2, DeliverIInv, RunHandlerIInv, ReplyIInv, AckIInv, ServerCrashIInv
     DEF ServerStep
<1>3. ASSUME NEW c \in Clients, ClientStep(c)
      PROVE  RpcInv'
  BY <1>3, CallIInv, CastIInv, ProcessDataEventsIInv, ExpireIInv, ReplaceIInv
     DEF ClientStep
<1> QED BY <1>1, <1>2, <1>3 DEF RpcNext

\* The queue, its clients and its server keep the whole inductive invariant.
THEOREM RpcInvariance == RpcSpec => []RpcInv
BY RpcInitInv, NextIInv, PTL DEF RpcSpec

\* Every variable keeps the type the code gives it.
THEOREM RpcTypeCorrect == RpcSpec => []RpcTypeOK
BY RpcInvariance, PTL DEF RpcInv

\* A call is answered only with the reply to its own request, for any number of
\* clients, late replies and redeliveries.
THEOREM AnswersMatch == RpcSpec => [](ReplyMatchesCall /\ AnswerNeedsRun)
BY RpcInvariance, PTL DEF RpcInv

\* No crash of the server loses a request, and a handler runs at most once more
\* than the server crashed.
THEOREM RequestsSurvive == RpcSpec => [](NoRequestLost /\ RepeatsNeedCrash)
BY RpcInvariance, PTL DEF RpcInv

-----------------------------------------------------------------------------
(* How a wait ends. *)

\* A pass over the replies that finds none of another call stores one.
LEMMA AllMatchStores ==
  ASSUME NEW c \in Clients, NEW s \in Seq(Bodies), s # <<>>,
         \A i \in DOMAIN s : s[i].corr = corrId[c],
         NEW resp \in Received(c, s)
  PROVE  resp # {}
<1>1. 1 \in DOMAIN s
  OBVIOUS
<1>2. {i \in DOMAIN s : s[i].corr = corrId[c]} # {}
  BY <1>1
<1>3. \E i \in DOMAIN s : resp = {s[i]}
  BY <1>2 DEF Received
<1> QED BY <1>3

\* The outcome that Finish gives is the one of the call in progress.
LEMMA FinishEnds ==
  ASSUME RpcInv, NEW c \in Clients, waiting[c], NEW resp, NEW x \in BOOLEAN, Finish(c, resp, x)
  PROVE  outcome'[corrId[c]] = IF resp = {} THEN Ended("timeout", {}, x)
                               ELSE IF \E b \in resp : b.kind = "err" THEN Ended("raised", resp, x)
                               ELSE Ended("returned", resp, x)
<1>1. corrId[c] \in CorrIds
  BY RpcAssumption DEF RpcInv, RpcTypeOK, WaitingCalls, CorrIds
<1> QED BY <1>1 DEF RpcInv, RpcTypeOK, Finish

LEMMA StepEndsWaits ==
  ASSUME RpcInv, [RpcNext]_rpcVars, NEW c \in Clients,
         waiting[c], ~waiting'[c], StaleReplies(c) = {}, outcome'[corrId[c]].how = "timeout"
  PROVE  outcome'[corrId[c]].expired
<1> USE RpcAssumption
<1>0. /\ waiting \in [Clients -> BOOLEAN] /\ outcome \in [CorrIds -> Outcomes]
      /\ corrId[c] \in CorrIds /\ replies[c] \in Seq(Bodies)
  BY DEF RpcInv, RpcTypeOK, WaitingCalls, CorrIds
<1>1. \E d \in Clients : ClientStep(d)
  BY DEF RpcNext, ServerStep, rpcVars, clientVars, Deliver, RunHandler, Reply, Ack, ServerCrash
<1>2. PICK d \in Clients : ClientStep(d)
  BY <1>1
<1>3. ProcessDataEvents(c) \/ Expire(c) \/ Replace(c)
  <2>1. ASSUME NEW p, Call(d, p) \/ Cast(d, p) PROVE FALSE
    BY <2>1, <1>0 DEF Call, Cast
  <2>2. d = c
    BY <1>0, <1>2, <2>1 DEF ClientStep, ProcessDataEvents, Expire, Replace, Finish
  <2> QED BY <1>2, <2>1, <2>2 DEF ClientStep
<1>4. CASE ProcessDataEvents(c)
  <2>1. PICK k \in 1..Len(replies[c]) :
          \E resp \in Received(c, SubSeq(replies[c], 1, k)) : Finish(c, resp, FALSE)
    BY <1>4 DEF ProcessDataEvents
  <2> DEFINE s == SubSeq(replies[c], 1, k)
  <2>2. /\ s \in Seq(Bodies) /\ s # <<>>
        /\ \A i \in DOMAIN s : i \in 1..Len(replies[c]) /\ s[i] = replies[c][i]
    BY <1>0
  <2>3. \A i \in 1..Len(replies[c]) : replies[c][i].corr = corrId[c]
    BY DEF StaleReplies
  <2>4. PICK resp \in Received(c, s) : Finish(c, resp, FALSE)
    BY <2>1
  <2> HIDE DEF s
  <2>5. resp # {}
    BY <2>2, <2>3, <2>4, AllMatchStores
  <2>6. \/ outcome'[corrId[c]] = Ended("raised", resp, FALSE)
        \/ outcome'[corrId[c]] = Ended("returned", resp, FALSE)
    BY <2>4, <2>5, FinishEnds, Zenon
  <2> QED BY <2>6 DEF Ended
<1>5. CASE Expire(c)
  <2>1. Finish(c, response[c], TRUE)
    BY <1>5 DEF Expire
  <2>2. \/ outcome'[corrId[c]] = Ended("timeout", {}, TRUE)
        \/ outcome'[corrId[c]] = Ended("raised", response[c], TRUE)
        \/ outcome'[corrId[c]] = Ended("returned", response[c], TRUE)
    BY <2>1, FinishEnds, Zenon
  <2>3. \A h, b : Ended(h, b, TRUE).expired
    BY DEF Ended
  <2> QED BY <2>2, <2>3
<1>6. CASE Replace(c)
  BY <1>0, <1>6 DEF Replace, Ended
<1> QED BY <1>3, <1>4, <1>5, <1>6

\* RpcCallTimeoutException means that time_limit is over, unless a late reply to an
\* earlier call of the same object is on its way.
THEOREM TimeoutIsReal == RpcSpec => EarlyTimeoutNeedsStaleReply
<1>1. RpcInv /\ [RpcNext]_rpcVars =>
        [\A c \in Clients :
           /\ waiting[c] /\ ~waiting'[c] /\ StaleReplies(c) = {}
           /\ outcome'[corrId[c]].how = "timeout"
           => outcome'[corrId[c]].expired]_rpcVars
  BY StepEndsWaits
<1> QED BY <1>1, RpcInvariance, PTL DEF RpcSpec, EarlyTimeoutNeedsStaleReply

-----------------------------------------------------------------------------
(* The refinement of RpcContract. *)

\* A step that leaves ids, runs and outcomes alone is a stutter of the contract.
LEMMA Stutters ==
  ASSUME UNCHANGED <<lastId, runs, outcome>>
  PROVE  UNCHANGED Contract!contractVars
BY DEF Contract!contractVars, EndedAs

\* Publishing is Issue of the next id.
LEMMA PublishIssues ==
  ASSUME RpcInv, lastId < MaxRequests, lastId' = lastId + 1, UNCHANGED <<runs, outcome>>
  PROVE  Contract!ContractNext
<1>1. lastId \in Nat /\ lastId + 1 \in CorrIds /\ lastId + 1 \notin 1..lastId
      /\ 1..(lastId + 1) = (1..lastId) \cup {lastId + 1}
  BY RpcAssumption DEF RpcInv, RpcTypeOK, CorrIds
<1>2. Contract!Issue(lastId + 1)
  BY <1>1 DEF Contract!Issue, EndedAs
<1> QED BY <1>1, <1>2 DEF Contract!ContractNext

\* The end of a call is Answer when a reply was stored and GiveUp otherwise.
LEMMA EndIsContractStep ==
  ASSUME RpcInv, NEW c \in Clients, waiting[c], UNCHANGED <<lastId, runs>>,
         NEW o \in Outcomes, outcome' = [outcome EXCEPT ![corrId[c]] = o],
         \/ o.how \in {"returned", "raised"} /\ runs[corrId[c]] > 0
         \/ o.how \in {"timeout", "abandoned"}
  PROVE  Contract!ContractNext
<1> DEFINE k == corrId[c]
<1>1. k \in CorrIds /\ k \in 1..lastId /\ outcome[k].how = "none"
  BY RpcAssumption DEF RpcInv, RpcTypeOK, WaitingCalls, CorrIds
<1>2. outcome'[k] = o /\ \A i \in CorrIds : i # k => outcome'[i] = outcome[i]
  BY <1>1 DEF RpcInv, RpcTypeOK
<1>3. k \notin EndedAs({"returned", "raised"}) \cup EndedAs({"timeout", "abandoned"})
  BY <1>1 DEF EndedAs
<1> HIDE DEF k
<1>4. CASE o.how \in {"returned", "raised"} /\ runs[k] > 0
  <2>1. EndedAs({"returned", "raised"})' = EndedAs({"returned", "raised"}) \cup {k}
        /\ EndedAs({"timeout", "abandoned"})' = EndedAs({"timeout", "abandoned"})
    BY <1>1, <1>2, <1>4 DEF EndedAs
  <2>2. Contract!Answer(k)
    BY <1>1, <1>3, <1>4, <2>1 DEF Contract!Answer
  <2> QED BY <1>1, <2>2 DEF Contract!ContractNext
<1>5. CASE o.how \in {"timeout", "abandoned"}
  <2>1. EndedAs({"returned", "raised"})' = EndedAs({"returned", "raised"})
        /\ EndedAs({"timeout", "abandoned"})' = EndedAs({"timeout", "abandoned"}) \cup {k}
    BY <1>1, <1>2, <1>5 DEF EndedAs
  <2>2. Contract!GiveUp(k)
    BY <1>1, <1>3, <2>1 DEF Contract!GiveUp
  <2> QED BY <1>1, <2>2 DEF Contract!ContractNext
<1> QED BY <1>4, <1>5 DEF k

LEMMA FinishIsContractStep ==
  ASSUME RpcInv, NEW c \in Clients, waiting[c], UNCHANGED <<lastId, runs>>,
         NEW resp, NEW x \in BOOLEAN,
         \/ resp = {}
         \/ \E b \in Bodies : resp = {b} /\ b.corr = corrId[c] /\ runs[b.corr] > 0,
         Finish(c, resp, x)
  PROVE  Contract!ContractNext
<1>1. resp \in SUBSET Bodies
  OBVIOUS
<1>2. \A h \in {"timeout", "raised", "returned"} :
        Ended(h, resp, x) \in Outcomes /\ Ended(h, resp, x).how = h
  BY <1>1 DEF Ended, Outcomes
<1>3. CASE resp = {}
  <2>1. outcome' = [outcome EXCEPT ![corrId[c]] = Ended("timeout", resp, x)]
    BY <1>3 DEF Finish
  <2> QED BY <1>2, <2>1, EndIsContractStep
<1>4. CASE resp # {}
  <2>1. PICK h \in {"raised", "returned"} :
          outcome' = [outcome EXCEPT ![corrId[c]] = Ended(h, resp, x)]
    BY <1>4 DEF Finish
  <2>2. runs[corrId[c]] > 0
    BY <1>4
  <2> QED BY <1>2, <2>1, <2>2, EndIsContractStep
<1> QED BY <1>3, <1>4

LEMMA NextRefines ==
  RpcInv /\ [RpcNext]_rpcVars => [Contract!ContractNext]_(Contract!contractVars)
<1> SUFFICES ASSUME RpcInv, [RpcNext]_rpcVars
             PROVE  Contract!ContractNext \/ UNCHANGED Contract!contractVars
  OBVIOUS
<1>1. CASE UNCHANGED rpcVars
  BY <1>1, Stutters DEF rpcVars
<1>2. CASE Deliver \/ Reply \/ Ack \/ ServerCrash
  BY <1>2, Stutters DEF Deliver, Reply, Ack, ServerCrash, clientVars
<1>3. CASE RunHandler
  <2>1. PICK m \in delivered : runs' = [runs EXCEPT ![m.corr] = @ + 1]
    BY <1>3 DEF RunHandler
  <2>2. m.corr \in CorrIds /\ m.corr \in 1..lastId /\ runs \in [CorrIds -> Nat]
    <3>1. m.corr \in CorrIds /\ m.corr <= lastId /\ lastId \in Nat
      BY DEF RpcInv, RpcTypeOK, OnlyIssued, Messages
    <3> QED BY <3>1 DEF CorrIds, RpcInv, RpcTypeOK
  <2>3. {i \in CorrIds : runs'[i] > 0} = {i \in CorrIds : runs[i] > 0} \cup {m.corr}
    BY <2>1, <2>2
  <2>4. Contract!Execute(m.corr)
    BY <1>3, <2>2, <2>3 DEF RunHandler, clientVars, Contract!Execute, EndedAs
  <2> QED BY <2>2, <2>4 DEF Contract!ContractNext
<1>4. ASSUME NEW c \in Clients, ClientStep(c)
      PROVE  Contract!ContractNext \/ UNCHANGED Contract!contractVars
  <2>1. CASE \/ \E p \in CallPriorities : Call(c, p)
             \/ \E p \in CastPriorities : Cast(c, p)
    BY <2>1, PublishIssues DEF Call, Cast, serverVars
  <2>2. CASE ProcessDataEvents(c)
    <3>1. PICK k \in 1..Len(replies[c]) :
            \E resp \in Received(c, SubSeq(replies[c], 1, k)) : Finish(c, resp, FALSE)
      BY <2>2 DEF ProcessDataEvents
    <3> DEFINE s == SubSeq(replies[c], 1, k)
    <3>2. waiting[c] /\ replies[c] \in Seq(Bodies) /\ response[c] = {}
      BY <2>2 DEF ProcessDataEvents, RpcInv, RpcTypeOK, WaitingCalls
    <3>3. \A i \in DOMAIN s : s[i] \in Bodies /\ i \in 1..Len(replies[c]) /\ s[i] = replies[c][i]
      BY <3>2
    <3> HIDE DEF s
    <3>4. PICK resp \in Received(c, s) : Finish(c, resp, FALSE)
      BY <3>1 DEF s
    <3>5. \/ resp = {}
          \/ \E b \in Bodies : resp = {b} /\ b.corr = corrId[c] /\ runs[b.corr] > 0
      BY <3>2, <3>3, <3>4, ReceivedMatches DEF RpcInv, RepliesFromRuns
    <3> QED BY <2>2, <3>2, <3>4, <3>5, FinishIsContractStep
            DEF ProcessDataEvents, serverVars
  <2>3. CASE Expire(c)
    <3>1. waiting[c] /\ response[c] = {} /\ Finish(c, {}, TRUE)
      BY <2>3 DEF Expire, RpcInv, RpcTypeOK, WaitingCalls
    <3> QED BY <2>3, <3>1, FinishIsContractStep DEF Expire, serverVars
  <2>4. CASE Replace(c)
    <3>1. CASE waiting[c]
      <4>1. Ended("abandoned", {}, FALSE) \in Outcomes
            /\ Ended("abandoned", {}, FALSE).how = "abandoned"
        BY DEF Ended, Outcomes
      <4> QED BY <2>4, <3>1, <4>1, EndIsContractStep DEF Replace, serverVars
    <3>2. CASE ~waiting[c]
      BY <2>4, <3>2, Stutters DEF Replace, serverVars
    <3> QED BY <3>1, <3>2
  <2> QED BY <1>4, <2>1, <2>2, <2>3, <2>4 DEF ClientStep
<1> QED BY <1>1, <1>2, <1>3, <1>4 DEF RpcNext, ServerStep

LEMMA InitRefines == RpcInit => Contract!ContractInit
<1> SUFFICES ASSUME RpcInit PROVE Contract!ContractInit
  OBVIOUS
<1>1. 1..lastId = {} /\ {i \in CorrIds : runs[i] > 0} = {}
  BY DEF RpcInit
<1>2. EndedAs({"returned", "raised"}) = {} /\ EndedAs({"timeout", "abandoned"}) = {}
  BY DEF RpcInit, EndedAs, Pending
<1> QED BY <1>1, <1>2 DEF Contract!ContractInit

\* Queue, clients and server implement RpcContract for all constants.
THEOREM Refinement == RpcSpec => ImplementsContract
BY InitRefines, NextRefines, RpcInvariance, PTL
   DEF RpcSpec, ImplementsContract, Contract!ContractSpec

-----------------------------------------------------------------------------
(* The requirements linter *)

\* The inputs never change: definitions stand in files, entries in layers.
InputsOK ==
  /\ \A x \in classDefs \cup Elements(functionDefs) : x.file \in sourceFiles
  /\ \A x \in Elements(classReqs) \cup Elements(functionReqs) \cup endpointReqs :
       x.layer \in listed

\* The comparison starts when all is read and has, for every layer it is
\* through with, every error of that layer.
Compared ==
  /\ pc = "read" => pending = listed
  /\ pc # "read" => read = sourceFiles
  /\ Finished => pending = {}
  /\ \A l \in listed \ pending : LayerErrors(l) \subseteq errors

LinterInv == LinterTypeOK /\ InputsOK /\ IndexIsUnion /\ Compared

LEMMA LayerOfType == \A f : LayerOf(f) \in Layers \cup {"none"}
BY DEF LayerOf, Layers

LEMMA UnionOver ==
  ASSUME NEW A, NEW B
  PROVE  UNION {Public(d.methods) : d \in A \cup B}
           = (UNION {Public(d.methods) : d \in A}) \cup (UNION {Public(d.methods) : d \in B})
OBVIOUS

LEMMA LinterInitInv == LinterInit => LinterInv
<1> SUFFICES ASSUME LinterInit PROVE LinterInv
  OBVIOUS
<1> USE LinterAssumption
<1>1. /\ read = {} /\ layers = {} /\ methods = <<>> /\ functions = <<>> /\ routes = {}
      /\ pending = listed /\ errors = {} /\ pc = "read"
  BY DEF LinterInit
<1>i. PICK d \in Nat, h \in Nat : SourcesOfSize(d, h)
  BY DEF LinterInit, Inputs
<1>c. PICK n \in Nat, m \in Nat, k \in Nat : ContractOfSize(n, m, k)
  BY DEF LinterInit, Inputs
<1>2. DOMAIN methods = {} /\ DOMAIN functions = {}
  BY <1>1
<1>3. LinterTypeOK
  <2>1. functionDefs \in Seq(FunctionDefs)
    BY <1>i DEF SourcesOfSize
  <2>2. classDefs \subseteq ClassDefs /\ sourceFiles \subseteq Files
    BY <1>i DEF SourcesOfSize, Elements
  <2>3. Elements(classReqs) \subseteq RequiredClasses
    BY <1>c DEF ContractOfSize, Elements
  <2>4. Elements(functionReqs) \subseteq RequiredFunctions
    BY <1>c DEF ContractOfSize, Elements
  <2>5. endpointReqs \subseteq RequiredEndpoints /\ listed \subseteq Layers
    BY <1>c DEF ContractOfSize, Elements
  <2> QED BY <1>1, <1>2, <2>1, <2>2, <2>3, <2>4, <2>5 DEF LinterTypeOK
<1>4. InputsOK
  BY <1>i, <1>c DEF SourcesOfSize, ContractOfSize, InputsOK
<1>5. IndexIsUnion
  BY <1>1, <1>2 DEF IndexIsUnion
<1>6. Compared
  BY <1>1 DEF Compared, Finished
<1> QED BY <1>3, <1>4, <1>5, <1>6 DEF LinterInv

-----------------------------------------------------------------------------
(* The index *)

LEMMA ReadFileType == \A f \in Files : LinterInv /\ ReadFile(f) => LinterTypeOK'
<1> SUFFICES ASSUME NEW f \in Files, LinterInv, ReadFile(f) PROVE LinterTypeOK'
  OBVIOUS
<1>1. CASE LayerOf(f) = "none"
  BY <1>1 DEF LinterInv, ReadFile, LinterTypeOK, index, code, contract
<1>2. CASE LayerOf(f) # "none"
  <2> DEFINE new == {<<LayerOf(f), c.name>> : c \in ClassesOf(f)}
  <2>0. LayerOf(f) \in Layers
    BY <1>2, LayerOfType
  <2>1. DOMAIN methods' = DOMAIN methods \cup new
    BY <1>2 DEF ReadFile, Merged
  <2>2. new \subseteq Layers \X Classes
    BY <2>0 DEF LinterInv, LinterTypeOK, ClassesOf, ClassDefs
  <2>3. ASSUME NEW key \in DOMAIN methods' PROVE methods'[key] \subseteq Public(Methods)
    <3>1. methods'[key] = (IF key \in DOMAIN methods THEN methods[key] ELSE {})
             \cup IF key[1] = LayerOf(f)
                  THEN UNION {Public(c.methods) : c \in {x \in ClassesOf(f) : x.name = key[2]}}
                  ELSE {}
      BY <1>2, <2>1, <2>3 DEF ReadFile, Merged
    <3>2. \A c \in ClassesOf(f) : Public(c.methods) \subseteq Public(Methods)
      BY DEF LinterInv, LinterTypeOK, ClassesOf, ClassDefs, Public
    <3>3. key \in DOMAIN methods => methods[key] \subseteq Public(Methods)
      BY DEF LinterInv, LinterTypeOK
    <3> QED BY <3>1, <3>2, <3>3
  <2>4. functions' = WithFunctionsOf(f)
    BY <1>2 DEF ReadFile
  <2>5. f \in sourceFiles /\ PublicFunctionsOf(f) \subseteq Public(Functions)
    <3>1. \A x \in Elements(functionDefs) : x.name \in Functions
      BY DEF LinterInv, LinterTypeOK, Elements, FunctionDefs
    <3> QED BY <3>1 DEF ReadFile, PublicFunctionsOf, Public
  <2>6. DOMAIN functions' \subseteq sourceFiles
    BY <2>4, <2>5 DEF WithFunctionsOf, LinterInv, LinterTypeOK
  <2>7. \A g \in DOMAIN functions' : functions'[g] \subseteq Public(Functions)
    BY <2>4, <2>5 DEF WithFunctionsOf, LinterInv, LinterTypeOK
  <2>8. routes' \subseteq DOMAIN functionDefs
    BY <1>2 DEF ReadFile, RoutesOf, LinterInv, LinterTypeOK
  <2>9. layers' \subseteq Layers /\ read' \subseteq sourceFiles
    BY <1>2, <2>0 DEF ReadFile, LinterInv, LinterTypeOK
  <2> QED BY <2>1, <2>2, <2>3, <2>6, <2>7, <2>8, <2>9 DEF ReadFile, LinterInv, LinterTypeOK, code, contract
<1> QED BY <1>1, <1>2

LEMMA ReadFileIndex == \A f \in Files : LinterInv /\ ReadFile(f) => IndexIsUnion'
<1> SUFFICES ASSUME NEW f \in Files, LinterInv, ReadFile(f) PROVE IndexIsUnion'
  OBVIOUS
<1>0. read' = read \cup {f} /\ f \notin read /\ code' = code /\ classDefs' = classDefs
      /\ functionDefs' = functionDefs
  BY DEF ReadFile, code
<1>a. \A l, c : DefinitionsOf(l, c)' = DefinitionsOf(l, c)
  BY <1>0 DEF DefinitionsOf
<1>b. \A g : PublicFunctionsOf(g)' = PublicFunctionsOf(g) /\ RoutesOf(g)' = RoutesOf(g)
  BY <1>0 DEF PublicFunctionsOf, RoutesOf
<1>1. layers' = {LayerOf(g) : g \in read'} \ {"none"}
  <2>1. layers' = layers \cup ({LayerOf(f)} \ {"none"})
    BY DEF ReadFile, index
  <2>2. layers = {LayerOf(g) : g \in read} \ {"none"}
    BY DEF LinterInv, IndexIsUnion
  <2> QED BY <1>0, <2>1, <2>2
<1>2. ASSUME NEW l \in Layers, NEW c \in Classes
      PROVE  LET known == {d \in DefinitionsOf(l, c) : d.file \in read'}
             IN  /\ <<l, c>> \in DOMAIN methods' <=> known # {}
                 /\ known # {} => methods'[<<l, c>>] = UNION {Public(d.methods) : d \in known}
  <2> DEFINE old == {d \in DefinitionsOf(l, c) : d.file \in read}
             more == {d \in DefinitionsOf(l, c) : d.file = f}
             new == {<<LayerOf(f), x.name>> : x \in ClassesOf(f)}
  <2>1. {d \in DefinitionsOf(l, c) : d.file \in read'} = old \cup more
    BY <1>0
  <2>2. /\ <<l, c>> \in DOMAIN methods <=> old # {}
        /\ old # {} => methods[<<l, c>>] = UNION {Public(d.methods) : d \in old}
    BY DEF LinterInv, IndexIsUnion
  <2>3. CASE LayerOf(f) = "none"
    <3>1. more = {}
      BY <2>3 DEF DefinitionsOf, Layers
    <3>2. methods' = methods
      BY <2>3 DEF ReadFile, index
    <3> QED BY <2>1, <2>2, <3>1, <3>2
  <2>4. CASE LayerOf(f) # "none"
    <3>1. methods' = Merged(f)
      BY <2>4 DEF ReadFile
    <3>2. DOMAIN methods' = DOMAIN methods \cup new
      BY <3>1 DEF Merged
    <3>3. <<l, c>> \in new <=> more # {}
      BY DEF ClassesOf, DefinitionsOf
    <3>4. more = IF l = LayerOf(f) THEN {x \in ClassesOf(f) : x.name = c} ELSE {}
      BY DEF ClassesOf, DefinitionsOf
    <3>5. ASSUME <<l, c>> \in DOMAIN methods'
          PROVE  methods'[<<l, c>>] = (UNION {Public(d.methods) : d \in old})
                                        \cup (UNION {Public(d.methods) : d \in more})
      <4>1. methods'[<<l, c>>] =
              (IF <<l, c>> \in DOMAIN methods THEN methods[<<l, c>>] ELSE {})
                \cup IF l = LayerOf(f)
                     THEN UNION {Public(d.methods) : d \in {x \in ClassesOf(f) : x.name = c}}
                     ELSE {}
        BY <3>1, <3>5, <3>2 DEF Merged
      <4>2. (IF <<l, c>> \in DOMAIN methods THEN methods[<<l, c>>] ELSE {})
              = UNION {Public(d.methods) : d \in old}
        BY <2>2
      <4>3. (IF l = LayerOf(f)
             THEN UNION {Public(d.methods) : d \in {x \in ClassesOf(f) : x.name = c}} ELSE {})
              = UNION {Public(d.methods) : d \in more}
        BY <3>4
      <4> QED BY <4>1, <4>2, <4>3
    <3>6. UNION {Public(d.methods) : d \in old \cup more}
            = (UNION {Public(d.methods) : d \in old}) \cup (UNION {Public(d.methods) : d \in more})
      BY UnionOver
    <3>7. <<l, c>> \in DOMAIN methods' <=> old \cup more # {}
      BY <3>2, <3>3, <2>2
    <3> QED BY <2>1, <3>5, <3>6, <3>7
  <2> QED BY <2>3, <2>4
<1>3. ASSUME NEW g \in Files
      PROVE  /\ g \in DOMAIN functions' <=> /\ g \in read' /\ LayerOf(g) # "none"
                                            /\ PublicFunctionsOf(g) # {}
             /\ g \in DOMAIN functions' => functions'[g] = PublicFunctionsOf(g)
  <2>1. /\ g \in DOMAIN functions <=> /\ g \in read /\ LayerOf(g) # "none"
                                      /\ PublicFunctionsOf(g) # {}
        /\ g \in DOMAIN functions => functions[g] = PublicFunctionsOf(g)
    BY DEF LinterInv, IndexIsUnion
  <2>2. CASE LayerOf(f) = "none"
    BY <1>0, <2>1, <2>2 DEF ReadFile, index
  <2>3. CASE LayerOf(f) # "none"
    <3>1. functions' = WithFunctionsOf(f)
      BY <2>3 DEF ReadFile
    <3> QED BY <1>0, <2>1, <2>3, <3>1 DEF WithFunctionsOf
  <2> QED BY <2>2, <2>3
<1>4. routes' = UNION {RoutesOf(g) : g \in {x \in read' : LayerOf(x) = "entrypoints"}}
  <2>1. routes = UNION {RoutesOf(g) : g \in {x \in read : LayerOf(x) = "entrypoints"}}
    BY DEF LinterInv, IndexIsUnion
  <2>2. routes' = IF LayerOf(f) = "entrypoints" THEN routes \cup RoutesOf(f) ELSE routes
    BY DEF ReadFile, index
  <2> QED BY <1>0, <2>1, <2>2
<1> QED BY <1>1, <1>2, <1>3, <1>4, <1>a, <1>b DEF IndexIsUnion


-----------------------------------------------------------------------------
(* The comparison *)

\* What a layer is charged with depends on the index and the inputs only.
LEMMA LayerErrorsStay ==
  ASSUME UNCHANGED <<index, functionDefs, classReqs, functionReqs, endpointReqs>>
  PROVE  \A l \in Layers : LayerErrors(l)' = LayerErrors(l)
BY DEF index, LayerErrors, ClassErrors, FunctionErrors, EndpointErrors, Candidates, Answers

LEMMA StepInv == LinterInv /\ [LinterNext]_linterVars => LinterInv'
<1> SUFFICES ASSUME LinterInv, [LinterNext]_linterVars PROVE LinterInv'
  OBVIOUS
<1>1. ASSUME NEW f \in Files, ReadFile(f) PROVE LinterInv'
  <2>1. LinterTypeOK' /\ IndexIsUnion'
    BY <1>1, ReadFileType, ReadFileIndex
  <2>2. InputsOK'
    BY <1>1 DEF ReadFile, code, contract, LinterInv, InputsOK
  <2>3. Compared'
    BY <1>1 DEF ReadFile, contract, LinterInv, Compared, Finished
  <2> QED BY <2>1, <2>2, <2>3 DEF LinterInv
<1>2. ASSUME UNCHANGED <<code, contract, read, index>>, LinterTypeOK', Compared' PROVE LinterInv'
  <2>1. InputsOK'
    BY <1>2 DEF code, contract, LinterInv, InputsOK
  <2>2. IndexIsUnion'
    <3>1. \A l, c : DefinitionsOf(l, c)' = DefinitionsOf(l, c)
      BY <1>2 DEF code, DefinitionsOf
    <3>2. \A g : PublicFunctionsOf(g)' = PublicFunctionsOf(g) /\ RoutesOf(g)' = RoutesOf(g)
      BY <1>2 DEF code, PublicFunctionsOf, RoutesOf
    <3>3. IndexIsUnion
      BY DEF LinterInv
    <3> QED BY <1>2, <3>1, <3>2, <3>3 DEF index, IndexIsUnion
  <2> QED BY <1>2, <2>1, <2>2 DEF LinterInv
<1>3. CASE StartCompare
  <2>1. LinterTypeOK'
    BY <1>3 DEF StartCompare, code, contract, index, LinterInv, LinterTypeOK
  <2>2. Compared'
    BY <1>3 DEF StartCompare, code, contract, LinterInv, Compared, Finished
  <2> QED BY <1>2, <1>3, <2>1, <2>2 DEF StartCompare
<1>4. ASSUME NEW l \in Layers, CompareLayer(l) PROVE LinterInv'
  <2>1. LinterTypeOK'
    BY <1>4 DEF CompareLayer, code, contract, index, LinterInv, LinterTypeOK
  <2>2. \A x \in Layers : LayerErrors(x)' = LayerErrors(x)
    BY <1>4, LayerErrorsStay DEF CompareLayer, code, contract
  <2>3. ASSUME NEW x \in listed \ pending' PROVE LayerErrors(x) \subseteq errors'
    BY <1>4, <2>3 DEF CompareLayer, LinterInv, Compared
  <2>4. listed' = listed /\ listed \subseteq Layers
    BY <1>4 DEF CompareLayer, contract, LinterInv, LinterTypeOK
  <2>5. Compared'
    BY <1>4, <2>2, <2>3, <2>4 DEF CompareLayer, code, LinterInv, Compared, Finished
  <2> QED BY <1>2, <1>4, <2>1, <2>5 DEF CompareLayer
<1>5. CASE CollectExtras
  <2>1. LinterTypeOK'
    BY <1>5 DEF CollectExtras, code, contract, index, LinterInv, LinterTypeOK
  <2>2. \A x \in Layers : LayerErrors(x)' = LayerErrors(x)
    BY <1>5, LayerErrorsStay DEF CollectExtras, code, contract
  <2>3. Compared'
    BY <1>5, <2>2 DEF CollectExtras, code, contract, LinterInv, LinterTypeOK, Compared, Finished
  <2> QED BY <1>2, <1>5, <2>1, <2>3 DEF CollectExtras
<1>6. CASE UNCHANGED linterVars
  <2>1. LinterTypeOK'
    BY <1>6 DEF linterVars, code, contract, index, LinterInv, LinterTypeOK
  <2>2. \A x \in Layers : LayerErrors(x)' = LayerErrors(x)
    BY <1>6, LayerErrorsStay DEF linterVars, code, contract
  <2>3. Compared'
    BY <1>6, <2>2 DEF linterVars, code, contract, LinterInv, LinterTypeOK, Compared, Finished
  <2> QED BY <1>2, <1>6, <2>1, <2>3 DEF linterVars
<1> QED BY <1>1, <1>3, <1>4, <1>5, <1>6 DEF LinterNext

-----------------------------------------------------------------------------
(* The verdict *)

\* An entry of a layer without errors is found in the index, which holds all of
\* the code, and so in the code.
LEMMA ClassSound ==
  ASSUME LinterInv, Finished, NEW r \in Elements(classReqs), LayerErrors(r.layer) = {}
  PROVE  ClassKept(r)
<1> DEFINE l == r.layer
           known == {d \in DefinitionsOf(l, r.name) : d.file \in read}
<1>1. r \in RequiredClasses /\ l \in Layers
  BY DEF LinterInv, LinterTypeOK, RequiredClasses
<1>2. l \in layers /\ ClassErrors(l) = {}
  BY DEF LayerErrors
<1>3. r.name # Reserved
  <2>1. r.name = Reserved => <<"reserved", l, r.name, "">> \in ClassErrors(l)
    BY DEF ClassErrors
  <2> QED BY <1>2, <2>1
<1>4. <<l, r.name>> \in DOMAIN methods
  <2>1. <<l, r.name>> \notin DOMAIN methods => <<"class", l, r.name, "">> \in ClassErrors(l)
    BY <1>3 DEF ClassErrors
  <2> QED BY <1>2, <2>1
<1>5. r.methods \subseteq methods[<<l, r.name>>]
  <2>1. ASSUME NEW x \in r.methods \ methods[<<l, r.name>>]
        PROVE  <<"method", l, r.name, x>> \in ClassErrors(l)
    <3> DEFINE found == {y \in Elements(classReqs) :
                           y.layer = l /\ <<l, y.name>> \in DOMAIN methods}
               of(y) == {<<"method", l, y.name, z>> : z \in y.methods \ methods[<<l, y.name>>]}
    <3>1. r \in found /\ <<"method", l, r.name, x>> \in of(r)
      BY <1>4
    <3>2. UNION {of(y) : y \in found} \subseteq ClassErrors(l)
      BY DEF ClassErrors
    <3> QED BY <3>1, <3>2
  <2> QED BY <1>2, <2>1
<1>6. r.name \in Classes
  BY <1>1, <1>3 DEF RequiredClasses
<1>7. known = DefinitionsOf(l, r.name)
  BY DEF LinterInv, InputsOK, Compared, Finished, DefinitionsOf
<1>8. known # {} /\ methods[<<l, r.name>>] = UNION {Public(d.methods) : d \in known}
  BY <1>1, <1>4, <1>6 DEF LinterInv, IndexIsUnion
<1> QED BY <1>5, <1>7, <1>8 DEF ClassKept

LEMMA FunctionsSound ==
  ASSUME LinterInv, Finished, NEW r \in Elements(functionReqs), LayerErrors(r.layer) = {}
  PROVE  FunctionsKept(r)
<1> DEFINE l == r.layer
<1>1. r \in RequiredFunctions /\ l \in Layers /\ r.file \in Files
  BY DEF LinterInv, LinterTypeOK, RequiredFunctions
<1>2. FunctionErrors(l) = {}
  BY DEF LayerErrors
<1>3. r.file \in DOMAIN functions /\ LayerOf(r.file) = l
  <2>1. ~(r.file \in DOMAIN functions /\ LayerOf(r.file) = l)
          => <<"file", l, r.file, "">> \in FunctionErrors(l)
    BY DEF FunctionErrors
  <2> QED BY <1>2, <2>1
<1>4. r.functions \subseteq functions[r.file]
  <2>1. \A x \in r.functions \ functions[r.file] :
          <<"function", l, r.file, x>> \in FunctionErrors(l)
    BY <1>3 DEF FunctionErrors
  <2> QED BY <1>2, <2>1
<1>5. /\ r.file \in read /\ PublicFunctionsOf(r.file) # {}
      /\ functions[r.file] = PublicFunctionsOf(r.file)
  BY <1>1, <1>3 DEF LinterInv, IndexIsUnion
<1> QED BY <1>3, <1>4, <1>5 DEF FunctionsKept, LinterInv, LinterTypeOK

LEMMA EndpointSound ==
  ASSUME LinterInv, Finished, NEW e \in endpointReqs, LayerErrors(e.layer) = {}
  PROVE  \E h \in HandlersOf(e.layer, e) : SameParams(h, e)
<1> DEFINE l == e.layer
<1>1. EndpointErrors(l) = {}
  BY DEF LayerErrors
<1>2. e.route # NoRoute
  <2>1. e.route = NoRoute => <<"empty", l, e.name, "">> \in EndpointErrors(l)
    BY DEF EndpointErrors
  <2> QED BY <1>1, <2>1
<1>3. Candidates(l, e) # {}
  <2>1. Candidates(l, e) = {} => <<"route", l, e.route, e.name>> \in EndpointErrors(l)
    BY <1>2 DEF EndpointErrors
  <2> QED BY <1>1, <2>1
<1>4. Answers(l, e)
  <2>1. ~Answers(l, e) => <<"params", l, e.route, e.name>> \in EndpointErrors(l)
    BY <1>2, <1>3 DEF EndpointErrors
  <2> QED BY <1>1, <2>1
<1>5. PICK i \in Candidates(l, e) : Frozen(functionDefs[i].params) = Frozen(e.params)
  BY <1>4 DEF Answers
<1>6. PICK f \in read : LayerOf(f) = "entrypoints" /\ i \in RoutesOf(f)
  BY <1>5 DEF Candidates, LinterInv, IndexIsUnion
<1>7. functionDefs[i] \in HandlersOf(l, e)
  BY <1>5, <1>6 DEF Candidates, RoutesOf, HandlersOf, Elements
<1> QED BY <1>5, <1>7 DEF SameParams

LEMMA Verdict == LinterInv => PassMeansKept
<1> SUFFICES ASSUME LinterInv, Finished, errors = {} PROVE SymbolsKept /\ EndpointsServed
  BY DEF PassMeansKept
<1>1. \A l \in listed : LayerErrors(l) = {}
  BY DEF LinterInv, Compared
<1>2. ASSUME NEW l \in listed PROVE \E f \in sourceFiles : LayerOf(f) = l
  <2>1. l \notin layers => <<"layer", l, "", "">> \in LayerErrors(l)
    BY DEF LayerErrors
  <2>2. l \in layers
    BY <1>1, <2>1
  <2> QED BY <2>2 DEF LinterInv, IndexIsUnion, LinterTypeOK
<1>3. /\ \A r \in Elements(classReqs) : r.layer \in listed
      /\ \A r \in Elements(functionReqs) : r.layer \in listed
      /\ \A e \in endpointReqs : e.layer \in listed
  BY DEF LinterInv, InputsOK
<1>4. \A r \in Elements(classReqs) : ClassKept(r)
  BY <1>1, <1>3, ClassSound
<1>5. \A r \in Elements(functionReqs) : FunctionsKept(r)
  BY <1>1, <1>3, FunctionsSound
<1>6. EndpointsServed
  BY <1>1, <1>3, EndpointSound DEF EndpointsServed
<1> QED BY <1>2, <1>4, <1>5, <1>6 DEF SymbolsKept

\* The index of a run is at every moment the union of what the files read so far
\* define, however many files share a layer and a class name.
THEOREM IndexCorrect == LinterSpec => []IndexIsUnion
<1>1. LinterInv => IndexIsUnion
  BY DEF LinterInv
<1> QED BY LinterInitInv, StepInv, <1>1, PTL DEF LinterSpec

\* A run of the linter that ends without an error has found in the code every
\* layer, class, method, function and route of the contract.
THEOREM PassIsSound == LinterSpec => []PassMeansKept
<1> QED BY LinterInitInv, StepInv, Verdict, PTL DEF LinterSpec

-----------------------------------------------------------------------------
(* What is reported as not listed *)

\* The entries of a contract are numbered.
Numbered ==
  \E n, m \in Nat : DOMAIN classReqs = 1..n /\ DOMAIN functionReqs = 1..m

Extras(l) == ExtraClasses(l) \cup ExtraFunctions(l) \cup ExtraRoutes(l)
Reported == pc = "done" => warnings = UNION {Extras(l) : l \in layers}

\* Of finitely many entries about one symbol there is a last one.
LEMMA LastOfExists ==
  ASSUME NEW n \in Nat, NEW S \in SUBSET (1..n), S # {}
  PROVE  LastOf(S) \in S
<1> DEFINE T == {n - i : i \in S}
<1>1. T \subseteq Nat /\ T # {}
  <2>1. \A i \in 1..n : n - i \in Nat
    OBVIOUS
  <2>2. PICK i : i \in S
    OBVIOUS
  <2> QED BY <2>1, <2>2
<1>2. PICK x \in T : \A y \in T : ~(<<y, x>> \in OpToRel(<, Nat))
  BY <1>1, NatLessThanWellFounded, WFMin
<1>3. \A y \in T : ~(y < x)
  <2> SUFFICES ASSUME NEW y \in T, y < x PROVE FALSE
    OBVIOUS
  <2>1. x \in Nat /\ y \in Nat
    BY <1>1
  <2>2. <<y, x>> \in OpToRel(<, Nat)
    BY <2>1 DEF OpToRel
  <2> QED BY <1>2, <2>2
<1>4. PICK i \in S : x = n - i
  OBVIOUS
<1>5. \A j \in S : j <= i
  <2> SUFFICES ASSUME NEW j \in S PROVE j <= i
    OBVIOUS
  <2>1. n - j \in T /\ ~(n - j < n - i)
    BY <1>3, <1>4
  <2>2. i \in Int /\ j \in Int /\ n \in Int
    OBVIOUS
  <2> QED BY <2>1, <2>2
<1> QED BY <1>4, <1>5 DEF LastOf

LEMMA ListedFrom ==
  ASSUME Numbered, NEW l
  PROVE  /\ \A c : (\E r \in Elements(classReqs) : r.layer = l /\ r.name = c) =>
              \E r \in Elements(classReqs) :
                r.layer = l /\ r.name = c /\ r.methods = ListedMethods(l, c)
         /\ \A f : (\E r \in Elements(functionReqs) : r.layer = l /\ r.file = f) =>
              \E r \in Elements(functionReqs) :
                r.layer = l /\ r.file = f /\ r.functions = ListedFunctions(l, f)
<1>1. PICK n \in Nat, m \in Nat : DOMAIN classReqs = 1..n /\ DOMAIN functionReqs = 1..m
  BY DEF Numbered
<1>2. ASSUME NEW c, \E r \in Elements(classReqs) : r.layer = l /\ r.name = c
      PROVE  \E r \in Elements(classReqs) :
               r.layer = l /\ r.name = c /\ r.methods = ListedMethods(l, c)
  <2> DEFINE at == {i \in DOMAIN classReqs : classReqs[i].layer = l /\ classReqs[i].name = c}
  <2>1. at # {} /\ at \in SUBSET (1..n)
    BY <1>1, <1>2 DEF Elements
  <2>2. LastOf(at) \in at
    BY <2>1, LastOfExists
  <2>3. classReqs[LastOf(at)] \in Elements(classReqs)
    BY <2>2 DEF Elements
  <2> QED BY <2>2, <2>3 DEF ListedMethods
<1>3. ASSUME NEW f, \E r \in Elements(functionReqs) : r.layer = l /\ r.file = f
      PROVE  \E r \in Elements(functionReqs) :
               r.layer = l /\ r.file = f /\ r.functions = ListedFunctions(l, f)
  <2> DEFINE at == {i \in DOMAIN functionReqs : functionReqs[i].layer = l /\ functionReqs[i].file = f}
  <2>1. at # {} /\ at \in SUBSET (1..m)
    BY <1>1, <1>3 DEF Elements
  <2>2. LastOf(at) \in at
    BY <2>1, LastOfExists
  <2>3. functionReqs[LastOf(at)] \in Elements(functionReqs)
    BY <2>2 DEF Elements
  <2> QED BY <2>2, <2>3 DEF ListedFunctions
<1> QED BY <1>2, <1>3

LEMMA ExtrasStay ==
  ASSUME UNCHANGED <<index, functionDefs, classReqs, functionReqs, endpointReqs>>
  PROVE  \A l : Extras(l)' = Extras(l)
BY DEF index, Extras, ExtraClasses, ExtraFunctions, ExtraRoutes, ListedMethods, ListedFunctions

LEMMA ReportedInit == LinterInit => Numbered /\ Reported
<1> SUFFICES ASSUME LinterInit PROVE Numbered /\ Reported
  OBVIOUS
<1>1. PICK n \in Nat, m \in Nat, k \in Nat : ContractOfSize(n, m, k)
  BY DEF LinterInit, Inputs
<1>2. Numbered
  BY <1>1 DEF ContractOfSize, Numbered
<1> QED BY <1>2 DEF LinterInit, Reported

LEMMA ReportedStep == Numbered /\ Reported /\ [LinterNext]_linterVars => (Numbered /\ Reported)'
<1> SUFFICES ASSUME Numbered, Reported, [LinterNext]_linterVars PROVE (Numbered /\ Reported)'
  OBVIOUS
<1>1. UNCHANGED contract
  BY DEF LinterNext, ReadFile, StartCompare, CompareLayer, CollectExtras, linterVars
<1>2. Numbered'
  BY <1>1 DEF Numbered, contract
<1>3. Reported'
  <2>1. CASE \E f \in Files : ReadFile(f)
    BY <2>1 DEF ReadFile, Reported
  <2>2. CASE StartCompare \/ \E l \in Layers : CompareLayer(l)
    BY <2>2 DEF StartCompare, CompareLayer, Reported
  <2>3. CASE CollectExtras
    <3>1. UNCHANGED <<code, contract, index>>
      BY <2>3 DEF CollectExtras
    <3>2. \A l : Extras(l)' = Extras(l)
      BY <3>1, ExtrasStay DEF code, contract
    <3>3. pc' = "done" => warnings' = UNION {Extras(l) : l \in layers}
      BY <2>3 DEF CollectExtras, Extras
    <3> QED BY <3>1, <3>2, <3>3 DEF Reported, index
  <2>4. CASE UNCHANGED linterVars
    <3>1. UNCHANGED <<code, contract, index, warnings, pc>>
      BY <2>4 DEF linterVars
    <3>2. \A l : Extras(l)' = Extras(l)
      BY <3>1, ExtrasStay DEF code, contract
    <3> QED BY <3>1, <3>2 DEF Reported, index
  <2> QED BY <2>1, <2>2, <2>3, <2>4 DEF LinterNext
<1> QED BY <1>2, <1>3

\* A class that is read and not warned about is listed with its methods.
LEMMA ClassListed ==
  ASSUME LinterInv, Numbered, Finished, NEW d \in classDefs, LayerOf(d.file) # "none",
         ExtraClasses(LayerOf(d.file)) = {}, NEW x \in Public(d.methods) \cup {d.name}
  PROVE  \E r \in Elements(classReqs) :
           r.layer = LayerOf(d.file) /\ r.name = d.name /\ x \in r.methods \cup {d.name}
<1> DEFINE l == LayerOf(d.file)
           c == d.name
           known == {e \in DefinitionsOf(l, c) : e.file \in read}
           inCode == {key[2] : key \in {k \in DOMAIN methods : k[1] = l}}
           inContract == {r.name : r \in {y \in Elements(classReqs) : y.layer = l}}
<1>1. l \in Layers /\ c \in Classes
  BY LayerOfType DEF LinterInv, LinterTypeOK, ClassDefs
<1>2. d \in known
  BY DEF LinterInv, InputsOK, Compared, Finished, DefinitionsOf
<1>3. <<l, c>> \in DOMAIN methods /\ methods[<<l, c>>] = UNION {Public(e.methods) : e \in known}
  BY <1>1, <1>2 DEF LinterInv, IndexIsUnion
<1>4. Public(d.methods) \subseteq methods[<<l, c>>]
  BY <1>2, <1>3
<1>5. c \in inCode
  BY <1>3
<1>6. {<<"class", l, y, "">> : y \in inCode \ inContract} \subseteq ExtraClasses(l)
  BY DEF ExtraClasses
<1>7. c \in inContract
  <2>1. c \notin inContract => <<"class", l, c, "">> \in ExtraClasses(l)
    BY <1>5, <1>6
  <2> QED BY <2>1
<1>8. PICK r \in Elements(classReqs) : r.layer = l /\ r.name = c /\ r.methods = ListedMethods(l, c)
  BY <1>7, ListedFrom
<1>9. methods[<<l, c>>] \subseteq ListedMethods(l, c)
  <2> DEFINE of(z) == {<<"method", l, z, y>> : y \in methods[<<l, z>>] \ ListedMethods(l, z)}
  <2>1. UNION {of(z) : z \in inCode \cap inContract} \subseteq ExtraClasses(l)
    BY DEF ExtraClasses
  <2>2. \A y \in methods[<<l, c>>] \ ListedMethods(l, c) : <<"method", l, c, y>> \in of(c)
    OBVIOUS
  <2>3. of(c) \subseteq ExtraClasses(l)
    BY <1>5, <1>7, <2>1
  <2> QED BY <2>2, <2>3
<1> QED BY <1>4, <1>8, <1>9

LEMMA FunctionListed ==
  ASSUME LinterInv, Numbered, Finished, NEW h \in Elements(functionDefs), LayerOf(h.file) # "none",
         h.name \notin Private, ExtraFunctions(LayerOf(h.file)) = {}
  PROVE  \E r \in Elements(functionReqs) : r.file = h.file /\ h.name \in r.functions
<1> DEFINE l == LayerOf(h.file)
           f == h.file
           inCode == {g \in DOMAIN functions : LayerOf(g) = l}
           inContract == {r.file : r \in {y \in Elements(functionReqs) : y.layer = l}}
<1>1. f \in read /\ f \in Files
  BY DEF LinterInv, LinterTypeOK, InputsOK, Compared, Finished
<1>2. h.name \in PublicFunctionsOf(f)
  BY DEF PublicFunctionsOf, Public
<1>3. f \in inCode /\ functions[f] = PublicFunctionsOf(f)
  BY <1>1, <1>2 DEF LinterInv, IndexIsUnion
<1>4. f \in inContract
  <2>1. f \notin inContract => <<"file", l, f, "">> \in ExtraFunctions(l)
    BY <1>3 DEF ExtraFunctions
  <2> QED BY <2>1
<1>5. PICK r \in Elements(functionReqs) : r.layer = l /\ r.file = f /\ r.functions = ListedFunctions(l, f)
  BY <1>4, ListedFrom
<1>6. functions[f] \subseteq ListedFunctions(l, f)
  <2> DEFINE of(z) == {<<"function", l, z, y>> : y \in functions[z] \ ListedFunctions(l, z)}
  <2>1. UNION {of(z) : z \in inCode \cap inContract} \subseteq ExtraFunctions(l)
    BY DEF ExtraFunctions
  <2>2. \A y \in functions[f] \ ListedFunctions(l, f) : <<"function", l, f, y>> \in of(f)
    OBVIOUS
  <2>3. of(f) \subseteq ExtraFunctions(l)
    BY <1>3, <1>4, <2>1
  <2> QED BY <2>2, <2>3
<1> QED BY <1>2, <1>3, <1>5, <1>6

LEMMA RouteListed ==
  ASSUME LinterInv, Finished, NEW h \in Elements(functionDefs), LayerOf(h.file) = "entrypoints",
         h.name \notin Private, h.route # NoRoute, ExtraRoutes("entrypoints") = {}
  PROVE  \E e \in endpointReqs : e.layer = "entrypoints" /\ Triple(e) = Triple(h)
<1>1. h.file \in read
  BY DEF LinterInv, LinterTypeOK, InputsOK, Compared, Finished
<1>2. PICK i \in DOMAIN functionDefs : functionDefs[i] = h
  BY DEF Elements
<1>3. i \in RoutesOf(h.file)
  BY <1>2 DEF RoutesOf
<1>4. i \in routes
  BY <1>1, <1>3 DEF LinterInv, IndexIsUnion
<1>5. (\A r \in endpointReqs : ~(r.layer = "entrypoints" /\ Triple(r) = Triple(functionDefs[i])))
        => <<"route", "entrypoints", functionDefs[i].route, functionDefs[i].name>> \in ExtraRoutes("entrypoints")
  BY <1>4 DEF ExtraRoutes
<1> QED BY <1>2, <1>5

\* A run of the linter that reports extras and has nothing to report has read no
\* class, public method, public function or route that the contract does not list.
THEOREM SilenceIsComplete == LinterSpec => []SilenceMeansListed
<1>1. LinterInv /\ Numbered /\ Reported => SilenceMeansListed
  <2> SUFFICES ASSUME LinterInv, Numbered, Reported, pc = "done", warnings = {} PROVE SilenceMeansListed
    BY DEF SilenceMeansListed
  <2>1. Finished /\ \A l \in layers : Extras(l) = {}
    BY DEF Finished, Reported
  <2>2. ASSUME NEW f \in sourceFiles, LayerOf(f) # "none" PROVE Extras(LayerOf(f)) = {}
    <3>1. LayerOf(f) \in layers
      BY <2>1, <2>2 DEF Finished, LinterInv, IndexIsUnion, Compared
    <3> QED BY <2>1, <3>1
  <2>3. /\ \A d \in classDefs : d.file \in sourceFiles
        /\ \A h \in Elements(functionDefs) : h.file \in sourceFiles
    BY DEF LinterInv, InputsOK
  <2>4. ASSUME NEW d \in classDefs, LayerOf(d.file) # "none", NEW x \in Public(d.methods) \cup {d.name}
        PROVE  \E r \in Elements(classReqs) :
                 r.layer = LayerOf(d.file) /\ r.name = d.name /\ x \in r.methods \cup {d.name}
    <3>1. ExtraClasses(LayerOf(d.file)) = {}
      BY <2>2, <2>3, <2>4 DEF Extras
    <3> QED BY <2>1, <2>4, <3>1, ClassListed
  <2>5. ASSUME NEW h \in Elements(functionDefs), LayerOf(h.file) # "none", h.name \notin Private
        PROVE  /\ \E r \in Elements(functionReqs) : r.file = h.file /\ h.name \in r.functions
               /\ h.route # NoRoute /\ LayerOf(h.file) = "entrypoints" =>
                    \E e \in endpointReqs : e.layer = "entrypoints" /\ Triple(e) = Triple(h)
    <3>1. ExtraFunctions(LayerOf(h.file)) = {} /\ ExtraRoutes(LayerOf(h.file)) = {}
      BY <2>2, <2>3, <2>5 DEF Extras
    <3>2. \E r \in Elements(functionReqs) : r.file = h.file /\ h.name \in r.functions
      BY <2>1, <2>5, <3>1, FunctionListed
    <3>3. h.route # NoRoute /\ LayerOf(h.file) = "entrypoints" =>
            \E e \in endpointReqs : e.layer = "entrypoints" /\ Triple(e) = Triple(h)
      BY <2>1, <2>5, <3>1, RouteListed
    <3> QED BY <3>2, <3>3
  <2> QED BY <2>4, <2>5 DEF SilenceMeansListed
<1>2. LinterInit => LinterInv /\ Numbered /\ Reported
  BY LinterInitInv, ReportedInit
<1>3. (LinterInv /\ Numbered /\ Reported) /\ [LinterNext]_linterVars => (LinterInv /\ Numbered /\ Reported)'
  BY StepInv, ReportedStep
<1> QED BY <1>1, <1>2, <1>3, PTL DEF LinterSpec

-----------------------------------------------------------------------------
(* VNC sessions *)

\* The request being served: its port is taken and in no session, and so is its
\* process, which listens on that port.
VncJobOK ==
  /\ vncJob.pc # "idle" => vncJob.vm \in Machines /\ requests # <<>> /\ ready
  /\ vncJob.pc \in {"allocate", "launch", "lookup"} => ~InUse(vncJob.vm)
  /\ vncJob.pc \in {"launch", "lookup"} =>
       /\ vncJob.port \in allocated
       /\ \A v \in Machines : InUse(v) => sessions[v].ws_port # vncJob.port
  /\ vncJob.pc = "lookup" =>
       /\ vncJob.pid \in Pids
       /\ procs[vncJob.pid].port = vncJob.port /\ procs[vncJob.pid].state # "unborn"
       /\ \A v \in Machines : sessions[v].pid # vncJob.pid

\* A session has a process that has been started.
SessionsOK ==
  \A v \in Machines : InUse(v) => sessions[v].pid \in Pids /\ procs[sessions[v].pid].state # "unborn"

\* A manager that has not been made yet has no sessions; before the first restart
\* nothing runs either.
NotReadyOK ==
  ~ready => /\ \A v \in Machines : ~InUse(v)
            /\ restarts = 0 => \A q \in Pids : ~Up(q)

VncInv == VncTypeOK /\ VncJobOK /\ SessionsOK /\ NotReadyOK /\ SessionsApart /\ NoPortLost /\ NoOrphanProcess

-----------------------------------------------------------------------------

LEMMA NoTypes ==
  /\ NoVncJob \in VncJobs /\ NoSession \in Sessions
  /\ \A p \in Ports \cup {NoPort}, st \in {"unborn", "up", "down"} :
       [state |-> st, port |-> p] \in Processes
BY DEF VncJobs, NoVncJob, Sessions, NoSession, Processes

\* The request goes on, or ends.
LEMMA JobFacts ==
  ASSUME VncTypeOK
  PROVE  /\ [vncJob EXCEPT !.pc = "allocate"] \in VncJobs
         /\ [vncJob EXCEPT !.pc = "allocate"].pc = "allocate"
         /\ [vncJob EXCEPT !.pc = "allocate"].vm = vncJob.vm
         /\ requests # <<>> /\ VncDone => vncJob' \in VncJobs /\ requests' \in Seq(Machines) /\ vncJob'.pc = "idle"
<1>1. requests # <<>> /\ VncDone => vncJob' \in VncJobs /\ requests' \in Seq(Machines)
  BY NoTypes DEF VncTypeOK, VncDone
<1>2. VncDone => vncJob'.pc = "idle"
  BY DEF VncDone, NoVncJob
<1> QED BY <1>1, <1>2 DEF VncTypeOK, VncJobs

LEMMA VncInitInv == VncInit => VncInv
<1> SUFFICES ASSUME VncInit PROVE VncInv
  OBVIOUS
<1> USE VncAssumption DEF VncInit
<1>1. VncTypeOK
  <2>1. requests \in Seq(Machines) /\ allocated \subseteq Ports /\ failures \in Nat /\ restarts \in Nat
    OBVIOUS
  <2>2. procs \in [Pids -> Processes] /\ sessions \in [Machines -> Sessions] /\ vncJob \in VncJobs
    BY NoTypes
  <2> QED BY <2>1, <2>2 DEF VncTypeOK
<1>2. \A v \in Machines : ~InUse(v)
  BY DEF InUse
<1>3. \A q \in Pids : ~Up(q)
  BY DEF Up
<1> QED
  BY <1>1, <1>2, <1>3 DEF VncInv, VncJobOK, NoVncJob, SessionsOK, NotReadyOK, SessionsApart,
     NoPortLost, NoOrphanProcess

\* Sessions that are dropped give back their ports and no others.
LEMMA DropFacts ==
  ASSUME VncTypeOK, NEW S \in SUBSET Machines, Drop(S)
  PROVE  /\ sessions' \in [Machines -> Sessions] /\ allocated' \subseteq allocated
         /\ \A v \in Machines : InUse(v)' => InUse(v) /\ v \notin S /\ sessions'[v] = sessions[v]
         /\ \A v \in Machines \ S : sessions'[v] = sessions[v]
         /\ \A p \in allocated \ allocated' : \E v \in S : InUse(v) /\ sessions[v].ws_port = p
         /\ \A v \in S : InUse(v) => sessions[v].ws_port \notin allocated'
<1>1. sessions' \in [Machines -> Sessions] /\ allocated' \subseteq allocated
  BY DEF VncTypeOK, Drop, Sessions, NoSession
<1>2. \A v \in Machines : sessions'[v] = IF v \in S THEN NoSession ELSE sessions[v]
  BY DEF Drop
<1>3. \A v \in Machines : InUse(v)' => InUse(v) /\ v \notin S /\ sessions'[v] = sessions[v]
  BY <1>2 DEF InUse
<1>4. \A p \in allocated \ allocated' : \E v \in S : InUse(v) /\ sessions[v].ws_port = p
  BY DEF Drop, PortsOf
<1>5. \A v \in S : InUse(v) => sessions[v].ws_port \notin allocated'
  BY DEF Drop, PortsOf
<1> QED BY <1>1, <1>2, <1>3, <1>4, <1>5

\* ... and the remaining sessions stay apart.
LEMMA DropKeepsApart ==
  ASSUME VncTypeOK, SessionsApart, SessionsOK, NEW S \in SUBSET Machines, Drop(S),
         \A q \in Pids : procs'[q].port = procs[q].port /\
                         (procs[q].state # "unborn" => procs'[q].state # "unborn")
  PROVE  SessionsApart' /\ SessionsOK'
<1>1. ASSUME NEW v \in Machines, InUse(v)'
      PROVE  /\ InUse(v) /\ sessions'[v] = sessions[v]
             /\ sessions[v].ws_port \in allocated'
  <2>1. InUse(v) /\ sessions'[v] = sessions[v] /\ v \notin S
    BY <1>1, DropFacts
  <2>2. sessions[v].ws_port \notin PortsOf(S)
    BY <2>1 DEF PortsOf, SessionsApart, Drop
  <2> QED BY <2>1, <2>2 DEF Drop, SessionsApart
<1>2. SessionsOK'
  BY <1>1 DEF SessionsOK
<1>3. ASSUME NEW v \in Machines, InUse(v)'
      PROVE  procs'[sessions'[v].pid].port = sessions'[v].ws_port
  BY <1>1, <1>3 DEF SessionsApart, SessionsOK
<1> QED BY <1>1, <1>2, <1>3 DEF SessionsApart

LEMMA TailType ==
  ASSUME VncTypeOK, requests # <<>>
  PROVE  Tail(requests) \in Seq(Machines) /\ Head(requests) \in Machines
BY DEF VncTypeOK

-----------------------------------------------------------------------------
(* One lemma per action. *)

LEMMA VncStep == ASSUME VncInv, NEW v \in Machines, Vnc(v) PROVE VncInv'
<1> USE DEF VncInv, Vnc
<1>1. requests' \in Seq(Machines) /\ requests' # <<>>
  BY DEF VncTypeOK
<1> QED
  BY <1>1 DEF VncTypeOK, VncJobOK, SessionsOK, NotReadyOK, SessionsApart, NoPortLost,
     NoOrphanProcess, InUse, Up, PortsOf

LEMMA TakeStep == ASSUME VncInv, TakeRequest PROVE VncInv'
<1> USE VncAssumption DEF VncInv, TakeRequest
<1>1. VncTypeOK'
  <2>1. vncJob' \in VncJobs
    BY TailType DEF VncJobs, NoVncJob
  <2>2. Restored \subseteq Ports
    BY DEF Restored, Recognized, Ports
  <2> QED BY <2>1, <2>2 DEF VncTypeOK
<1>2. VncJobOK'
  BY TailType DEF VncJobOK, NoVncJob
<1>3. SessionsOK' /\ NotReadyOK'
  BY DEF SessionsOK, NotReadyOK, InUse
<1>4. SessionsApart'
  BY DEF SessionsApart, NotReadyOK, InUse
<1>5. NoPortLost'
  <2>1. CASE ready
    BY <2>1 DEF NoPortLost, PortsOf, InUse, NoVncJob
  <2>2. CASE ~ready /\ restarts = 0
    BY <2>2 DEF NoPortLost, NotReadyOK, Restored, Bound
  <2>3. CASE restarts # 0
    BY <2>3 DEF NoPortLost
  <2> QED BY <2>1, <2>2, <2>3
<1>6. NoOrphanProcess'
  BY DEF NoOrphanProcess, Up, NoVncJob
<1> QED BY <1>1, <1>2, <1>3, <1>4, <1>5, <1>6

LEMMA KilledFacts ==
  ASSUME VncTypeOK, NEW q \in Pids
  PROVE  /\ Killed(q) \in [Pids -> Processes]
         /\ \A r \in Pids : /\ Killed(q)[r].port = procs[r].port
                            /\ procs[r].state # "unborn" => Killed(q)[r].state # "unborn"
                            /\ Killed(q)[r].state = "up" => procs[r].state = "up" /\ r # q
BY DEF VncTypeOK, Killed, Processes

LEMMA CleanUpStep == ASSUME VncInv, CleanUp PROVE VncInv'
<1> USE VncAssumption DEF VncInv
<1> DEFINE own == sessions[vncJob.vm].pid
<1>0. vncJob.vm \in Machines /\ requests # <<>> /\ ready /\ vncJob.pc = "clean"
  BY DEF CleanUp, VncJobOK
<1>1. PICK S \in {Dead, Dead \cup {vncJob.vm}} :
        /\ Drop(S)
        /\ procs' \in {procs} \cup {Killed(q) : q \in Pids}
        /\ \/ vncJob' = [vncJob EXCEPT !.pc = "allocate"] /\ UNCHANGED requests
           \/ VncDone
  BY DEF CleanUp, Up
<1>a. S \in SUBSET Machines
  BY <1>0, <1>1 DEF Dead
<1>2. /\ procs' \in [Pids -> Processes]
      /\ \A q \in Pids : /\ procs'[q].port = procs[q].port
                         /\ procs[q].state # "unborn" => procs'[q].state # "unborn"
                         /\ procs'[q].state = "up" => procs[q].state = "up"
  BY <1>1, KilledFacts DEF VncTypeOK
<1>3. VncTypeOK'
  <2>1. vncJob' \in VncJobs /\ requests' \in Seq(Machines)
    BY <1>0, <1>1, JobFacts DEF VncTypeOK
  <2>2. failures' \in Nat /\ restarts' = restarts /\ ready' = ready
    BY DEF CleanUp, VncTypeOK
  <2> QED BY <1>a, <1>1, <1>2, <2>1, <2>2, DropFacts DEF VncTypeOK
<1>4. VncJobOK'
  <2>1. CASE VncDone
    BY <1>0, <2>1, JobFacts DEF VncJobOK
  <2>2. CASE vncJob' = [vncJob EXCEPT !.pc = "allocate"] /\ UNCHANGED requests
    <3>1. Drop(Dead \cup {vncJob.vm})
      BY <1>0, <2>2 DEF CleanUp, VncDone, NoVncJob, VncTypeOK, VncJobs
    <3>2. ~InUse(vncJob.vm)'
      BY <1>0, <3>1, <2>2 DEF Drop, InUse, VncTypeOK, VncJobs
    <3> QED BY <1>0, <2>2, <3>2, JobFacts DEF CleanUp, VncJobOK
  <2> QED BY <1>1, <2>1, <2>2
<1>5. SessionsApart' /\ SessionsOK'
  BY <1>a, <1>1, <1>2, DropKeepsApart
<1>6. NotReadyOK'
  BY <1>0 DEF CleanUp, NotReadyOK
<1>7. NoPortLost'
  <2> SUFFICES ASSUME restarts = 0, NEW p \in allocated' PROVE p \in PortsOf(Machines)'
    BY DEF NoPortLost, CleanUp
  <2>1. PICK v \in Machines : InUse(v) /\ sessions[v].ws_port = p
    BY <1>0, <1>a, <1>1, DropFacts DEF NoPortLost, PortsOf
  <2>2. v \notin S
    BY <1>a, <1>1, <2>1, DropFacts
  <2>3. sessions'[v] = sessions[v]
    BY <1>1, <2>2 DEF Drop
  <2> QED BY <2>1, <2>3 DEF PortsOf, InUse
<1>8. NoOrphanProcess'
  <2> SUFFICES ASSUME failures' = 0, restarts = 0, NEW q \in Pids, Up(q)'
               PROVE  \E v \in Machines : sessions'[v].pid = q
    BY DEF NoOrphanProcess, CleanUp
  <2>1. failures = 0 /\ Drop(Dead \cup {vncJob.vm}) /\ procs' = IF Up(own) THEN Killed(own) ELSE procs
    BY DEF CleanUp, VncTypeOK
  <2>2. Up(q) /\ q # own
    BY <1>2, <2>1, KilledFacts DEF Up
  <2>3. PICK v \in Machines : sessions[v].pid = q
    BY <1>0, <2>1, <2>2 DEF NoOrphanProcess
  <2>4. v \notin Dead \cup {vncJob.vm}
    BY <2>2, <2>3 DEF Dead
  <2> QED BY <2>1, <2>3, <2>4 DEF Drop
<1> QED BY <1>3, <1>4, <1>5, <1>6, <1>7, <1>8

LEMMA AllocateStep == ASSUME VncInv, Allocate PROVE VncInv'
<1> USE VncAssumption DEF VncInv
<1>0. vncJob.vm \in Machines /\ requests # <<>> /\ ready /\ vncJob.pc = "allocate"
  BY DEF Allocate, VncJobOK
<1>1. CASE UNCHANGED allocated /\ VncDone
  <2>1. VncTypeOK' /\ vncJob'.pc = "idle"
    BY <1>0, <1>1, JobFacts DEF Allocate, VncTypeOK
  <2>2. PortsOf(Machines)' = PortsOf(Machines) /\ (\A q \in Pids : Up(q)' <=> Up(q))
    <3>1. sessions' = sessions /\ procs' = procs
      BY DEF Allocate
    <3> QED BY <3>1 DEF PortsOf, InUse, Up
  <2>3. VncJobOK' /\ SessionsOK' /\ NotReadyOK' /\ SessionsApart'
    BY <1>0, <1>1, <2>1
    DEF Allocate, VncJobOK, SessionsOK, NotReadyOK, SessionsApart, InUse
  <2>4. NoPortLost' /\ NoOrphanProcess'
    BY <1>0, <1>1, <2>2 DEF Allocate, NoPortLost, NoOrphanProcess
  <2> QED BY <2>1, <2>3, <2>4
<1>2. ASSUME NEW p \in FreePorts, allocated' = allocated \cup {p},
             vncJob' = [vncJob EXCEPT !.pc = "launch", !.port = p], UNCHANGED requests
      PROVE  VncInv'
  <2>1. p \in Ports /\ p \notin allocated
    BY DEF FreePorts
  <2>2. VncTypeOK'
    BY <1>2, <2>1 DEF Allocate, VncTypeOK, VncJobs
  <2>3. vncJob'.pc = "launch" /\ vncJob'.port = p /\ vncJob'.vm = vncJob.vm
    BY <1>2 DEF VncTypeOK, VncJobs
  <2>4. VncJobOK'
    <3>1. \A v \in Machines : InUse(v)' <=> InUse(v)
      BY DEF Allocate, InUse
    <3>2. \A v \in Machines : InUse(v) => sessions[v].ws_port # p
      BY <2>1 DEF SessionsApart
    <3>3. requests' = requests /\ ready' /\ sessions' = sessions /\ p \in allocated'
      BY <1>0, <1>2 DEF Allocate
    <3>4. ~InUse(vncJob.vm)
      BY <1>0 DEF VncJobOK
    <3> QED BY <1>0, <2>3, <3>1, <3>2, <3>3, <3>4 DEF VncJobOK
  <2>5. SessionsApart' /\ SessionsOK' /\ NotReadyOK'
    BY <1>0, <1>2 DEF Allocate, SessionsApart, SessionsOK, NotReadyOK, InUse
  <2>6. PortsOf(Machines)' = PortsOf(Machines) /\ (\A q \in Pids : Up(q)' <=> Up(q))
    <3>1. sessions' = sessions /\ procs' = procs
      BY DEF Allocate
    <3> QED BY <3>1 DEF PortsOf, InUse, Up
  <2>7. NoPortLost'
    <3>1. restarts' = restarts /\ vncJob.pc = "allocate"
      BY DEF Allocate
    <3>2. restarts = 0 => allocated \subseteq PortsOf(Machines)
      BY <3>1 DEF NoPortLost
    <3>3. restarts' = 0 => allocated' \subseteq PortsOf(Machines)' \cup {vncJob'.port}
      BY <1>2, <2>3, <2>6, <3>1, <3>2
    <3> QED BY <2>3, <3>3 DEF NoPortLost
  <2>8. NoOrphanProcess'
    BY <1>0, <2>3, <2>6 DEF Allocate, NoOrphanProcess
  <2> QED BY <2>2, <2>4, <2>5, <2>7, <2>8
<1> QED BY <1>1, <1>2 DEF Allocate

\* A request that fails gives back its own port, which no session has.
LEMMA GiveBackStep ==
  ASSUME VncInv, GiveBack, vncJob.pc \in {"launch", "lookup"},
         UNCHANGED <<ready, sessions, procs, restarts>>,
         failures' \in Nat, failures' = 0 => failures = 0,
         vncJob.pc = "lookup" /\ Up(vncJob.pid) => failures' # 0
  PROVE  VncInv'
<1> USE VncAssumption DEF VncInv
<1>1. VncTypeOK'
  BY TailType DEF GiveBack, VncDone, VncJobOK, VncTypeOK, VncJobs, NoVncJob
<1>2. VncJobOK' /\ SessionsOK' /\ NotReadyOK'
  BY DEF GiveBack, VncDone, VncJobOK, NoVncJob, SessionsOK, NotReadyOK, InUse, Up
<1>3. SessionsApart'
  BY DEF GiveBack, SessionsApart, VncJobOK, InUse
<1>4. NoPortLost' /\ NoOrphanProcess'
  BY DEF GiveBack, VncDone, NoVncJob, NoPortLost, NoOrphanProcess, PortsOf, InUse, Up
<1> QED BY <1>1, <1>2, <1>3, <1>4

LEMMA LaunchStep == ASSUME VncInv, Launch PROVE VncInv'
<1> USE VncAssumption DEF VncInv
<1>0. vncJob.vm \in Machines /\ requests # <<>> /\ ready /\ vncJob.pc = "launch" /\ vncJob.port \in Ports
  BY DEF Launch, VncJobOK, VncTypeOK
<1>1. ASSUME NEW q \in Pids, procs[q].state = "unborn",
             procs' = [procs EXCEPT ![q] = [state |-> "up", port |-> vncJob.port]],
             vncJob' = [vncJob EXCEPT !.pc = "lookup", !.pid = q],
             UNCHANGED <<requests, allocated, failures>>
      PROVE  VncInv'
  <2>1. VncTypeOK'
    BY <1>0, <1>1 DEF Launch, VncTypeOK, VncJobs, Processes
  <2>2. vncJob'.pc = "lookup" /\ vncJob'.pid = q /\ vncJob'.port = vncJob.port /\ vncJob'.vm = vncJob.vm
    BY <1>1 DEF VncTypeOK, VncJobs
  <2>3. \A v \in Machines : InUse(v) => sessions[v].pid # q
    BY <1>1 DEF SessionsOK
  <2>4. \A v \in Machines : sessions[v].pid # q
    BY <2>3, <1>1 DEF InUse, NoSession
  <2>5. \A r \in Pids \ {q} : procs'[r] = procs[r]
    BY <1>1 DEF VncTypeOK
  <2>6. procs'[q].state = "up" /\ procs'[q].port = vncJob.port
    BY <1>1 DEF VncTypeOK
  <2>7. VncJobOK'
    <3>1. ready' = ready /\ sessions' = sessions /\ requests' = requests /\ allocated' = allocated
      BY <1>1 DEF Launch
    <3>2. \A v \in Machines : InUse(v)' <=> InUse(v)
      BY <3>1 DEF InUse
    <3>3. vncJob'.vm \in Machines /\ requests' # <<>> /\ ready'
      BY <1>0, <2>2, <3>1
    <3>4. /\ ~InUse(vncJob.vm) /\ vncJob.port \in allocated
          /\ \A v \in Machines : InUse(v) => sessions[v].ws_port # vncJob.port
      BY <1>0 DEF VncJobOK
    <3>5. /\ ~InUse(vncJob.vm)' /\ vncJob'.port \in allocated'
          /\ \A v \in Machines : InUse(v)' => sessions'[v].ws_port # vncJob'.port
      BY <1>0, <2>2, <3>1, <3>2, <3>4 DEF InUse
    <3>6. /\ vncJob'.pid \in Pids
          /\ procs'[vncJob'.pid].port = vncJob'.port /\ procs'[vncJob'.pid].state # "unborn"
          /\ \A v \in Machines : sessions'[v].pid # vncJob'.pid
      BY <2>2, <2>4, <2>6, <3>1
    <3> QED BY <2>2, <3>3, <3>5, <3>6 DEF VncJobOK, InUse
  <2>8. SessionsOK' /\ SessionsApart'
    <3>1. \A v \in Machines : InUse(v) =>
            procs'[sessions[v].pid] = procs[sessions[v].pid] /\ InUse(v)'
      BY <2>3, <2>5 DEF SessionsOK, InUse, Launch
    <3>2. sessions' = sessions /\ allocated' = allocated
      BY <1>1 DEF Launch
    <3> QED BY <3>1, <3>2 DEF SessionsOK, SessionsApart, InUse
  <2>9. NotReadyOK' /\ NoPortLost'
    BY <1>0, <1>1, <2>2 DEF Launch, NotReadyOK, NoPortLost, PortsOf, InUse
  <2>10. NoOrphanProcess'
    <3>1. \A r \in Pids \ {q} : Up(r)' <=> Up(r)
      BY <2>5 DEF Up
    <3>2. sessions' = sessions /\ failures' = failures /\ restarts' = restarts
      BY <1>1 DEF Launch
    <3> QED BY <1>0, <2>2, <3>1, <3>2 DEF NoOrphanProcess
  <2> QED BY <2>1, <2>7, <2>8, <2>9, <2>10
<1>2. CASE MayFail /\ failures' = failures + 1 /\ GiveBack /\ UNCHANGED procs
  BY <1>0, <1>2, GiveBackStep DEF Launch, VncTypeOK
<1> QED BY <1>1, <1>2 DEF Launch

LEMMA LookupStep == ASSUME VncInv, Lookup PROVE VncInv'
<1> USE VncAssumption DEF VncInv
<1>0. /\ vncJob.vm \in Machines /\ requests # <<>> /\ ready /\ vncJob.pc = "lookup"
      /\ vncJob.port \in Ports /\ vncJob.port \in allocated /\ vncJob.pid \in Pids
  BY DEF Lookup, VncJobOK, VncTypeOK
<1> DEFINE new == [pid |-> vncJob.pid, ws_port |-> vncJob.port]
<1>1. CASE /\ sessions' = [sessions EXCEPT ![vncJob.vm] = new]
           /\ VncDone /\ UNCHANGED <<allocated, failures>>
  <2>1. VncTypeOK'
    BY <1>0, <1>1, TailType DEF Lookup, VncDone, VncTypeOK, VncJobs, NoVncJob, Sessions
  <2>2. sessions'[vncJob.vm] = new /\ \A v \in Machines \ {vncJob.vm} : sessions'[v] = sessions[v]
    BY <1>0, <1>1 DEF VncTypeOK
  <2>3. VncJobOK' /\ NotReadyOK' /\ SessionsOK'
    BY <1>0, <1>1, <2>2 DEF Lookup, VncDone, NoVncJob, VncJobOK, NotReadyOK, SessionsOK, InUse
  <2>4. SessionsApart'
    BY <1>0, <1>1, <2>2 DEF Lookup, SessionsApart, VncJobOK, InUse
  <2>5. NoPortLost'
    <3> SUFFICES ASSUME restarts = 0, NEW p \in allocated PROVE p \in PortsOf(Machines)'
      BY <1>1 DEF NoPortLost, Lookup
    <3>1. CASE p = vncJob.port
      BY <1>0, <2>2, <3>1, VncAssumption DEF PortsOf, InUse, NoSession
    <3>2. CASE p # vncJob.port
      <4>1. PICK v \in Machines : InUse(v) /\ sessions[v].ws_port = p
        BY <1>0, <3>2 DEF NoPortLost, PortsOf
      <4>2. sessions'[v] = sessions[v]
        BY <1>0, <2>2, <4>1 DEF VncJobOK
      <4> QED BY <4>1, <4>2 DEF PortsOf, InUse
    <3> QED BY <3>1, <3>2
  <2>6. NoOrphanProcess'
    <3> SUFFICES ASSUME failures = 0, restarts = 0, NEW q \in Pids, Up(q)
                 PROVE  \E v \in Machines : sessions'[v].pid = q
      BY <1>1 DEF NoOrphanProcess, Lookup, Up
    <3>1. CASE q = vncJob.pid
      BY <1>0, <2>2, <3>1
    <3>2. CASE q # vncJob.pid
      <4>1. PICK v \in Machines : sessions[v].pid = q
        BY <3>2 DEF NoOrphanProcess
      <4>2. v # vncJob.vm
        BY <1>0, <4>1, VncAssumption DEF VncJobOK, InUse, NoSession
      <4> QED BY <2>2, <4>1, <4>2
    <3> QED BY <3>1, <3>2
  <2> QED BY <2>1, <2>3, <2>4, <2>5, <2>6
<1>2. CASE /\ IF Up(vncJob.pid) THEN MayFail /\ failures' = failures + 1 ELSE UNCHANGED failures
           /\ GiveBack /\ UNCHANGED sessions
  BY <1>0, <1>2, GiveBackStep DEF Lookup, VncTypeOK
<1> QED BY <1>1, <1>2 DEF Lookup

LEMMA ProcessEndsStep == ASSUME VncInv, NEW q \in Pids, ProcessEnds(q) PROVE VncInv'
<1> USE VncAssumption DEF VncInv
<1>1. /\ procs' \in [Pids -> Processes]
      /\ \A r \in Pids : /\ procs'[r].port = procs[r].port
                         /\ procs[r].state # "unborn" => procs'[r].state # "unborn"
                         /\ procs'[r].state = "up" => procs[r].state = "up"
  BY KilledFacts DEF ProcessEnds
<1> QED
  BY <1>1 DEF ProcessEnds, VncTypeOK, VncJobOK, SessionsOK, NotReadyOK, SessionsApart, NoPortLost,
     NoOrphanProcess, InUse, Up, PortsOf

LEMMA RestartStep == ASSUME VncInv, Restart PROVE VncInv'
<1> USE VncAssumption DEF VncInv, Restart
<1>1. VncTypeOK'
  <2>1. sessions' \in [Machines -> Sessions] /\ vncJob' \in VncJobs
    BY NoTypes
  <2>2. procs' \in [Pids -> Processes]
    BY DEF VncTypeOK, Processes
  <2>3. allocated' \subseteq Ports /\ ready' \in BOOLEAN /\ requests' \in Seq(Machines)
    BY DEF VncTypeOK
  <2>4. failures' \in Nat /\ restarts' \in Nat
    BY DEF VncTypeOK
  <2> QED BY ONLY <2>1, <2>2, <2>3, <2>4 DEF VncTypeOK
<1>2. \A v \in Machines : ~InUse(v)'
  BY DEF InUse
<1> QED
  BY <1>1, <1>2 DEF VncTypeOK, VncJobOK, NoVncJob, SessionsOK, NotReadyOK, SessionsApart, NoPortLost,
     NoOrphanProcess

LEMMA StutterStep == ASSUME VncInv, UNCHANGED vncVars PROVE VncInv'
BY DEF vncVars, VncInv, VncTypeOK, VncJobOK, SessionsOK, NotReadyOK, SessionsApart, NoPortLost,
   NoOrphanProcess, InUse, Up, PortsOf

\* VncInv holds in every reachable state.
THEOREM VncInvariance == VncSpec => []VncInv
<1>1. VncInv /\ [VncNext]_vncVars => VncInv'
  BY VncStep, TakeStep, CleanUpStep, AllocateStep, LaunchStep, LookupStep,
     ProcessEndsStep, RestartStep, StutterStep DEF VncNext
<1> QED BY VncInitInv, <1>1, PTL DEF VncSpec

\* Ports, sessions, processes and the request being served keep their types.
THEOREM VncTypeCorrect == VncSpec => []VncTypeOK
<1>1. VncInv => VncTypeOK
  BY DEF VncInv
<1> QED BY VncInvariance, <1>1, PTL

\* Two machines never share a port or a process.
THEOREM Apart == VncSpec => []SessionsApart
<1>1. VncInv => SessionsApart
  BY DEF VncInv
<1> QED BY VncInvariance, <1>1, PTL

\* Until a restart every port that is taken belongs to a session or a request.
THEOREM PortsKept == VncSpec => []NoPortLost
<1>1. VncInv => NoPortLost
  BY DEF VncInv
<1> QED BY VncInvariance, <1>1, PTL

\* Without failures and restarts every process belongs to a session or a request.
THEOREM NoOrphans == VncSpec => []NoOrphanProcess
<1>1. VncInv => NoOrphanProcess
  BY DEF VncInv
<1> QED BY VncInvariance, <1>1, PTL

-----------------------------------------------------------------------------
(* The scheduler *)

CONSTANTS CronJobs, NoCronJob, MaxJobs, MaxEdits, CronFaults

VARIABLES cronRows, cron, handler, cronSvcReply, cronDomQ, cronMon, cronMonReply, listing, edits, cronFailures

Sched == INSTANCE SchedulerService
           WITH Jobs <- CronJobs, NoJob <- NoCronJob, MaxFaults <- CronFaults,
                rows <- cronRows, svcReply <- cronSvcReply, domQ <- cronDomQ, mon <- cronMon,
                monReply <- cronMonReply, faults <- cronFailures

\* SchedulerAssumption, of the constants of the instance.
CronConstants ==
  /\ NoCronJob \notin CronJobs
  /\ MaxJobs \in Nat \ {0} /\ MaxEdits \in Nat /\ CronFaults \in Nat

Known(j) == cronRows[j].status # "none"
Gone(j) == cronRows[j].status = "deleted"

\* What waits in the domain queue about a job: a create was sent for a row, a
\* delete for a row that is gone, and rows never come back.
RequestOK(r) ==
  /\ r.op # "list_all" => r.id \in CronJobs
  /\ r.op = "create" => Known(r.id)
  /\ r.op = "delete" => Gone(r.id)
CronQueueOK == \A i \in DOMAIN cronDomQ : RequestOK(cronDomQ[i])

CronHandlerOK ==
  /\ handler.op # "none" => handler.id \in CronJobs
  /\ handler.op = "none" => handler.pc = "idle"
  /\ handler.op = "create" => Known(handler.id)
  /\ handler.op = "delete" => Gone(handler.id)

\* The order of list_all and the read of the rows: what was listed had a row
\* before, so what has none by now was deleted.
CrontabOK ==
  \A j \in CronJobs : cron[j] # <<>> \/ listing[j] # "absent" => Known(j)
OrphansOK == \A j \in cronMon.orphans : Gone(j)

CronInv == Sched!TypeOK /\ CronQueueOK /\ CronHandlerOK /\ CrontabOK /\ OrphansOK

-----------------------------------------------------------------------------
(* Type correctness *)

LEMMA CronInitTypes ==
  ASSUME CronConstants, Sched!Init
  PROVE  Sched!TypeOK
BY DEF CronConstants, Sched!Init, Sched!TypeOK, Sched!Rows, Sched!NoRow, Sched!Handlers,
       Sched!NoHandler, Sched!Requests, Sched!Monitors, Sched!IdleMonitor

\* Enabling or disabling the first entry of a job keeps its entries Booleans,
\* and as many as they were.
LEMMA FirstEntry ==
  ASSUME NEW s \in Seq(BOOLEAN), s # <<>>, NEW b \in BOOLEAN
  PROVE  /\ [s EXCEPT ![1] = b] \in Seq(BOOLEAN)
         /\ Len([s EXCEPT ![1] = b]) = Len(s)
OBVIOUS

\* What a request makes of the crontab: the entries of one job change.
LEMMA EditedType ==
  ASSUME Sched!TypeOK, NEW r \in Sched!Requests, RequestOK(r)
  PROVE  Sched!Edited(r) \in [CronJobs -> Seq(BOOLEAN)]
<1> USE DEF Sched!TypeOK, Sched!Requests, RequestOK
<1>1. CASE r.op = "create"
  <2>1. Append(cron[r.id], TRUE) \in Seq(BOOLEAN)
    BY <1>1
  <2> QED BY <1>1, <2>1 DEF Sched!Edited
<1>2. CASE r.op = "edit" /\ cron[r.id] # <<>>
  <2>1. [cron[r.id] EXCEPT ![1] = r.enabled] \in Seq(BOOLEAN)
    BY <1>2, FirstEntry
  <2>2. Sched!Edited(r) = [cron EXCEPT ![r.id] = [cron[r.id] EXCEPT ![1] = r.enabled]]
    BY <1>2 DEF Sched!Edited
  <2> QED BY <1>2, <2>1, <2>2
<1>3. CASE r.op = "delete"
  BY <1>3 DEF Sched!Edited
<1>4. CASE r.op # "create" /\ ~(r.op = "edit" /\ cron[r.id] # <<>>) /\ r.op # "delete"
  BY <1>4 DEF Sched!Edited
<1> QED BY <1>1, <1>2, <1>3, <1>4

\* The domain queue, appended to, served and disowned, is still a queue of
\* requests; HandlerOK makes what a handler sends a request.
LEMMA QueueType ==
  ASSUME Sched!TypeOK
  PROVE  /\ \A r \in Sched!Requests : Append(cronDomQ, r) \in Seq(Sched!Requests)
         /\ cronDomQ # <<>> => Head(cronDomQ) \in Sched!Requests /\ Tail(cronDomQ) \in Seq(Sched!Requests)
         /\ \A O \in SUBSET {"svc", "mon"} :
              Sched!Disowned(O) \in Seq(Sched!Requests) /\ Len(Sched!Disowned(O)) = Len(cronDomQ)
<1> USE DEF Sched!TypeOK
<1>1. \A r \in Sched!Requests : Append(cronDomQ, r) \in Seq(Sched!Requests)
  OBVIOUS
<1>2. cronDomQ # <<>> => Head(cronDomQ) \in Sched!Requests /\ Tail(cronDomQ) \in Seq(Sched!Requests)
  OBVIOUS
<1>3. ASSUME NEW O \in SUBSET {"svc", "mon"}
      PROVE  Sched!Disowned(O) \in Seq(Sched!Requests) /\ Len(Sched!Disowned(O)) = Len(cronDomQ)
  <2>1. ASSUME NEW i \in 1..Len(cronDomQ)
        PROVE  [cronDomQ[i] EXCEPT !.owner = "none"] \in Sched!Requests
    <3>1. cronDomQ[i] \in Sched!Requests
      OBVIOUS
    <3> QED BY <3>1 DEF Sched!Requests
  <2>2. Sched!Disowned(O) \in [1..Len(cronDomQ) -> Sched!Requests]
    BY <2>1 DEF Sched!Disowned
  <2>3. Len(cronDomQ) \in Nat
    OBVIOUS
  <2> QED BY ONLY <2>2, <2>3, SMTT(30)
<1> QED BY <1>1, <1>2, <1>3

LEMMA ListedType ==
  ASSUME Sched!TypeOK PROVE Sched!Listed \in [CronJobs -> {"absent", "on", "off"}]
BY DEF Sched!TypeOK, Sched!Listed

\* The columns a handler or the thread changes keep a row a row.
LEMMA RowType ==
  ASSUME NEW r \in Sched!Rows
  PROVE  /\ \A e \in BOOLEAN : [r EXCEPT !.enabled = e] \in Sched!Rows
         /\ [r EXCEPT !.status = "deleted"] \in Sched!Rows
         /\ [r EXCEPT !.old = TRUE] \in Sched!Rows
BY DEF Sched!Rows

LEMMA CronTypeStep ==
  ASSUME CronConstants, CronInv, [Sched!Next]_(Sched!vars)
  PROVE  Sched!TypeOK'
<1> USE DEF CronConstants, CronInv
<1>1. ASSUME NEW j \in CronJobs, NEW e \in BOOLEAN, Sched!CreateJob(j, e) PROVE Sched!TypeOK'
  BY <1>1
  DEF Sched!CreateJob, Sched!TypeOK, Sched!Handler, Sched!Handlers, Sched!Rows, Sched!svcVars,
      Sched!monVars, Sched!bounds
<1>2. ASSUME NEW j \in CronJobs, NEW e \in BOOLEAN, Sched!EditJob(j, e) PROVE Sched!TypeOK'
  <2>1. cronRows' \in [CronJobs -> Sched!Rows] /\ handler' \in Sched!Handlers
    BY <1>2, RowType DEF Sched!EditJob, Sched!TypeOK, Sched!Handler, Sched!Handlers
  <2>2. edits' \in 0..MaxEdits
    BY <1>2 DEF Sched!EditJob, Sched!TypeOK
  <2> QED BY <1>2, <2>1, <2>2 DEF Sched!EditJob, Sched!TypeOK, Sched!monVars
<1>3. ASSUME NEW j \in CronJobs, Sched!DeleteJob(j) PROVE Sched!TypeOK'
  <2>1. cronRows' \in [CronJobs -> Sched!Rows] /\ handler' \in Sched!Handlers
    BY <1>3, RowType DEF Sched!DeleteJob, Sched!TypeOK, Sched!Handler, Sched!Handlers
  <2> QED BY <1>3, <2>1 DEF Sched!DeleteJob, Sched!TypeOK, Sched!monVars, Sched!bounds
<1>4. CASE Sched!CallOfHandler
  <2> DEFINE r == [op |-> handler.op, id |-> handler.id,
                   enabled |-> cronRows[handler.id].enabled, owner |-> "svc"]
  <2>1. r \in Sched!Requests /\ cronDomQ' = Append(cronDomQ, r)
    BY <1>4
    DEF Sched!CallOfHandler, Sched!CallDomain, Sched!TypeOK, CronHandlerOK, Sched!Handlers, Sched!Requests,
        Sched!Rows
  <2>2. handler' \in Sched!Handlers
    BY <1>4 DEF Sched!CallOfHandler, Sched!TypeOK, Sched!Handlers
  <2> QED BY <1>4, <2>1, <2>2, QueueType
  DEF Sched!CallOfHandler, Sched!TypeOK, Sched!monVars, Sched!bounds
<1>5. CASE Sched!FinishHandler
  BY <1>5
  DEF Sched!FinishHandler, Sched!TypeOK, Sched!Handlers, Sched!NoHandler, Sched!monVars, Sched!bounds
<1>6. CASE Sched!DomainExecute
  <2>1. Head(cronDomQ) \in Sched!Requests /\ Tail(cronDomQ) \in Seq(Sched!Requests) /\ RequestOK(Head(cronDomQ))
    BY <1>6, QueueType DEF Sched!DomainExecute, CronQueueOK, Sched!TypeOK
  <2>2. cron' \in [CronJobs -> Seq(BOOLEAN)]
    BY <1>6, <2>1, EditedType DEF Sched!DomainExecute
  <2>3. listing' \in [CronJobs -> {"absent", "on", "off"}]
    BY <1>6, ListedType DEF Sched!DomainExecute, Sched!TypeOK
  <2>4. cronSvcReply' \in {"none", "ok", "err", "timeout"} /\ cronMonReply' \in {"none", "ok", "err"}
    BY <1>6 DEF Sched!DomainExecute, Sched!Answer, Sched!TypeOK
  <2> QED BY <1>6, <2>1, <2>2, <2>3, <2>4 DEF Sched!DomainExecute, Sched!TypeOK, Sched!bounds
<1>7. CASE Sched!DomainFault
  <2>1. cronSvcReply' \in {"none", "ok", "err", "timeout"} /\ cronMonReply' \in {"none", "ok", "err"}
    BY <1>7 DEF Sched!DomainFault, Sched!Answer, Sched!TypeOK
  <2> QED BY <1>7, <2>1, QueueType DEF Sched!DomainFault, Sched!TypeOK
<1>8. CASE Sched!DomainCrash
  <2>1. Head(cronDomQ) \in Sched!Requests /\ RequestOK(Head(cronDomQ))
    BY <1>8, QueueType DEF Sched!DomainCrash, CronQueueOK, Sched!TypeOK
  <2>2. cron' \in [CronJobs -> Seq(BOOLEAN)]
    BY <1>8, <2>1, EditedType DEF Sched!DomainCrash
  <2> QED BY <1>8, <2>2 DEF Sched!DomainCrash, Sched!TypeOK, Sched!svcVars, Sched!monVars
<1>9. CASE Sched!ServiceTimeout
  BY <1>9, QueueType DEF Sched!ServiceTimeout, Sched!TypeOK, Sched!monVars
<1>10. CASE Sched!MonitorTimeout
  BY <1>10, QueueType DEF Sched!MonitorTimeout, Sched!TypeOK, Sched!svcVars
<1>11. CASE Sched!MonitorList
  <2>1. cronMon' \in Sched!Monitors
    BY <1>11 DEF Sched!MonitorList, Sched!TypeOK, Sched!Monitors
  <2>2. [op |-> "list_all", id |-> NoCronJob, enabled |-> FALSE, owner |-> "mon"] \in Sched!Requests
    BY DEF Sched!Requests
  <2> QED BY <1>11, <2>1, <2>2, QueueType
  DEF Sched!MonitorList, Sched!CallDomain, Sched!TypeOK, Sched!svcVars, Sched!bounds
<1>12. CASE Sched!MonitorRead
  <2>1. \A j \in CronJobs : Sched!Synchronized(j) \in {"none", "times", "enable", "disable"}
    BY DEF Sched!Synchronized, Sched!TypeOK
  <2>2. cronMon' \in Sched!Monitors
    BY <1>12, <2>1 DEF Sched!MonitorRead, Sched!IdleMonitor, Sched!Monitors
  <2> QED BY <1>12, <2>2 DEF Sched!MonitorRead, Sched!TypeOK, Sched!svcVars, Sched!bounds
<1>13. CASE Sched!MonitorDelete
  <2>1. PICK j \in cronMon.orphans : /\ Sched!CallDomain("delete", j, FALSE, "mon")
                                 /\ cronMon' = [cronMon EXCEPT !.pc = "wait", !.orphans = @ \ {j}]
    BY <1>13 DEF Sched!MonitorDelete
  <2>2. [op |-> "delete", id |-> j, enabled |-> FALSE, owner |-> "mon"] \in Sched!Requests
    BY DEF Sched!TypeOK, Sched!Monitors, Sched!Requests
  <2>3. cronMon' \in Sched!Monitors
    BY <2>1 DEF Sched!TypeOK, Sched!Monitors
  <2> QED BY <1>13, <2>1, <2>2, <2>3, QueueType
      DEF Sched!MonitorDelete, Sched!CallDomain, Sched!TypeOK, Sched!svcVars, Sched!bounds
<1>14. CASE Sched!MonitorDeleted
  BY <1>14 DEF Sched!MonitorDeleted, Sched!TypeOK, Sched!Monitors, Sched!svcVars, Sched!bounds
<1>15. CASE Sched!MonitorWrite
  <2>1. cronRows' \in [CronJobs -> Sched!Rows]
    <3>1. CASE UNCHANGED cronRows
      BY <3>1 DEF Sched!TypeOK
    <3>2. CASE cronRows' = [j \in CronJobs |->
                 IF Sched!Exists(j) /\ cronMon.write[j] \in {"enable", "disable"}
                 THEN [cronRows[j] EXCEPT !.enabled = (cronMon.write[j] = "enable")] ELSE cronRows[j]]
      BY <3>2, RowType DEF Sched!TypeOK
    <3> QED BY <1>15, <3>1, <3>2 DEF Sched!MonitorWrite
  <2>2. Sched!IdleMonitor \in Sched!Monitors /\ [Sched!IdleMonitor EXCEPT !.pc = "dead"] \in Sched!Monitors
    BY DEF Sched!IdleMonitor, Sched!Monitors
  <2>3. cronMon' \in Sched!Monitors
    BY <1>15, <2>2 DEF Sched!MonitorWrite
  <2> QED BY <1>15, <2>1, <2>3 DEF Sched!MonitorWrite, Sched!TypeOK, Sched!svcVars, Sched!bounds
<1>16. ASSUME NEW j \in CronJobs, Sched!Age(j) PROVE Sched!TypeOK'
  BY <1>16 DEF Sched!Age, Sched!TypeOK, Sched!Rows, Sched!svcVars, Sched!monVars, Sched!bounds
<1>17. CASE Sched!ServiceCrash
  <2>1. cronMon' \in Sched!Monitors /\ handler' \in Sched!Handlers
    BY <1>17 DEF Sched!ServiceCrash, Sched!IdleMonitor, Sched!Monitors, Sched!NoHandler, Sched!Handlers
  <2> QED BY <1>17, <2>1, QueueType DEF Sched!ServiceCrash, Sched!TypeOK
<1>18. CASE UNCHANGED Sched!vars
  BY <1>18 DEF Sched!TypeOK, Sched!vars, Sched!svcVars, Sched!monVars, Sched!bounds
<1> QED
  BY <1>1, <1>2, <1>3, <1>4, <1>5, <1>6, <1>7, <1>8, <1>9, <1>10, <1>11, <1>12,
     <1>13, <1>14, <1>15, <1>16, <1>17, <1>18
  DEF Sched!Next, Sched!ApiRequest, Sched!ApiCreate, Sched!ApiEdit, Sched!ApiDelete, Sched!HandlerStep,
      Sched!MonitorStep
-----------------------------------------------------------------------------
(* Rows, requests and entries *)

\* A row that was inserted is never forgotten and one that was deleted never
\* comes back: ids are used once.
RowsGrow ==
  \A j \in CronJobs : (Known(j) => Known(j)') /\ (Gone(j) => Gone(j)')

LEMMA RowsOnlyGrow == CronInv /\ [Sched!Next]_(Sched!vars) => RowsGrow
<1> SUFFICES ASSUME CronInv, [Sched!Next]_(Sched!vars) PROVE RowsGrow
  OBVIOUS
<1> USE DEF CronInv, Sched!TypeOK, RowsGrow, Known, Gone
<1>1. ASSUME NEW j \in CronJobs, NEW e \in BOOLEAN, Sched!CreateJob(j, e) \/ Sched!EditJob(j, e)
      PROVE  RowsGrow
  BY <1>1 DEF Sched!CreateJob, Sched!EditJob, Sched!Exists, Sched!Rows
<1>2. ASSUME NEW j \in CronJobs, Sched!DeleteJob(j) \/ Sched!Age(j) PROVE RowsGrow
  BY <1>2 DEF Sched!DeleteJob, Sched!Age, Sched!Exists, Sched!Rows
<1>3. CASE Sched!MonitorWrite
  <2>1. \A j \in CronJobs : cronRows'[j].status = cronRows[j].status
    <3> DEFINE on(j) == cronMon.write[j] = "enable"
    <3>1. ASSUME NEW j \in CronJobs
          PROVE  [cronRows[j] EXCEPT !.enabled = on(j)].status = cronRows[j].status
      <4>1. PICK r \in Sched!Rows : r = cronRows[j]
        OBVIOUS
      <4>2. \A x : [r EXCEPT !.enabled = x].status = r.status
        BY DEF Sched!Rows
      <4> QED BY <4>1, <4>2
    <3>2. \/ UNCHANGED cronRows
          \/ cronRows' = [j \in CronJobs |->
                IF Sched!Exists(j) /\ cronMon.write[j] \in {"enable", "disable"}
                THEN [cronRows[j] EXCEPT !.enabled = on(j)] ELSE cronRows[j]]
      BY <1>3 DEF Sched!MonitorWrite
    <3> HIDE DEF on
    <3> QED BY <3>1, <3>2
  <2> QED BY <2>1
<1>4. CASE UNCHANGED cronRows
  BY <1>4
<1> QED
  BY <1>1, <1>2, <1>3, <1>4
  DEF Sched!Next, Sched!ApiRequest, Sched!ApiCreate, Sched!ApiEdit, Sched!ApiDelete, Sched!HandlerStep,
      Sched!MonitorStep, Sched!vars, Sched!CallOfHandler, Sched!FinishHandler, Sched!DomainExecute,
      Sched!DomainFault, Sched!DomainCrash, Sched!ServiceTimeout, Sched!MonitorTimeout,
      Sched!MonitorList, Sched!MonitorRead, Sched!MonitorDelete, Sched!MonitorDeleted,
      Sched!ServiceCrash

\* RequestOK in the next state, of a request as it is in this one.
OKNext(r) ==
  /\ r.op # "list_all" => r.id \in CronJobs
  /\ r.op = "create" => cronRows'[r.id].status # "none"
  /\ r.op = "delete" => cronRows'[r.id].status = "deleted"

\* A request stays right while it waits; so does the queue when the requests it
\* holds afterwards were in it before or are right by themselves.
LEMMA QueueStep ==
  ASSUME Sched!TypeOK, CronQueueOK, RowsGrow,
         \/ UNCHANGED cronDomQ
         \/ cronDomQ # <<>> /\ cronDomQ' = Tail(cronDomQ)
         \/ \E r \in Sched!Requests : OKNext(r) /\ cronDomQ' = Append(cronDomQ, r)
         \/ \E O \in SUBSET {"svc", "mon"} : cronDomQ' = Sched!Disowned(O)
  PROVE  CronQueueOK'
<1>0. \A i \in DOMAIN cronDomQ : OKNext(cronDomQ[i])
  BY DEF CronQueueOK, RequestOK, OKNext, RowsGrow, Known, Gone
<1>a. SUFFICES \A i \in DOMAIN cronDomQ' : OKNext(cronDomQ'[i])
  BY DEF CronQueueOK, RequestOK, OKNext, Known, Gone
<1>1. CASE UNCHANGED cronDomQ
  BY <1>0, <1>1
<1>2. CASE cronDomQ # <<>> /\ cronDomQ' = Tail(cronDomQ)
  <2>1. \A i \in DOMAIN cronDomQ' : i + 1 \in DOMAIN cronDomQ /\ cronDomQ'[i] = cronDomQ[i + 1]
    BY <1>2 DEF Sched!TypeOK
  <2> QED BY <1>0, <2>1
<1>3. CASE \E r \in Sched!Requests : OKNext(r) /\ cronDomQ' = Append(cronDomQ, r)
  <2>1. PICK r \in Sched!Requests : OKNext(r) /\ cronDomQ' = Append(cronDomQ, r)
    BY <1>3
  <2>2. \A i \in DOMAIN cronDomQ' : cronDomQ'[i] = r \/ (i \in DOMAIN cronDomQ /\ cronDomQ'[i] = cronDomQ[i])
    BY <2>1 DEF Sched!TypeOK
  <2> QED BY <1>0, <2>1, <2>2
<1>4. CASE \E O \in SUBSET {"svc", "mon"} : cronDomQ' = Sched!Disowned(O)
  <2>1. ASSUME NEW i \in DOMAIN cronDomQ'
        PROVE  /\ i \in DOMAIN cronDomQ
               /\ cronDomQ'[i].op = cronDomQ[i].op /\ cronDomQ'[i].id = cronDomQ[i].id
    <3>1. i \in DOMAIN cronDomQ /\ cronDomQ[i] \in Sched!Requests
      BY <1>4 DEF Sched!Disowned, Sched!TypeOK
    <3>2. cronDomQ'[i] = cronDomQ[i] \/ cronDomQ'[i] = [cronDomQ[i] EXCEPT !.owner = "none"]
      BY <1>4, <3>1 DEF Sched!Disowned
    <3> QED BY <3>1, <3>2 DEF Sched!Requests
  <2> QED BY <1>0, <2>1 DEF OKNext
<1> QED BY <1>1, <1>2, <1>3, <1>4

\* What executing a request does to the entries of a job: none that were not
\* there come to a job without a row, and none go while there is one.
LEMMA EditedEntries ==
  ASSUME Sched!TypeOK, NEW r \in Sched!Requests, RequestOK(r), NEW j \in CronJobs
  PROVE  /\ Sched!Edited(r)[j] # <<>> => cron[j] # <<>> \/ Known(j)
         /\ Len(Sched!Edited(r)[j]) < Len(cron[j]) => Gone(j)
<1> USE DEF Sched!TypeOK, Sched!Requests, RequestOK
<1>1. CASE r.op = "create"
  <2>1. Sched!Edited(r) = [cron EXCEPT ![r.id] = Append(cron[r.id], TRUE)]
    BY <1>1 DEF Sched!Edited
  <2>2. r.id \in CronJobs /\ Known(r.id)
    BY <1>1
  <2>3. cron[r.id] \in Seq(BOOLEAN)
    BY <2>2
  <2>4. Len(Append(cron[r.id], TRUE)) = Len(cron[r.id]) + 1
    BY <2>3
  <2>5. j # r.id => Sched!Edited(r)[j] = cron[j]
    BY <2>1
  <2>6. j = r.id => Sched!Edited(r)[j] = Append(cron[j], TRUE)
    BY <2>1
  <2>7. Len(cron[j]) \in Nat
    OBVIOUS
  <2> HIDE DEF Sched!TypeOK, Sched!Requests, RequestOK
  <2>8. CASE j = r.id
    BY <2>2, <2>4, <2>6, <2>7, <2>8
  <2> QED BY <2>5, <2>7, <2>8
<1>2. CASE r.op = "edit" /\ cron[r.id] # <<>>
  <2>1. Sched!Edited(r) = [cron EXCEPT ![r.id] = [cron[r.id] EXCEPT ![1] = r.enabled]]
    BY <1>2 DEF Sched!Edited
  <2>2. Len([cron[r.id] EXCEPT ![1] = r.enabled]) = Len(cron[r.id])
    BY <1>2, FirstEntry
  <2> QED BY <1>2, <2>1, <2>2
<1>3. CASE r.op = "delete"
  BY <1>3 DEF Sched!Edited
<1>4. CASE r.op # "create" /\ ~(r.op = "edit" /\ cron[r.id] # <<>>) /\ r.op # "delete"
  BY <1>4 DEF Sched!Edited
<1> QED BY <1>1, <1>2, <1>3, <1>4
-----------------------------------------------------------------------------
(* The invariant *)

LEMMA CronInit ==
  ASSUME CronConstants, Sched!Init
  PROVE  CronInv
<1>1. Sched!TypeOK
  BY CronInitTypes
<1>2. CronQueueOK /\ CronHandlerOK /\ CrontabOK /\ OrphansOK
  BY DEF Sched!Init, CronQueueOK, CronHandlerOK, Sched!NoHandler, CrontabOK, OrphansOK, Sched!IdleMonitor
<1> QED BY <1>1, <1>2 DEF CronInv

LEMMA QueueInv == CronInv /\ [Sched!Next]_(Sched!vars) => CronQueueOK'
<1> SUFFICES ASSUME CronInv, [Sched!Next]_(Sched!vars) PROVE CronQueueOK'
  OBVIOUS
<1>0. Sched!TypeOK /\ CronQueueOK /\ RowsGrow
  BY RowsOnlyGrow DEF CronInv
<1>1. CASE UNCHANGED cronDomQ
  BY <1>0, <1>1, QueueStep
<1>2. CASE cronDomQ # <<>> /\ cronDomQ' = Tail(cronDomQ)
  BY <1>0, <1>2, QueueStep
<1>3. CASE \E O \in SUBSET {"svc", "mon"} : cronDomQ' = Sched!Disowned(O)
  BY <1>0, <1>3, QueueStep
<1>4. CASE Sched!CallOfHandler
  <2> DEFINE r == [op |-> handler.op, id |-> handler.id,
                   enabled |-> cronRows[handler.id].enabled, owner |-> "svc"]
  <2>1. cronDomQ' = Append(cronDomQ, r)
    BY <1>4 DEF Sched!CallOfHandler, Sched!CallDomain
  <2>2. r \in Sched!Requests
    BY <1>4
    DEF Sched!CallOfHandler, CronInv, Sched!TypeOK, CronHandlerOK, Sched!Handlers, Sched!Requests,
        Sched!Rows
  <2>3. OKNext(r)
    BY <1>4 DEF Sched!CallOfHandler, OKNext, CronInv, CronHandlerOK, Known, Gone
  <2> QED BY <1>0, <2>1, <2>2, <2>3, QueueStep
<1>5. CASE Sched!MonitorList
  <2> DEFINE r == [op |-> "list_all", id |-> NoCronJob, enabled |-> FALSE, owner |-> "mon"]
  <2>1. cronDomQ' = Append(cronDomQ, r) /\ r \in Sched!Requests /\ OKNext(r)
    BY <1>5 DEF Sched!MonitorList, Sched!CallDomain, Sched!Requests, OKNext
  <2> QED BY <1>0, <2>1, QueueStep
<1>6. CASE Sched!MonitorDelete
  <2>1. PICK j \in cronMon.orphans : Sched!CallDomain("delete", j, FALSE, "mon")
    BY <1>6 DEF Sched!MonitorDelete
  <2> DEFINE r == [op |-> "delete", id |-> j, enabled |-> FALSE, owner |-> "mon"]
  <2>2. cronDomQ' = Append(cronDomQ, r)
    BY <2>1 DEF Sched!CallDomain
  <2>3. j \in CronJobs /\ Gone(j)
    BY DEF CronInv, OrphansOK, Sched!TypeOK, Sched!Monitors
  <2>4. r \in Sched!Requests /\ OKNext(r)
    BY <1>6, <2>3 DEF Sched!MonitorDelete, Sched!Requests, OKNext, Gone
  <2> QED BY <1>0, <2>2, <2>4, QueueStep
<1> QED
  BY <1>1, <1>2, <1>3, <1>4, <1>5, <1>6
  DEF Sched!Next, Sched!ApiRequest, Sched!ApiCreate, Sched!ApiEdit, Sched!ApiDelete, Sched!HandlerStep,
      Sched!MonitorStep, Sched!vars, Sched!monVars, Sched!svcVars, Sched!CreateJob, Sched!EditJob,
      Sched!DeleteJob, Sched!Age, Sched!FinishHandler, Sched!DomainExecute, Sched!DomainFault,
      Sched!DomainCrash, Sched!ServiceTimeout, Sched!MonitorTimeout, Sched!MonitorRead,
      Sched!MonitorDeleted, Sched!MonitorWrite, Sched!ServiceCrash

LEMMA HandlerInv == CronInv /\ [Sched!Next]_(Sched!vars) => CronHandlerOK'
<1> SUFFICES ASSUME CronInv, [Sched!Next]_(Sched!vars) PROVE CronHandlerOK'
  OBVIOUS
<1>0. RowsGrow
  BY RowsOnlyGrow
<1> USE DEF CronHandlerOK, Known, Gone, CronInv
<1>1. ASSUME NEW j \in CronJobs, NEW e \in BOOLEAN, Sched!CreateJob(j, e) \/ Sched!EditJob(j, e)
      PROVE  CronHandlerOK'
  BY <1>1 DEF Sched!CreateJob, Sched!EditJob, Sched!Handler, Sched!TypeOK
<1>2. ASSUME NEW j \in CronJobs, Sched!DeleteJob(j) PROVE CronHandlerOK'
  BY <1>2 DEF Sched!DeleteJob, Sched!Handler, Sched!TypeOK, Sched!Rows
<1>3. CASE handler' = Sched!NoHandler
  BY <1>3 DEF Sched!NoHandler
<1>4. CASE Sched!CallOfHandler
  BY <1>4 DEF Sched!CallOfHandler, Sched!TypeOK, Sched!Handlers
<1>5. CASE UNCHANGED handler
  BY <1>0, <1>5 DEF RowsGrow
<1> QED
  BY <1>1, <1>2, <1>3, <1>4, <1>5
  DEF Sched!Next, Sched!ApiRequest, Sched!ApiCreate, Sched!ApiEdit, Sched!ApiDelete, Sched!HandlerStep,
      Sched!MonitorStep, Sched!vars, Sched!svcVars, Sched!FinishHandler, Sched!Age, Sched!DomainExecute,
      Sched!DomainFault, Sched!DomainCrash, Sched!ServiceTimeout, Sched!MonitorTimeout,
      Sched!MonitorList, Sched!MonitorRead, Sched!MonitorDelete, Sched!MonitorDeleted,
      Sched!MonitorWrite, Sched!ServiceCrash

LEMMA CrontabInv == CronInv /\ [Sched!Next]_(Sched!vars) => CrontabOK'
<1> SUFFICES ASSUME CronInv, [Sched!Next]_(Sched!vars), NEW j \in CronJobs,
                    cron'[j] # <<>> \/ listing'[j] # "absent"
             PROVE  Known(j)'
  BY DEF CrontabOK, Known
<1>0. Known(j) => Known(j)'
  BY RowsOnlyGrow DEF RowsGrow
<1>1. CASE UNCHANGED <<cron, listing>>
  BY <1>0, <1>1 DEF CronInv, CrontabOK
<1>2. CASE Sched!DomainExecute
  <2>1. Head(cronDomQ) \in Sched!Requests /\ RequestOK(Head(cronDomQ))
    BY <1>2, QueueType DEF Sched!DomainExecute, CronInv, CronQueueOK, Sched!TypeOK
  <2>2. cron'[j] # <<>> => cron[j] # <<>> \/ Known(j)
    BY <1>2, <2>1, EditedEntries DEF Sched!DomainExecute, CronInv
  <2>3. listing'[j] # "absent" => listing[j] # "absent" \/ cron[j] # <<>>
    BY <1>2 DEF Sched!DomainExecute, Sched!Listed
  <2> QED BY <1>0, <2>2, <2>3 DEF CronInv, CrontabOK
<1>3. CASE Sched!DomainCrash
  <2>1. Head(cronDomQ) \in Sched!Requests /\ RequestOK(Head(cronDomQ))
    BY <1>3, QueueType DEF Sched!DomainCrash, CronInv, CronQueueOK, Sched!TypeOK
  <2>2. cron'[j] # <<>> => cron[j] # <<>> \/ Known(j)
    BY <1>3, <2>1, EditedEntries DEF Sched!DomainCrash, CronInv
  <2> QED BY <1>0, <1>3, <2>2 DEF Sched!DomainCrash, Sched!monVars, CronInv, CrontabOK
<1>4. CASE UNCHANGED cron /\ listing' = [k \in CronJobs |-> "absent"]
  BY <1>0, <1>4 DEF CronInv, CrontabOK
<1> QED
  BY <1>1, <1>2, <1>3, <1>4
  DEF Sched!Next, Sched!ApiRequest, Sched!ApiCreate, Sched!ApiEdit, Sched!ApiDelete, Sched!HandlerStep,
      Sched!MonitorStep, Sched!vars, Sched!svcVars, Sched!monVars, Sched!CreateJob, Sched!EditJob,
      Sched!DeleteJob, Sched!Age, Sched!CallOfHandler, Sched!FinishHandler, Sched!DomainFault,
      Sched!ServiceTimeout, Sched!MonitorTimeout, Sched!MonitorList, Sched!MonitorRead,
      Sched!MonitorDelete, Sched!MonitorDeleted, Sched!MonitorWrite, Sched!ServiceCrash

LEMMA OrphansInv == CronInv /\ [Sched!Next]_(Sched!vars) => OrphansOK'
<1> SUFFICES ASSUME CronInv, [Sched!Next]_(Sched!vars) PROVE OrphansOK'
  OBVIOUS
<1>0. RowsGrow
  BY RowsOnlyGrow
<1> USE DEF OrphansOK
<1>1. CASE cronMon'.orphans \subseteq cronMon.orphans
  BY <1>0, <1>1 DEF RowsGrow, CronInv, Sched!TypeOK, Sched!Monitors, Gone
<1>2. CASE Sched!MonitorRead
  <2>1. ASSUME NEW j \in cronMon'.orphans PROVE j \in CronJobs /\ ~Sched!Exists(j) /\ Known(j)
    BY <1>2, <2>1 DEF Sched!MonitorRead, Sched!IdleMonitor, CronInv, CrontabOK
  <2>2. ASSUME NEW j \in CronJobs, ~Sched!Exists(j), Known(j) PROVE Gone(j)
    BY <2>2 DEF Sched!Exists, Known, Gone, CronInv, Sched!TypeOK, Sched!Rows
  <2> QED BY <1>0, <2>1, <2>2 DEF RowsGrow, Gone
<1>3. CASE Sched!MonitorDelete
  <2>1. PICK j \in cronMon.orphans : cronMon' = [cronMon EXCEPT !.pc = "wait", !.orphans = @ \ {j}]
    BY <1>3 DEF Sched!MonitorDelete
  <2> QED BY <1>1, <2>1 DEF CronInv, Sched!TypeOK, Sched!Monitors
<1>4. CASE Sched!MonitorList \/ Sched!MonitorDeleted
  BY <1>1, <1>4 DEF Sched!MonitorList, Sched!MonitorDeleted, CronInv, Sched!TypeOK, Sched!Monitors
<1>5. CASE Sched!MonitorWrite \/ Sched!ServiceCrash
  BY <1>5 DEF Sched!MonitorWrite, Sched!ServiceCrash, Sched!IdleMonitor
<1>6. CASE UNCHANGED cronMon
  BY <1>1, <1>6
<1> QED
  BY <1>2, <1>3, <1>4, <1>5, <1>6
  DEF Sched!Next, Sched!ApiRequest, Sched!ApiCreate, Sched!ApiEdit, Sched!ApiDelete, Sched!HandlerStep,
      Sched!MonitorStep, Sched!vars, Sched!monVars, Sched!CreateJob, Sched!EditJob, Sched!DeleteJob,
      Sched!Age, Sched!CallOfHandler, Sched!FinishHandler, Sched!DomainExecute, Sched!DomainFault,
      Sched!DomainCrash, Sched!ServiceTimeout, Sched!MonitorTimeout

\* CronInv holds in every reachable state, for any jobs and any bounds.
THEOREM CronInvariance ==
  ASSUME CronConstants
  PROVE  Sched!Spec => []CronInv
<1>0. Sched!Init => CronInv
  BY CronInit
<1>1. CronInv /\ [Sched!Next]_(Sched!vars) => CronInv'
  BY CronTypeStep, QueueInv, HandlerInv, CrontabInv, OrphansInv DEF CronInv
<1> QED BY <1>0, <1>1, PTL DEF Sched!Spec

\* Rows, crontab, requests and the thread keep their types, whatever the domain
\* answers and whenever a process dies.
THEOREM SchedulerTyped ==
  ASSUME CronConstants
  PROVE  Sched!Spec => []Sched!TypeOK
<1>1. CronInv => Sched!TypeOK
  BY DEF CronInv
<1> QED BY CronInvariance, <1>1, PTL

\* No entry leaves the crontab while its job has a row.
THEOREM EntriesKept ==
  ASSUME CronConstants
  PROVE  Sched!Spec => Sched!EntriesOutliveRows
<1>1. ASSUME CronInv, [Sched!Next]_(Sched!vars)
      PROVE  [\A j \in CronJobs : Len(cron'[j]) < Len(cron[j]) => cronRows[j].status = "deleted"]_(Sched!vars)
  <2> SUFFICES ASSUME NEW j \in CronJobs, Len(cron'[j]) < Len(cron[j]) PROVE Gone(j)
    BY DEF Gone
  <2>0. Sched!TypeOK
    BY <1>1 DEF CronInv
  <2>1. cron' # cron
    BY <2>0 DEF Sched!TypeOK
  <2>2. PICK r \in Sched!Requests : RequestOK(r) /\ cron' = Sched!Edited(r)
    <3>1. Sched!DomainExecute \/ Sched!DomainCrash
      BY <1>1, <2>1
      DEF Sched!Next, Sched!ApiRequest, Sched!ApiCreate, Sched!ApiEdit, Sched!ApiDelete,
          Sched!HandlerStep, Sched!MonitorStep, Sched!vars, Sched!CreateJob, Sched!EditJob,
          Sched!DeleteJob, Sched!Age, Sched!CallOfHandler, Sched!FinishHandler, Sched!DomainFault,
          Sched!ServiceTimeout, Sched!MonitorTimeout, Sched!MonitorList, Sched!MonitorRead,
          Sched!MonitorDelete, Sched!MonitorDeleted, Sched!MonitorWrite, Sched!ServiceCrash
    <3>2. cronDomQ # <<>> /\ cron' = Sched!Edited(Head(cronDomQ))
      BY <3>1 DEF Sched!DomainExecute, Sched!DomainCrash
    <3>3. Head(cronDomQ) \in Sched!Requests /\ RequestOK(Head(cronDomQ))
      BY <1>1, <2>0, <3>2, QueueType DEF CronInv, CronQueueOK, Sched!TypeOK
    <3> QED BY <3>2, <3>3
  <2> QED BY <2>0, <2>2, EditedEntries
<1> QED BY CronInvariance, <1>1, PTL DEF Sched!Spec, Sched!EntriesOutliveRows

-----------------------------------------------------------------------------
(* Volumes *)

Statuses == VolumeStatus \cup {"none", "deleted"}
CreateOps == {"create", "create_from_template"}

-----------------------------------------------------------------------------
(* The inductive invariant *)

RowsWith(L) ==
  [status : Statuses, name : Names \cup {NoName}, storage : Storages \cup {NoStorage},
   size : 0..MaxSize, vms : L, placed : BOOLEAN]
RowsTyped == \E L : rows \in [Volumes -> RowsWith(L)]

Typed ==
  /\ RowsTyped
  /\ files \in [Volumes -> 0..MaxSize]
  /\ casts \in Seq(Jobs) /\ job \in Jobs
  /\ svcReply \in {"none", "ok", "err"}
  /\ domQ \in Seq(Requests)
  /\ mon \in Monitors /\ monReply \in -1..MaxSize

\* What a message to the service layer is about: a volume that was inserted, and
\* unless it is a redelivered deletion one that is still there.  A volume with a
\* deletion ahead has no attachment.
JobOK(j) ==
  /\ j.op = "none" => j = NoJob
  /\ j.op # "none" => j.vol \in Volumes /\ rows[j.vol].status # "none"
  /\ j.op \notin {"none", "_delete_volume"} => Exists(j.vol)
  /\ j.op \in {"create_from_template", "_create_from_template"} => rows[j.vol].placed
  /\ j.op = "_delete_volume" => rows[j.vol].vms = <<>>

\* One message at a time: a handler publishes at most one cast, and no API request
\* is served until it is done.
CastsOK ==
  /\ Len(casts) <= 1
  /\ \A i \in DOMAIN casts :
       casts[i].op \in CastOps /\ casts[i].pc = "start" /\ JobOK(casts[i])
  /\ job.op \notin {"none", "delete_volume"} => casts = <<>>

HandlerOK ==
  /\ JobOK(job)
  /\ job.pc = "cast" => job.op \in {"create_volume", "create_from_template", "extend_volume"}
  /\ job.pc = "ack" => job.op \in CastOps
  /\ job.op = "clone_volume" => job.new \in Volumes /\ rows[job.new].status = "none"
  /\ job.op = "_delete_volume" /\ job.pc = "domain" => Exists(job.vol)
  /\ job.pc # "domain" => svcReply = "none"

\* What waits in the domain queue: a file is made for a row, or for a clone that
\* has none yet, and for each clone once.
QueueOK ==
  /\ \A i \in DOMAIN domQ :
       /\ domQ[i].op \in CreateOps => Exists(domQ[i].vol) /\ rows[domQ[i].vol].placed
       /\ domQ[i].op = "clone" => domQ[i].new \in Volumes /\ rows[domQ[i].new].status = "none"
  /\ \A i, j \in DOMAIN domQ :
       domQ[i].op = "clone" /\ domQ[j].op = "clone" /\ domQ[i].new = domQ[j].new => i = j

\* The request the handler waits for; a deletion stands behind every creation.
Awaited(i) ==
  /\ job.pc = "domain" /\ svcReply = "none"
  /\ \A j \in DOMAIN domQ : domQ[j].owner = "svc" => j = i
  /\ job.op = "clone_volume" => domQ[i].op = "clone" /\ domQ[i].new = job.new
  /\ job.op = "_delete_volume" =>
       /\ domQ[i].op = "delete" /\ domQ[i].vol = job.vol
       /\ \A j \in DOMAIN domQ : domQ[j].op \in CreateOps /\ domQ[j].vol = job.vol => j < i
OwnedOK == \A i \in DOMAIN domQ : domQ[i].owner = "svc" => Awaited(i)

\* What the handler may conclude from the answer.
AnswerOK ==
  job.pc = "domain" /\ svcReply = "ok" =>
    /\ job.op = "clone_volume" =>
         \A i \in DOMAIN domQ : domQ[i].op = "clone" => domQ[i].new # job.new
    /\ job.op = "_delete_volume" =>
         /\ files[job.vol] = 0
         /\ \A i \in DOMAIN domQ : domQ[i].op \in CreateOps => domQ[i].vol # job.vol

FilesOK ==
  \A v \in Volumes :
    /\ rows[v].status = "deleted" => files[v] = 0
    /\ rows[v].status # "none" /\ ~rows[v].placed => files[v] = 0

Sound == CastsOK /\ HandlerOK /\ QueueOK /\ OwnedOK /\ AnswerOK /\ FilesOK
IInv == Typed /\ Sound

-----------------------------------------------------------------------------
(* Rows *)

\* What a step leaves of every row but its status.
Touched(v, s) ==
  \A w \in Volumes : /\ rows'[w].status = IF w = v THEN s ELSE rows[w].status
                     /\ rows'[w].placed = rows[w].placed /\ rows'[w].vms = rows[w].vms
                     /\ rows'[w].size = rows[w].size

LEMMA StatusSet ==
  ASSUME Typed, NEW v \in Volumes, NEW s \in Statuses, SetStatus(v, s)
  PROVE  RowsTyped' /\ Touched(v, s)
<1>1. PICK L : rows \in [Volumes -> RowsWith(L)]
  BY DEF Typed, RowsTyped
<1>2. rows' = [rows EXCEPT ![v].status = s]
  BY DEF SetStatus
<1>3. rows' \in [Volumes -> RowsWith(L)]
  BY <1>1, <1>2 DEF RowsWith
<1>4. Touched(v, s)
  BY <1>1, <1>2 DEF RowsWith, Touched
<1> QED BY <1>3, <1>4 DEF RowsTyped

LEMMA RowFacts ==
  ASSUME Typed, NEW v \in Volumes
  PROVE  rows[v].status \in Statuses /\ rows[v].size \in 0..MaxSize /\ rows[v].placed \in BOOLEAN
BY DEF Typed, RowsTyped, RowsWith

LEMMA Widened ==
  ASSUME NEW L, NEW f \in [Volumes -> RowsWith(L)], NEW l
  PROVE  f \in [Volumes -> RowsWith(L \cup {l})]
BY DEF RowsWith

\* The other ways a handler changes rows.
LEMMA InsertRows ==
  ASSUME Typed, NEW op, NEW v \in Volumes, NEW n \in Names, NEW s \in Storages,
         NEW z \in 0..MaxSize, rows' = [rows EXCEPT ![v] = NewRow(op, n, s, z)]
  PROVE  /\ RowsTyped'
         /\ \A w \in Volumes : w # v => rows'[w] = rows[w]
         /\ rows'[v] = NewRow(op, n, s, z)
<1>1. PICK L : rows \in [Volumes -> RowsWith(L)]
  BY DEF Typed, RowsTyped
<1>2. rows \in [Volumes -> RowsWith(L \cup {<<>>})]
  BY <1>1, Widened
<1>3. NewRow(op, n, s, z) \in RowsWith(L \cup {<<>>})
  BY DEF NewRow, RowsWith, Statuses, VolumeStatus
<1>4. rows' \in [Volumes -> RowsWith(L \cup {<<>>})]
  BY <1>2, <1>3
<1> QED BY <1>2, <1>4 DEF RowsTyped

LEMMA PlacedRows ==
  ASSUME Typed, NEW v \in Volumes, NEW s \in Statuses,
         rows' = [rows EXCEPT ![v].status = s, ![v].placed = TRUE]
  PROVE  /\ RowsTyped'
         /\ \A w \in Volumes : w # v => rows'[w] = rows[w]
         /\ rows'[v].status = s /\ rows'[v].placed = TRUE /\ rows'[v].vms = rows[v].vms
         /\ rows'[v].size = rows[v].size
<1>1. PICK L : rows \in [Volumes -> RowsWith(L)]
  BY DEF Typed, RowsTyped
<1>2. rows' \in [Volumes -> RowsWith(L)]
  BY <1>1 DEF RowsWith
<1> QED BY <1>1, <1>2 DEF RowsTyped, RowsWith

LEMMA ExtendRows ==
  ASSUME Typed, NEW v \in Volumes, NEW z \in 0..MaxSize,
         rows' = [rows EXCEPT ![v].status = "available", ![v].size = z]
  PROVE  /\ RowsTyped'
         /\ \A w \in Volumes : w # v => rows'[w] = rows[w]
         /\ rows'[v].status = "available" /\ rows'[v].placed = rows[v].placed
         /\ rows'[v].vms = rows[v].vms
<1>1. PICK L : rows \in [Volumes -> RowsWith(L)]
  BY DEF Typed, RowsTyped
<1>2. PICK r \in RowsWith(L) : r = rows[v]
  BY <1>1
<1> DEFINE q == [r EXCEPT !.status = "available", !.size = z]
<1>3. q \in RowsWith(L) /\ q.status = "available" /\ q.placed = r.placed /\ q.vms = r.vms
  BY DEF RowsWith, Statuses, VolumeStatus
<1>4. rows' = [rows EXCEPT ![v] = q]
  BY <1>1, <1>2
<1> HIDE DEF q
<1>5. /\ rows' \in [Volumes -> RowsWith(L)] /\ rows'[v] = q
      /\ \A w \in Volumes : w # v => rows'[w] = rows[w]
  BY <1>1, <1>3, <1>4
<1> QED BY <1>2, <1>3, <1>5 DEF RowsTyped

LEMMA RenameRows ==
  ASSUME Typed, NEW v \in Volumes, NEW n \in Names, rows' = [rows EXCEPT ![v].name = n]
  PROVE  /\ RowsTyped'
         /\ \A w \in Volumes : /\ rows'[w].status = rows[w].status /\ rows'[w].vms = rows[w].vms
                               /\ rows'[w].placed = rows[w].placed
<1>1. PICK L : rows \in [Volumes -> RowsWith(L)]
  BY DEF Typed, RowsTyped
<1>2. rows' \in [Volumes -> RowsWith(L)]
  BY <1>1 DEF RowsWith
<1> QED BY <1>1, <1>2 DEF RowsTyped, RowsWith

LEMMA ListRows ==
  ASSUME Typed, NEW v \in Volumes, NEW l, NEW s \in Statuses,
         \/ rows' = [rows EXCEPT ![v].vms = l] /\ s = rows[v].status
         \/ rows' = [[rows EXCEPT ![v].vms = l] EXCEPT ![v].status = s]
  PROVE  /\ RowsTyped'
         /\ \A w \in Volumes : w # v => rows'[w] = rows[w]
         /\ rows'[v].status = s /\ rows'[v].placed = rows[v].placed
<1>1. PICK L : rows \in [Volumes -> RowsWith(L)]
  BY DEF Typed, RowsTyped
<1>2. rows \in [Volumes -> RowsWith(L \cup {l})]
  BY <1>1, Widened
<1>3. /\ rows' \in [Volumes -> RowsWith(L \cup {l})]
      /\ \A w \in Volumes : w # v => rows'[w] = rows[w]
      /\ rows'[v].status = s /\ rows'[v].placed = rows[v].placed
  <2> DEFINE with == [rows EXCEPT ![v].vms = l]
  <2>1. /\ with \in [Volumes -> RowsWith(L \cup {l})]
        /\ \A w \in Volumes : w # v => with[w] = rows[w]
        /\ with[v].status = rows[v].status /\ with[v].placed = rows[v].placed
    BY <1>2 DEF RowsWith
  <2>2. \/ rows' = with /\ s = rows[v].status
        \/ rows' = [with EXCEPT ![v].status = s]
    OBVIOUS
  <2> HIDE DEF with
  <2> QED BY <2>1, <2>2 DEF RowsWith
<1> QED BY <1>3 DEF RowsTyped

LEMMA MonitorRows ==
  ASSUME Typed, MonitorWrite
  PROVE  /\ RowsTyped'
         /\ \A v \in Volumes :
              \/ rows'[v] = rows[v]
              \/ /\ Exists(v) /\ rows'[v].status = "available"
                 /\ rows'[v].placed = rows[v].placed /\ rows'[v].vms = rows[v].vms
<1>1. PICK L : rows \in [Volumes -> RowsWith(L)]
  BY DEF Typed, RowsTyped
<1> DEFINE row(v) == [rows[v] EXCEPT !.status = "available", !.size = mon.done[v]]
<1>2. \A v \in Volumes : /\ row(v) \in RowsWith(L)
                         /\ row(v).status = "available" /\ row(v).placed = rows[v].placed
                         /\ row(v).vms = rows[v].vms
  <2> TAKE v \in Volumes
  <2>1. PICK r \in RowsWith(L) : r = rows[v]
    BY <1>1
  <2>2. PICK z \in 0..MaxSize : z = mon.done[v]
    BY DEF Typed, Monitors
  <2>3. /\ [r EXCEPT !.status = "available", !.size = z] \in RowsWith(L)
        /\ [r EXCEPT !.status = "available", !.size = z].status = "available"
        /\ [r EXCEPT !.status = "available", !.size = z].placed = r.placed
        /\ [r EXCEPT !.status = "available", !.size = z].vms = r.vms
    BY DEF RowsWith, Statuses, VolumeStatus
  <2>4. row(v) = [r EXCEPT !.status = "available", !.size = z]
    BY <2>1, <2>2
  <2> HIDE DEF row
  <2> QED BY <2>1, <2>3, <2>4
<1>3. \/ UNCHANGED rows
      \/ rows' = [v \in Volumes |-> IF v \in {w \in Volumes : mon.done[w] # 0} /\ Exists(v)
                                    THEN row(v) ELSE rows[v]]
  BY DEF MonitorWrite
<1> HIDE DEF row
<1>4. rows' \in [Volumes -> RowsWith(L)]
  BY <1>1, <1>2, <1>3
<1> QED BY <1>1, <1>2, <1>3, <1>4 DEF RowsTyped

\* CloneFinish: the source is available again, and the clone has a row if it was made.
LEMMA CloneRows ==
  ASSUME Typed, HandlerOK, CloneFinish
  PROVE  /\ RowsTyped' /\ job.vol \in Volumes /\ job.new \in Volumes /\ job.new # job.vol
         /\ \A w \in Volumes : w \notin {job.vol, job.new} => rows'[w] = rows[w]
         /\ rows'[job.vol].status = "available" /\ rows'[job.vol].placed = rows[job.vol].placed
         /\ rows'[job.vol].vms = rows[job.vol].vms
         /\ IF svcReply = "ok"
            THEN rows'[job.new].status = "available" /\ rows'[job.new].placed = TRUE
            ELSE rows'[job.new] = rows[job.new]
<1>1. PICK L : rows \in [Volumes -> RowsWith(L)]
  BY DEF Typed, RowsTyped
<1>2. job.vol \in Volumes /\ job.new \in Volumes /\ job.new # job.vol
  BY DEF CloneFinish, HandlerOK, JobOK, Exists
<1> DEFINE back == [rows EXCEPT ![job.vol].status = "available"]
           clone == [status |-> "available", name |-> job.name, storage |-> job.storage,
                     size |-> job.size, vms |-> <<>>, placed |-> TRUE]
<1>3. rows \in [Volumes -> RowsWith(L \cup {<<>>})]
  BY <1>1, Widened
<1>4. /\ back \in [Volumes -> RowsWith(L \cup {<<>>})]
      /\ back[job.vol].status = "available" /\ back[job.vol].placed = rows[job.vol].placed
      /\ back[job.vol].vms = rows[job.vol].vms
      /\ \A w \in Volumes : w # job.vol => back[w] = rows[w]
  BY <1>2, <1>3 DEF RowsWith, Statuses, VolumeStatus
<1>5. clone \in RowsWith(L \cup {<<>>}) /\ clone.status = "available" /\ clone.placed = TRUE
  BY DEF RowsWith, Statuses, VolumeStatus, Typed, Jobs
<1>6. rows' = IF svcReply = "ok" THEN [back EXCEPT ![job.new] = clone] ELSE back
  BY DEF CloneFinish
<1> HIDE DEF back, clone
<1>7. rows' \in [Volumes -> RowsWith(L \cup {<<>>})]
  BY <1>2, <1>4, <1>5, <1>6
<1> QED BY <1>2, <1>4, <1>5, <1>6, <1>7 DEF RowsTyped

\* AttachFinish: the list of one volume is longer, and it may be in error.
LEMMA AttachRows ==
  ASSUME Typed, HandlerOK, AttachFinish
  PROVE  /\ RowsTyped' /\ job.vol \in Volumes
         /\ \A w \in Volumes : w # job.vol => rows'[w] = rows[w]
         /\ rows'[job.vol].placed = rows[job.vol].placed
         /\ rows'[job.vol].status \in {rows[job.vol].status, "error"}
<1>1. job.vol \in Volumes /\ rows[job.vol].status \in Statuses /\ "error" \in Statuses
  BY RowFacts DEF AttachFinish, HandlerOK, JobOK, Statuses, VolumeStatus
<1> DEFINE list == Append(rows[job.vol].vms, job.vm)
<1>2. PICK v \in Volumes, l \in {list} : v = job.vol /\ l = list
  BY <1>1
<1>3. \/ rows' = [rows EXCEPT ![v].vms = l]
      \/ rows' = [[rows EXCEPT ![v].vms = l] EXCEPT ![v].status = "error"]
  BY <1>2 DEF AttachFinish
<1> HIDE DEF list
<1>4. PICK s \in {rows[v].status, "error"} :
        \/ rows' = [rows EXCEPT ![v].vms = l] /\ s = rows[v].status
        \/ rows' = [[rows EXCEPT ![v].vms = l] EXCEPT ![v].status = s]
  BY <1>3
<1>5. s \in Statuses
  BY <1>1, <1>2
<1> QED BY <1>1, <1>2, <1>4, <1>5, ListRows

-----------------------------------------------------------------------------
(* Types *)

LEMMA Pieces ==
  /\ NoJob \in Jobs /\ IdleMonitor \in Monitors
  /\ [IdleMonitor EXCEPT !.pc = "dead"] \in Monitors
<1>1. 0 \in 0..MaxSize
  BY VolumeAssumption
<1>2. NoJob \in Jobs
  BY <1>1 DEF NoJob, Jobs
<1>3. IdleMonitor \in Monitors /\ [IdleMonitor EXCEPT !.pc = "dead"] \in Monitors
  BY <1>1 DEF IdleMonitor, Nothing, Monitors
<1> QED BY <1>2, <1>3

LEMMA JobType ==
  ASSUME NEW op \in CastOps \cup ApiOps, NEW v \in Volumes,
         NEW at \in {"cast", "commit", "start", "domain"}
  PROVE  /\ Job(op, v, at) \in Jobs
         /\ Job(op, v, at).op = op /\ Job(op, v, at).vol = v /\ Job(op, v, at).pc = at
BY Pieces DEF Job, Jobs

LEMMA InitTyped == Init => Typed
<1> SUFFICES ASSUME Init PROVE Typed
  OBVIOUS
<1>1. NoRow \in RowsWith({<<>>})
  BY VolumeAssumption DEF NoRow, RowsWith, Statuses
<1>2. RowsTyped
  BY <1>1 DEF Init, RowsTyped
<1> QED BY <1>2, Pieces, VolumeAssumption DEF Init, Typed, Nothing

\* A call of the domain: the queue is one request longer.
LEMMA Called ==
  ASSUME Typed, NEW op \in DomainOps, NEW v \in Volumes, NEW z \in 0..MaxSize,
         NEW c \in Volumes \cup {NoVolume}, CallDomain(op, v, z, c)
  PROVE  /\ domQ' \in Seq(Requests)
         /\ Len(domQ) \in Nat /\ DOMAIN domQ = 1..Len(domQ) /\ DOMAIN domQ' = 1..(Len(domQ) + 1)
         /\ \A i \in DOMAIN domQ : domQ'[i] = domQ[i]
         /\ domQ'[Len(domQ) + 1] = [op |-> op, vol |-> v, size |-> z, new |-> c, owner |-> "svc"]
<1> DEFINE r == [op |-> op, vol |-> v, size |-> z, new |-> c, owner |-> "svc"]
<1>1. r \in Requests /\ domQ' = Append(domQ, r)
  BY DEF CallDomain, Requests
<1> HIDE DEF r
<1>2. /\ domQ' \in Seq(Requests)
      /\ Len(domQ) \in Nat /\ DOMAIN domQ = 1..Len(domQ) /\ DOMAIN domQ' = 1..(Len(domQ) + 1)
      /\ \A i \in DOMAIN domQ : domQ'[i] = domQ[i]
      /\ domQ'[Len(domQ) + 1] = r
  BY <1>1 DEF Typed
<1> QED BY <1>2 DEF r

LEMMA DisownedType ==
  ASSUME Typed, NEW owners \in SUBSET {"svc", "mon"}, domQ' = Disowned(owners)
  PROVE  /\ domQ' \in Seq(Requests) /\ DOMAIN domQ' = DOMAIN domQ
         /\ \A i \in DOMAIN domQ :
              /\ domQ'[i].op = domQ[i].op /\ domQ'[i].vol = domQ[i].vol
              /\ domQ'[i].new = domQ[i].new
              /\ domQ'[i].owner = IF domQ[i].owner \in owners THEN "none" ELSE domQ[i].owner
<1>1. DOMAIN domQ' = DOMAIN domQ /\ DOMAIN domQ = 1..Len(domQ) /\ Len(domQ) \in Nat
  BY DEF Disowned, Typed
<1>2. ASSUME NEW i \in DOMAIN domQ
      PROVE  /\ domQ'[i] \in Requests
             /\ domQ'[i].op = domQ[i].op /\ domQ'[i].vol = domQ[i].vol
             /\ domQ'[i].new = domQ[i].new
             /\ domQ'[i].owner = IF domQ[i].owner \in owners THEN "none" ELSE domQ[i].owner
  <2>1. domQ[i] \in Requests
    BY DEF Typed
  <2> QED BY <2>1 DEF Disowned, Requests
<1>3. domQ' \in [1..Len(domQ) -> Requests]
  BY <1>1, <1>2 DEF Disowned
<1>4. domQ' \in Seq(Requests)
  BY ONLY <1>1, <1>3, SMTT(30)
<1> QED BY <1>1, <1>2, <1>4

\* The end of a handler.
LEMMA JobEnds ==
  ASSUME Typed, Done
  PROVE  /\ job' \in Jobs
         /\ \/ /\ job.op \in CastOps /\ job'.op = job.op /\ job'.vol = job.vol /\ job'.pc = "ack"
            \/ job.op \notin CastOps /\ job' = NoJob
<1>1. CASE job.op \in CastOps
  <2>1. job' = [job EXCEPT !.pc = "ack"]
    BY <1>1 DEF Done
  <2> QED BY <1>1, <2>1 DEF Typed, Jobs
<1>2. CASE job.op \notin CastOps
  BY <1>2, Pieces DEF Done
<1> QED BY <1>1, <1>2

LEMMA EffectType ==
  ASSUME Typed, domQ # <<>>
  PROVE  Effect(Head(domQ)) \in [Volumes -> 0..MaxSize]
<1> DEFINE r == Head(domQ)
<1>1. r.vol \in Volumes /\ r.size \in 0..MaxSize /\ 0 \in 0..MaxSize
      /\ files[r.vol] \in 0..MaxSize
  <2>1. r \in Requests
    BY DEF Typed
  <2> HIDE DEF r
  <2> QED BY <2>1, VolumeAssumption DEF Requests, Typed
<1> HIDE DEF r
<1>2. \A x, z : z \in 0..MaxSize => [files EXCEPT ![x] = z] \in [Volumes -> 0..MaxSize]
  BY DEF Typed
<1>3. Effect(r) \in [Volumes -> 0..MaxSize]
  BY <1>1, <1>2 DEF Effect, Typed
<1> QED BY <1>3 DEF r

LEMMA AnswersCome ==
  ASSUME Typed, DomainExecute
  PROVE  /\ files' \in [Volumes -> 0..MaxSize] /\ svcReply' \in {"none", "ok", "err"}
         /\ monReply' \in -1..MaxSize /\ domQ' \in Seq(Requests)
<1>1. domQ # <<>> /\ domQ' = Tail(domQ) /\ Head(domQ) \in Requests /\ domQ' \in Seq(Requests)
  BY DEF DomainExecute, Typed
<1>2. Effect(Head(domQ)) \in [Volumes -> 0..MaxSize]
  BY <1>1, EffectType
<1>3. files' \in [Volumes -> 0..MaxSize]
  BY <1>2 DEF DomainExecute, Typed
<1>4. svcReply' \in {"none", "ok", "err"}
  BY DEF DomainExecute, Typed
<1>5. monReply' \in -1..MaxSize
  <2>1. files[Head(domQ).vol] \in -1..MaxSize /\ Head(domQ).size \in -1..MaxSize
        /\ -1 \in -1..MaxSize /\ monReply \in -1..MaxSize
    BY <1>1, VolumeAssumption DEF Requests, Typed
  <2> QED BY <2>1 DEF DomainExecute
<1> QED BY <1>1, <1>3, <1>4, <1>5

LEMMA TypedStep == Typed /\ HandlerOK /\ CastsOK /\ [Next]_vars => Typed'
<1> SUFFICES ASSUME Typed, HandlerOK, CastsOK, [Next]_vars PROVE Typed'
  OBVIOUS
<1> USE DEF svcVars, monVars
<1>0. job.op # "none" => job.vol \in Volumes
  BY DEF HandlerOK, JobOK
<1>1. ASSUME NEW op \in {"create_volume", "create_from_template"}, NEW v \in Volumes,
             NEW n \in Names, NEW s \in Storages, NEW z \in NewSizes, InsertVolume(op, v, n, s, z)
      PROVE  Typed'
  <2>1. z \in 0..MaxSize
    BY VolumeAssumption
  <2>2. RowsTyped'
    BY <1>1, <2>1, InsertRows DEF InsertVolume
  <2>3. job' \in Jobs
    BY <1>1, JobType DEF InsertVolume, ApiOps
  <2> QED BY <1>1, <2>2, <2>3 DEF InsertVolume, Typed
<1>2. ASSUME NEW v \in Volumes, NEW z \in Sizes, ExtendVolume(v, z)
      PROVE  Typed'
  <2>1. RowsTyped'
    BY <1>2, StatusSet DEF ExtendVolume, Statuses, VolumeStatus
  <2>2. job' \in Jobs
    <3>1. Job("extend_volume", v, "cast") \in Jobs /\ z \in 0..MaxSize
      BY JobType, VolumeAssumption DEF ApiOps, Sizes
    <3>2. [Job("extend_volume", v, "cast") EXCEPT !.size = z] \in Jobs
      BY <3>1 DEF Jobs
    <3> QED BY <1>2, <3>2 DEF ExtendVolume, Typed
  <2> QED BY <1>2, <2>1, <2>2 DEF ExtendVolume, Typed
<1>3. ASSUME NEW v \in Volumes, DeleteVolume(v)
      PROVE  Typed'
  <2>1. RowsTyped'
    <3>1. CASE SetStatus(v, "error")
      BY <3>1, StatusSet DEF Statuses, VolumeStatus
    <3>2. CASE UNCHANGED rows
      BY <3>2 DEF Typed, RowsTyped
    <3> QED BY <1>3, <3>1, <3>2 DEF DeleteVolume
  <2>2. job' \in Jobs /\ casts' \in Seq(Jobs)
    <3>1. Job("_delete_volume", v, "start") \in Jobs /\ Job("delete_volume", v, "commit") \in Jobs
      BY JobType DEF ApiOps, CastOps
    <3>2. Append(casts, Job("_delete_volume", v, "start")) \in Seq(Jobs)
      BY <3>1 DEF Typed
    <3> QED BY <1>3, <3>1, <3>2 DEF DeleteVolume, Typed
  <2> QED BY <1>3, <2>1, <2>2 DEF DeleteVolume, Typed
<1>4. ASSUME NEW src \in Volumes, NEW v \in Volumes, NEW n \in Names, NEW s \in Storages,
             CloneVolume(src, v, n, s)
      PROVE  Typed'
  <2>1. RowsTyped'
    BY <1>4, StatusSet DEF CloneVolume, Statuses, VolumeStatus
  <2>2. rows[src].size \in 0..MaxSize
    BY RowFacts
  <2>3. job' \in Jobs
    <3>1. Job("clone_volume", src, "domain") \in Jobs
      BY JobType DEF ApiOps
    <3>2. [Job("clone_volume", src, "domain") EXCEPT
             !.new = v, !.size = rows[src].size, !.name = n, !.storage = s] \in Jobs
      BY <2>2, <3>1 DEF Jobs
    <3> QED BY <1>4, <3>2 DEF CloneVolume, Typed
  <2>4. domQ' \in Seq(Requests)
    BY <1>4, <2>2, Called DEF CloneVolume, DomainOps, Typed
  <2> QED BY <1>4, <2>1, <2>3, <2>4 DEF CloneVolume, Typed
<1>5. ASSUME NEW v \in Volumes, NEW n \in Names, EditVolume(v, n)
      PROVE  Typed'
  BY <1>5, RenameRows DEF EditVolume, Typed
<1>6. ASSUME NEW v \in Volumes, NEW vm \in VMs, AttachVolume(v, vm)
      PROVE  Typed'
  <2>1. RowsTyped'
    BY <1>6, StatusSet DEF AttachVolume, Statuses, VolumeStatus, Typed, RowsTyped
  <2>2. job' \in Jobs
    <3>1. Job("attach_volume", v, "domain") \in Jobs
      BY JobType DEF ApiOps
    <3>2. [Job("attach_volume", v, "domain") EXCEPT !.vm = vm] \in Jobs
      BY <3>1 DEF Jobs
    <3> QED BY <1>6, <3>2 DEF AttachVolume, Typed
  <2>3. domQ' \in Seq(Requests)
    BY <1>6, RowFacts, Called DEF AttachVolume, DomainOps, Typed
  <2> QED BY <1>6, <2>1, <2>2, <2>3 DEF AttachVolume, Typed
<1>7. ASSUME NEW v \in Volumes, NEW vm \in VMs, DetachVolume(v, vm)
      PROVE  Typed'
  <2>1. RowsTyped'
    <3>1. CASE rows' = [rows EXCEPT ![v].vms = DetachLoop(rows[v].vms, vm)]
      BY <3>1, RowFacts, ListRows
    <3>2. CASE SetStatus(v, "error")
      BY <3>2, StatusSet DEF Statuses, VolumeStatus
    <3> QED BY <1>7, <3>1, <3>2 DEF DetachVolume
  <2> QED BY <1>7, <2>1 DEF DetachVolume, Typed
<1>8. CASE TakeCast
  BY <1>8 DEF TakeCast, Typed, RowsTyped
<1>9. CASE AckCast
  BY <1>9, Pieces DEF AckCast, Typed, RowsTyped
<1>10. CASE PublishCast
  <2>1. job.op \in {"create_volume", "create_from_template", "extend_volume"}
    BY <1>10 DEF PublishCast, HandlerOK
  <2>2. CastOf[job.op] \in CastOps
    BY <2>1 DEF CastOf, CastOps
  <2>3. [job EXCEPT !.op = CastOf[job.op], !.pc = "start"] \in Jobs
    BY <2>2 DEF Typed, Jobs
  <2> QED BY <1>10, <2>3, Pieces DEF PublishCast, Typed, RowsTyped
<1>11. CASE CreateCheck
  <2>1. job.vol \in Volumes /\ rows[job.vol].size \in 0..MaxSize
    BY <1>0, <1>11, RowFacts DEF CreateCheck
  <2>2. RowsTyped'
    BY <1>11, <2>1, StatusSet, PlacedRows
    DEF CreateCheck, Statuses, VolumeStatus, Typed, RowsTyped
  <2>3. job' \in Jobs
    <3>1. CASE Done
      BY <3>1, JobEnds
    <3>2. CASE job' = [job EXCEPT !.pc = "domain"]
      BY <3>2 DEF Typed, Jobs
    <3> QED BY <1>11, <3>1, <3>2 DEF CreateCheck
  <2>4. domQ' \in Seq(Requests)
    BY <1>11, <2>1, Called DEF CreateCheck, DomainOps, Typed
  <2> QED BY <1>11, <2>2, <2>3, <2>4 DEF CreateCheck, Typed
<1>12. CASE CreateFinish
  <2>1. RowsTyped'
    BY <1>0, <1>12, StatusSet DEF CreateFinish, Statuses, VolumeStatus
  <2> QED BY <1>12, <2>1, JobEnds DEF CreateFinish, TakeReply, Typed
<1>13. CASE TemplateStart
  <2>1. RowsTyped'
    BY <1>0, <1>13, StatusSet DEF TemplateStart, Statuses, VolumeStatus
  <2>2. job' \in Jobs
    <3>1. job' = [job EXCEPT !.pc = "domain"]
      BY <1>13 DEF TemplateStart
    <3> QED BY <3>1 DEF Typed, Jobs
  <2>3. domQ' \in Seq(Requests)
    BY <1>0, <1>13, RowFacts, Called DEF TemplateStart, DomainOps
  <2> QED BY <1>13, <2>1, <2>2, <2>3 DEF TemplateStart, Typed
<1>14. CASE TemplateFinish
  <2>1. RowsTyped'
    BY <1>0, <1>14, StatusSet DEF TemplateFinish, Statuses, VolumeStatus, Typed, RowsTyped
  <2> QED BY <1>14, <2>1, JobEnds DEF TemplateFinish, TakeReply, Typed
<1>15. CASE ExtendCheck
  <2>1. RowsTyped'
    BY <1>0, <1>15, StatusSet DEF ExtendCheck, Statuses, VolumeStatus, Typed, RowsTyped
  <2>2. job' \in Jobs
    <3>1. CASE Done
      BY <3>1, JobEnds
    <3>2. CASE job' = [job EXCEPT !.pc = "domain"]
      BY <3>2 DEF Typed, Jobs
    <3> QED BY <1>15, <3>1, <3>2 DEF ExtendCheck
  <2>3. job.size \in 0..MaxSize /\ job.vol \in Volumes
    BY <1>0, <1>15 DEF ExtendCheck, Typed, Jobs
  <2>4. domQ' \in Seq(Requests)
    BY <1>15, <2>3, Called DEF ExtendCheck, DomainOps, Typed
  <2> QED BY <1>15, <2>1, <2>2, <2>4 DEF ExtendCheck, Typed
<1>16. CASE ExtendFinish
  <2>1. job.size \in 0..MaxSize /\ job.vol \in Volumes
    BY <1>0, <1>16 DEF ExtendFinish, Typed, Jobs
  <2>2. RowsTyped'
    BY <1>16, <2>1, StatusSet, ExtendRows DEF ExtendFinish, Statuses, VolumeStatus
  <2> QED BY <1>16, <2>2, JobEnds DEF ExtendFinish, TakeReply, Typed
<1>17. CASE DeleteCommit
  <2>1. RowsTyped'
    BY <1>0, <1>17, StatusSet DEF DeleteCommit, Statuses, VolumeStatus
  <2> QED BY <1>17, <2>1, JobEnds DEF DeleteCommit, Typed
<1>18. CASE DeleteStart
  <2>1. RowsTyped'
    BY <1>0, <1>18, StatusSet DEF DeleteStart, Statuses, Typed, RowsTyped
  <2>2. job' \in Jobs
    BY <1>18, JobEnds DEF DeleteStart, Typed, Jobs
  <2>3. domQ' \in Seq(Requests)
    <3>1. job.vol \in Volumes /\ 0 \in 0..MaxSize
      BY <1>0, <1>18, VolumeAssumption DEF DeleteStart
    <3>2. CallDomain("delete", job.vol, 0, NoVolume) => domQ' \in Seq(Requests)
      BY <3>1, Called DEF DomainOps
    <3> QED BY <1>18, <3>2 DEF DeleteStart, Typed
  <2> QED BY <1>18, <2>1, <2>2, <2>3 DEF DeleteStart, Typed
<1>19. CASE DeleteFinish
  <2>1. RowsTyped'
    BY <1>0, <1>19, StatusSet DEF DeleteFinish, Statuses, VolumeStatus
  <2> QED BY <1>19, <2>1, JobEnds DEF DeleteFinish, TakeReply, Typed
<1>20. CASE CloneFinish
  BY <1>20, CloneRows, JobEnds DEF CloneFinish, TakeReply, Typed
<1>21. CASE AttachFinish
  BY <1>21, AttachRows, JobEnds DEF AttachFinish, TakeReply, Typed
<1>22. CASE DomainExecute
  BY <1>22, AnswersCome DEF DomainExecute, Typed, RowsTyped
<1>23. CASE DomainCrash
  BY <1>23, EffectType DEF DomainCrash, Typed, RowsTyped
<1>24. CASE ServiceTimeout
  BY <1>24, DisownedType DEF ServiceTimeout, Typed, RowsTyped
<1>25. CASE MonitorRead
  <2>1. PICK S \in OnKnownStorages :
          mon' = [IdleMonitor EXCEPT !.pc = "loop", !.seen =
                    [v \in Volumes |-> IF v \in S /\ rows[v].status # "new"
                                       THEN rows[v].size ELSE 0]]
    BY <1>25 DEF MonitorRead
  <2>2. [v \in Volumes |-> IF v \in S /\ rows[v].status # "new" THEN rows[v].size ELSE 0]
          \in [Volumes -> 0..MaxSize]
    BY RowFacts, VolumeAssumption
  <2>3. mon' \in Monitors
    BY <2>1, <2>2, Pieces DEF Monitors
  <2> QED BY <1>25, <2>3 DEF MonitorRead, Typed, RowsTyped
<1>26. CASE MonitorCall
  <2>1. PICK v \in Volumes :
          /\ mon' = [mon EXCEPT !.pc = "wait", !.cur = v]
          /\ domQ' = Append(domQ, [op |-> "attach_volume_info", vol |-> v, size |-> mon.seen[v],
                                   new |-> NoVolume, owner |-> "mon"])
    BY <1>26 DEF MonitorCall
  <2>2. mon' \in Monitors
    BY <2>1 DEF Typed, Monitors
  <2>3. [op |-> "attach_volume_info", vol |-> v, size |-> mon.seen[v],
         new |-> NoVolume, owner |-> "mon"] \in Requests
    BY DEF Typed, Monitors, Requests, DomainOps
  <2>4. domQ' \in Seq(Requests)
    BY <2>1, <2>3 DEF Typed
  <2> QED BY <1>26, <2>2, <2>4 DEF MonitorCall, Typed, RowsTyped
<1>27. CASE MonitorResult
  <2> DEFINE answer == IF monReply = -1 THEN 0 ELSE monReply
  <2>1. answer \in 0..MaxSize /\ 0 \in 0..MaxSize /\ 0 \in -1..MaxSize
    BY VolumeAssumption DEF Typed
  <2>2. mon' = [mon EXCEPT !.pc = "loop", !.cur = NoVolume, !.seen[mon.cur] = 0,
                           !.done[mon.cur] = answer]
    BY <1>27 DEF MonitorResult
  <2> HIDE DEF answer
  <2>3. mon' \in Monitors
    BY <2>1, <2>2 DEF Typed, Monitors
  <2> QED BY <1>27, <2>1, <2>3 DEF MonitorResult, Typed, RowsTyped
<1>28. CASE MonitorWrite
  BY <1>28, MonitorRows, Pieces DEF MonitorWrite, Typed
<1>29. CASE MonitorTimeout
  <2>1. -1 \in -1..MaxSize
    BY VolumeAssumption
  <2> QED BY <1>29, <2>1, DisownedType DEF MonitorTimeout, Typed, RowsTyped
<1>30. CASE ServiceCrash
  <2>1. 0 \in -1..MaxSize
    BY VolumeAssumption
  <2>2. casts' \in Seq(Jobs)
    <3>1. [job EXCEPT !.pc = "start"] \in Jobs
      BY DEF Typed, Jobs
    <3>2. <<[job EXCEPT !.pc = "start"]>> \o casts \in Seq(Jobs)
      BY <3>1 DEF Typed
    <3> QED BY <1>30, <3>2 DEF ServiceCrash, Typed
  <2> QED BY <1>30, <2>1, <2>2, DisownedType, Pieces DEF ServiceCrash, Typed, RowsTyped
<1>31. CASE UNCHANGED vars
  BY <1>31 DEF vars, Typed, RowsTyped
<1>32. CASE ApiRequest
  BY <1>1, <1>2, <1>3, <1>4, <1>5, <1>6, <1>7, <1>32
  DEF ApiRequest, ApiCreate, ApiCreateFromTemplate, ApiExtend, ApiClone, ApiEdit, ApiAttach,
      ApiDetach, CreateVolume, CreateFromTemplate
<1> QED
  BY <1>8, <1>9, <1>10, <1>11, <1>12, <1>13, <1>14, <1>15, <1>16, <1>17, <1>18, <1>19, <1>20,
     <1>21, <1>22, <1>23, <1>24, <1>25, <1>26, <1>27, <1>28, <1>29, <1>30, <1>31, <1>32
  DEF Next, HandlerStep, MonitorStep

-----------------------------------------------------------------------------
(* Rows a step leaves as they are, as far as the invariant looks at them *)

RowsKept ==
  /\ \A w \in Volumes :
       /\ rows'[w].status = "none" <=> rows[w].status = "none"
       /\ rows'[w].status = "deleted" <=> rows[w].status = "deleted"
       /\ rows[w].placed => rows'[w].placed
  /\ \/ \A w \in Volumes : rows'[w].vms = rows[w].vms
     \/ casts = <<>> /\ job.op # "_delete_volume"

LEMMA StatusKept ==
  ASSUME Typed, NEW v \in Volumes, Exists(v), NEW s \in VolumeStatus, SetStatus(v, s)
  PROVE  RowsKept
<1>1. s \in Statuses /\ s \notin {"none", "deleted"}
  BY DEF Statuses, VolumeStatus
<1>2. Touched(v, s)
  BY <1>1, StatusSet
<1> QED BY <1>1, <1>2 DEF Touched, RowsKept, Exists

LEMMA Unchanged == UNCHANGED rows => RowsKept
BY DEF RowsKept

LEMMA Carried ==
  ASSUME Typed, RowsKept
  PROVE  /\ \A j : /\ JobOK(j)
                   /\ casts # <<>> \/ j.op # "_delete_volume" \/ job.op = "_delete_volume"
                   => JobOK(j)'
         /\ QueueOK /\ domQ' = domQ => QueueOK'
         /\ FilesOK /\ files' = files => FilesOK'
<1>1. ASSUME NEW j, JobOK(j),
             casts # <<>> \/ j.op # "_delete_volume" \/ job.op = "_delete_volume"
      PROVE  JobOK(j)'
  BY <1>1 DEF JobOK, RowsKept, Exists
<1>2. QueueOK /\ domQ' = domQ => QueueOK'
  <2>1. \A i \in DOMAIN domQ : domQ[i] \in Requests
    BY DEF Typed
  <2>2. \A i \in DOMAIN domQ : domQ[i].vol \in Volumes
    BY <2>1 DEF Requests
  <2> QED BY <2>2 DEF QueueOK, RowsKept, Exists
<1>3. FilesOK /\ files' = files => FilesOK'
  BY DEF FilesOK, RowsKept
<1> QED BY <1>1, <1>2, <1>3

-----------------------------------------------------------------------------
(* The steps of the service layer, by what they do *)

\* Only rows change.
LEMMA RowsOnly ==
  ASSUME IInv, RowsKept, UNCHANGED <<casts, job, svcReply, domQ, files>>
  PROVE  Sound'
<1> USE DEF IInv, Sound
<1>1. JobOK(job)' /\ \A i \in DOMAIN casts : JobOK(casts[i])'
  BY Carried DEF HandlerOK, CastsOK
<1>2. CastsOK'
  BY <1>1 DEF CastsOK
<1>3. HandlerOK'
  BY <1>1 DEF HandlerOK, RowsKept, JobOK, Exists
<1>4. OwnedOK' /\ AnswerOK'
  BY DEF OwnedOK, Awaited, AnswerOK
<1> QED BY <1>2, <1>3, <1>4, Carried

\* A handler that waits for nothing ends.
NoneOwned == \A i \in DOMAIN domQ : domQ[i].owner # "svc"

LEMMA Unowned == IInv /\ (job.pc # "domain" \/ svcReply # "none") => NoneOwned
BY DEF IInv, Sound, OwnedOK, Awaited, NoneOwned

LEMMA Over ==
  ASSUME IInv, RowsKept, UNCHANGED <<casts, domQ, files>>,
         job.op # "none", job.pc # "domain" \/ svcReply # "none", svcReply' = "none",
         \/ job' = NoJob
         \/ /\ job.op \in CastOps /\ job'.op = job.op /\ job'.vol = job.vol
            /\ job'.pc = "ack"
  PROVE  Sound'
<1> USE DEF IInv, Sound
<1>1. NoJob.op = "none" /\ NoJob.pc = "idle"
  BY DEF NoJob
<1>2. CastsOK'
  <2>1. \A i \in DOMAIN casts : JobOK(casts[i])'
    BY Carried DEF CastsOK
  <2>2. job'.op \notin {"none", "delete_volume"} => casts = <<>>
    BY <1>1 DEF CastsOK, CastOps
  <2> QED BY <2>1, <2>2 DEF CastsOK
<1>3. HandlerOK'
  <2>1. JobOK(job)'
    <3>1. CASE job' = NoJob
      BY <1>1, <3>1 DEF JobOK
    <3>2. CASE job'.op = job.op /\ job'.vol = job.vol
      <4>1. JobOK(job)
        BY DEF HandlerOK
      <4>2. \/ \A w \in Volumes : rows'[w].vms = rows[w].vms
            \/ job.op # "_delete_volume"
        BY DEF RowsKept
      <4> QED BY <3>2, <4>1, <4>2 DEF JobOK, RowsKept, Exists
    <3> QED BY <3>1, <3>2
  <2> QED BY <1>1, <2>1 DEF HandlerOK, CastOps
<1>4. OwnedOK' /\ AnswerOK'
  <2>1. NoneOwned
    BY Unowned
  <2> QED BY <1>1, <2>1 DEF OwnedOK, NoneOwned, AnswerOK
<1> QED BY <1>2, <1>3, <1>4, Carried

\* A handler, or a request that starts one, calls the domain and waits.
LEMMA CallMade ==
  ASSUME IInv, RowsKept, UNCHANGED <<casts, svcReply, files>>, casts = <<>>,
         job.pc # "domain", job'.pc = "domain", job'.op \notin {"none", "delete_volume"},
         JobOK(job)',
         NEW op \in DomainOps, NEW v \in Volumes, NEW z \in 0..MaxSize,
         NEW c \in Volumes \cup {NoVolume}, CallDomain(op, v, z, c),
         op \in CreateOps => rows'[v].status \notin {"none", "deleted"} /\ rows'[v].placed,
         (op = "clone") <=> job'.op = "clone_volume",
         op = "clone" => /\ c = job'.new /\ c \in Volumes /\ rows'[c].status = "none"
                         /\ \A i \in DOMAIN domQ : domQ[i].new # c,
         job'.op = "_delete_volume" =>
           op = "delete" /\ v = job'.vol /\ rows'[v].status \notin {"none", "deleted"}
  PROVE  Sound'
<1> USE DEF IInv, Sound
<1>1. svcReply = "none"
  BY DEF HandlerOK
<1>2. NoneOwned
  BY Unowned
<1> DEFINE last == Len(domQ) + 1
<1>3. /\ DOMAIN domQ = 1..Len(domQ) /\ DOMAIN domQ' = 1..last /\ Len(domQ) \in Nat
      /\ \A i \in DOMAIN domQ : domQ'[i] = domQ[i]
      /\ domQ'[last].op = op /\ domQ'[last].vol = v /\ domQ'[last].new = c
  <2>1. /\ DOMAIN domQ = 1..Len(domQ) /\ DOMAIN domQ' = 1..last /\ Len(domQ) \in Nat
        /\ \A i \in DOMAIN domQ : domQ'[i] = domQ[i]
        /\ domQ'[last] = [op |-> op, vol |-> v, size |-> z, new |-> c, owner |-> "svc"]
    BY ONLY Typed, CallDomain(op, v, z, c), op \in DomainOps, v \in Volumes,
            z \in 0..MaxSize, c \in Volumes \cup {NoVolume}, Called
  <2> QED BY <2>1
<1>4. \A i \in DOMAIN domQ' : i \in DOMAIN domQ \/ i = last
  BY <1>3
<1> HIDE DEF last
<1>5. CastsOK'
  BY DEF CastsOK
<1>6. HandlerOK'
  BY <1>1 DEF HandlerOK, Exists
<1>7. QueueOK'
  <2>1. \A i \in DOMAIN domQ : domQ[i] \in Requests
    BY DEF Typed
  <2>2. \A i \in DOMAIN domQ : domQ[i].vol \in Volumes
    BY <2>1 DEF Requests
  <2>3. ASSUME NEW i \in DOMAIN domQ'
        PROVE  /\ domQ'[i].op \in CreateOps =>
                    /\ rows'[domQ'[i].vol].status \notin {"none", "deleted"}
                    /\ rows'[domQ'[i].vol].placed
               /\ domQ'[i].op = "clone" =>
                    domQ'[i].new \in Volumes /\ rows'[domQ'[i].new].status = "none"
    BY <1>3, <1>4, <2>2 DEF QueueOK, RowsKept, Exists
  <2>4. ASSUME NEW i \in DOMAIN domQ', NEW j \in DOMAIN domQ',
               domQ'[i].op = "clone", domQ'[j].op = "clone", domQ'[i].new = domQ'[j].new
        PROVE  i = j
    BY <1>3, <1>4, <2>4 DEF QueueOK
  <2> QED BY <2>3, <2>4 DEF QueueOK, Exists
<1>8. OwnedOK'
  <2>1. \A i \in DOMAIN domQ' : domQ'[i].owner = "svc" => i = last
    BY <1>2, <1>3, <1>4 DEF NoneOwned
  <2>2. \A j \in DOMAIN domQ' : j # last => j < last
    BY <1>3 DEF last
  <2>3. CreateOps = {"create", "create_from_template"}
    BY DEF CreateOps
  <2>4. svcReply' = "none"
    BY <1>1
  <2>5. ASSUME NEW i \in DOMAIN domQ', domQ'[i].owner = "svc" PROVE Awaited(i)'
    BY <1>3, <2>1, <2>2, <2>3, <2>4, <2>5 DEF Awaited
  <2> QED BY <2>5 DEF OwnedOK
<1>9. AnswerOK'
  BY <1>1 DEF AnswerOK
<1> QED BY <1>5, <1>6, <1>7, <1>8, <1>9, Carried

\* An API handler begins, and will publish a cast.
LEMMA Begins ==
  ASSUME IInv, Free, RowsKept, UNCHANGED <<casts, svcReply, domQ, files>>,
         NEW v \in Volumes, Exists(v), job'.op = "extend_volume", job'.vol = v, job'.pc = "cast"
  PROVE  Sound'
<1> USE DEF IInv, Sound
<1>1. casts = <<>> /\ job.pc = "idle" /\ svcReply = "none"
  BY DEF Free, NoJob, HandlerOK
<1>2. NoneOwned
  BY <1>1, Unowned
<1>3. CastsOK'
  BY <1>1 DEF CastsOK
<1>4. HandlerOK'
  BY <1>1 DEF HandlerOK, JobOK, RowsKept, Exists
<1>5. OwnedOK' /\ AnswerOK'
  BY <1>1, <1>2 DEF OwnedOK, NoneOwned, AnswerOK
<1> QED BY <1>3, <1>4, <1>5, Carried

\* A volume gets its row: the id is fresh, so nothing is known of it yet.
LEMMA Inserted ==
  ASSUME IInv, NEW op \in {"create_volume", "create_from_template"}, NEW v \in Volumes,
         NEW n \in Names, NEW s \in Storages, NEW z \in NewSizes, InsertVolume(op, v, n, s, z)
  PROVE  Sound'
<1> USE DEF IInv, Sound
<1>1. casts = <<>> /\ job.pc = "idle" /\ svcReply = "none"
  BY DEF InsertVolume, Free, NoJob, HandlerOK
<1>2. NoneOwned
  BY <1>1, Unowned
<1>3. /\ \A w \in Volumes : w # v => rows'[w] = rows[w]
      /\ rows'[v].status = "new" /\ rows'[v].placed = (op = "create_from_template")
  <2>1. z \in 0..MaxSize
    BY VolumeAssumption
  <2>2. rows' = [rows EXCEPT ![v] = NewRow(op, n, s, z)]
    BY DEF InsertVolume
  <2>3. (\A w \in Volumes : w # v => rows'[w] = rows[w]) /\ rows'[v] = NewRow(op, n, s, z)
    BY <2>1, <2>2, InsertRows
  <2> QED BY <2>3 DEF NewRow
<1>4. rows[v].status = "none" /\ files[v] = 0 /\ \A i \in DOMAIN domQ : domQ[i].new # v
  BY DEF InsertVolume, Fresh
<1>5. job'.op = op /\ job'.vol = v /\ job'.pc = "cast"
  BY JobType DEF InsertVolume, ApiOps
<1>6. CastsOK'
  BY <1>1 DEF InsertVolume, CastsOK
<1>7. HandlerOK'
  BY <1>1, <1>3, <1>5 DEF InsertVolume, HandlerOK, JobOK, Exists
<1>8. QueueOK'
  <2>1. \A i \in DOMAIN domQ : domQ[i] \in Requests
    BY DEF Typed
  <2>2. \A i \in DOMAIN domQ : domQ[i].vol \in Volumes
    BY <2>1 DEF Requests
  <2> QED BY <1>3, <1>4, <2>2 DEF InsertVolume, QueueOK, Exists
<1>9. OwnedOK' /\ AnswerOK'
  BY <1>1, <1>2, <1>5 DEF InsertVolume, OwnedOK, NoneOwned, AnswerOK
<1>10. FilesOK'
  BY <1>3, <1>4 DEF InsertVolume, FilesOK
<1> QED BY <1>6, <1>7, <1>8, <1>9, <1>10

\* delete_volume publishes its cast.
LEMMA DeletionAsked ==
  ASSUME IInv, NEW v \in Volumes, Free, Exists(v), ~Attached(v), UNCHANGED rows,
         casts' = Append(casts, Job("_delete_volume", v, "start")),
         job' = Job("delete_volume", v, "commit"), UNCHANGED <<svcReply, domQ, files>>
  PROVE  Sound'
<1> USE DEF IInv, Sound
<1>1. casts = <<>> /\ job.pc = "idle" /\ svcReply = "none"
  BY DEF Free, NoJob, HandlerOK
<1>2. NoneOwned
  BY <1>1, Unowned
<1> DEFINE j == Job("_delete_volume", v, "start")
<1>3. j \in Jobs /\ j.op = "_delete_volume" /\ j.vol = v /\ j.pc = "start"
  BY JobType DEF CastOps
<1>4. job'.op = "delete_volume" /\ job'.vol = v /\ job'.pc = "commit"
  <2>1. "delete_volume" \in CastOps \cup ApiOps
    BY DEF ApiOps
  <2> QED BY <2>1, JobType
<1> HIDE DEF j
<1>5. Len(casts') = 1 /\ DOMAIN casts' = {1} /\ casts'[1] = j
  <2>1. casts' = <<j>>
    BY <1>1, <1>3 DEF j
  <2> QED BY ONLY <2>1, <1>3
<1>6. CastsOK'
  BY <1>3, <1>4, <1>5 DEF CastsOK, JobOK, Exists, Attached, CastOps
<1>7. HandlerOK'
  BY <1>1, <1>4 DEF HandlerOK, JobOK, Exists
<1>8. QueueOK' /\ FilesOK'
  BY Unchanged, Carried
<1>9. OwnedOK' /\ AnswerOK'
  BY <1>2, <1>4 DEF OwnedOK, NoneOwned, AnswerOK
<1> QED BY <1>6, <1>7, <1>8, <1>9

LEMMA CastTaken == IInv /\ TakeCast => Sound'
<1> SUFFICES ASSUME IInv, TakeCast PROVE Sound'
  OBVIOUS
<1> USE DEF IInv, Sound
<1>1. job.pc = "idle" /\ svcReply = "none"
  BY DEF TakeCast, NoJob, HandlerOK
<1>2. NoneOwned
  BY <1>1, Unowned
<1>3. /\ job' = casts[1] /\ casts' = <<>> /\ JobOK(casts[1]) /\ casts[1].op \in CastOps
      /\ casts[1].pc = "start"
  <2>1. casts \in Seq(Jobs) /\ casts # <<>> /\ Len(casts) <= 1
    BY DEF TakeCast, CastsOK, Typed
  <2>2. Len(casts) = 1 /\ 1 \in DOMAIN casts
    <3>1. Len(casts) \in Nat \ {0}
      BY ONLY <2>1, EmptySeq
    <3>2. DOMAIN casts = 1..Len(casts)
      BY ONLY <2>1
    <3> QED BY ONLY <2>1, <3>1, <3>2
  <2>3. Tail(casts) \in Seq(Jobs) /\ Len(Tail(casts)) = 0
    BY ONLY <2>1, <2>2
  <2>4. Tail(casts) = <<>>
    BY ONLY <2>3, EmptySeq
  <2> QED BY <2>2, <2>4 DEF TakeCast, CastsOK
<1>4. CastsOK'
  BY <1>3 DEF CastsOK
<1>5. HandlerOK'
  BY <1>1, <1>3 DEF TakeCast, HandlerOK, JobOK, Exists, CastOps
<1>6. QueueOK' /\ FilesOK'
  BY Unchanged, Carried DEF TakeCast
<1>7. OwnedOK' /\ AnswerOK'
  BY <1>2, <1>3 DEF TakeCast, OwnedOK, NoneOwned, AnswerOK
<1> QED BY <1>4, <1>5, <1>6, <1>7

LEMMA CastPublished == IInv /\ PublishCast => Sound'
<1> SUFFICES ASSUME IInv, PublishCast PROVE Sound'
  OBVIOUS
<1> USE DEF IInv, Sound
<1>1. /\ job.pc = "cast" /\ job.op \in {"create_volume", "create_from_template", "extend_volume"}
      /\ casts = <<>> /\ svcReply = "none" /\ JobOK(job)
  BY DEF PublishCast, HandlerOK, CastsOK
<1>2. NoneOwned
  BY <1>1, Unowned
<1> DEFINE j == [job EXCEPT !.op = CastOf[job.op], !.pc = "start"]
<1>3. j.op = CastOf[job.op] /\ j.vol = job.vol /\ j.pc = "start" /\ j \in Jobs
  <2>1. CastOf[job.op] \in CastOps
    BY <1>1 DEF CastOf, CastOps
  <2> QED BY <2>1 DEF Typed, Jobs
<1>4. /\ j.op \in {"_create_volume", "_create_from_template", "_extend_volume"}
      /\ j.op = "_create_from_template" => job.op = "create_from_template"
  BY <1>1, <1>3 DEF CastOf
<1> HIDE DEF j
<1>5. DOMAIN casts' = {1} /\ Len(casts') = 1 /\ casts'[1] = j
  <2>1. casts' = <<j>>
    BY <1>1, <1>3 DEF PublishCast, j
  <2> QED BY <2>1, <1>3
<1>6. job' = NoJob /\ NoJob.op = "none" /\ NoJob.pc = "idle"
  BY DEF PublishCast, NoJob
<1>7. JobOK(j)
  BY <1>1, <1>3, <1>4 DEF JobOK
<1>8. CastsOK'
  BY <1>3, <1>4, <1>5, <1>6, <1>7 DEF PublishCast, CastsOK, JobOK, Exists, CastOps
<1>9. HandlerOK'
  BY <1>1, <1>6 DEF PublishCast, HandlerOK, JobOK
<1>10. QueueOK' /\ FilesOK'
  BY Unchanged, Carried DEF PublishCast
<1>11. OwnedOK' /\ AnswerOK'
  BY <1>2, <1>6 DEF PublishCast, OwnedOK, NoneOwned, AnswerOK
<1> QED BY <1>8, <1>9, <1>10, <1>11

\* _delete_volume deletes the row: there is no file, and nothing that waits in
\* the domain queue makes one.
LEMMA RowDeleted ==
  ASSUME IInv, job.op = "_delete_volume", job.vol \in Volumes, SetStatus(job.vol, "deleted"),
         UNCHANGED <<casts, domQ, files>>, svcReply' = "none", Done,
         job.pc # "domain" \/ svcReply # "none",
         files[job.vol] = 0,
         \A i \in DOMAIN domQ : domQ[i].op \in CreateOps => domQ[i].vol # job.vol
  PROVE  Sound'
<1> USE DEF IInv, Sound
<1>1. NoneOwned
  BY Unowned
<1>2. Touched(job.vol, "deleted")
  BY StatusSet DEF Statuses
<1>3. job'.op = "_delete_volume" /\ job'.vol = job.vol /\ job'.pc = "ack"
  BY JobEnds DEF CastOps
<1>4. rows[job.vol].status # "none" /\ rows[job.vol].vms = <<>> /\ casts = <<>>
  BY DEF HandlerOK, JobOK, CastsOK
<1>5. CastsOK'
  BY <1>4 DEF CastsOK
<1>6. HandlerOK'
  BY <1>2, <1>3, <1>4 DEF HandlerOK, JobOK, Touched, CastOps
<1>7. QueueOK'
  <2>1. \A i \in DOMAIN domQ : domQ[i] \in Requests
    BY DEF Typed
  <2>2. \A i \in DOMAIN domQ : domQ[i].vol \in Volumes
    BY <2>1 DEF Requests
  <2> QED BY <1>2, <1>4, <2>2 DEF QueueOK, Exists, Touched
<1>8. OwnedOK' /\ AnswerOK'
  BY <1>1, <1>3 DEF OwnedOK, NoneOwned, AnswerOK
<1>9. FilesOK'
  BY <1>2 DEF FilesOK, Touched
<1> QED BY <1>5, <1>6, <1>7, <1>8, <1>9

\* clone_volume after a call that succeeded: its request is no longer queued.
LEMMA CloneMade == IInv /\ CloneFinish /\ svcReply = "ok" => Sound'
<1> SUFFICES ASSUME IInv, CloneFinish, svcReply = "ok" PROVE Sound'
  OBVIOUS
<1> USE DEF IInv, Sound
<1>1. NoneOwned
  BY Unowned DEF CloneFinish
<1>2. /\ job.vol \in Volumes /\ job.new \in Volumes /\ job.new # job.vol
      /\ \A w \in Volumes : w \notin {job.vol, job.new} => rows'[w] = rows[w]
      /\ rows'[job.vol].status = "available" /\ rows'[job.vol].placed = rows[job.vol].placed
      /\ rows'[job.new].status = "available" /\ rows'[job.new].placed = TRUE
  BY CloneRows
<1>3. Exists(job.vol) /\ rows[job.new].status = "none"
  BY DEF CloneFinish, HandlerOK, JobOK
<1>4. job' = NoJob /\ NoJob.op = "none" /\ NoJob.pc = "idle" /\ svcReply' = "none" /\ casts = <<>>
  BY DEF CloneFinish, Done, CastOps, NoJob, TakeReply, CastsOK
<1>5. \A i \in DOMAIN domQ : domQ[i].op = "clone" => domQ[i].new # job.new
  BY DEF CloneFinish, AnswerOK
<1>6. CastsOK' /\ HandlerOK'
  BY <1>4 DEF CloneFinish, CastsOK, HandlerOK, JobOK
<1>7. QueueOK'
  <2>1. \A i \in DOMAIN domQ : domQ[i] \in Requests
    BY DEF Typed
  <2>2. \A i \in DOMAIN domQ : domQ[i].vol \in Volumes
    BY <2>1 DEF Requests
  <2>3. domQ' = domQ
    BY DEF CloneFinish
  <2> QED BY <1>2, <1>3, <1>5, <2>2, <2>3 DEF QueueOK, Exists
<1>8. OwnedOK' /\ AnswerOK'
  BY <1>1, <1>4 DEF CloneFinish, OwnedOK, NoneOwned, AnswerOK
<1>9. FilesOK'
  BY <1>2, <1>3 DEF CloneFinish, FilesOK, Exists
<1> QED BY <1>6, <1>7, <1>8, <1>9

-----------------------------------------------------------------------------
(* The steps of the domain, the thread, and faults *)

\* A command writes no file of a volume that has none but of one with a row to be
\* made, and of a clone that has no row.
LEMMA StaysEmpty ==
  ASSUME Typed, QueueOK, domQ # <<>>, CanSucceed(Head(domQ)),
         NEW v \in Volumes, rows[v].status # "none", files[v] = 0,
         Head(domQ).op \in CreateOps => Head(domQ).vol # v
  PROVE  Effect(Head(domQ))[v] = 0
<1> DEFINE r == Head(domQ)
<1>1. r \in Requests /\ r = domQ[1] /\ 1 \in DOMAIN domQ
  <2>1. domQ \in Seq(Requests) /\ domQ # <<>>
    BY DEF Typed
  <2> QED BY ONLY <2>1
<1> HIDE DEF r
<1>2. r.vol \in Volumes /\ r.op \in DomainOps
  BY <1>1 DEF Requests
<1>3. r.op = "clone" => r.new \in Volumes /\ r.new # v
  BY <1>1 DEF QueueOK
<1>4. r.op = "extend" => r.vol # v
  BY DEF CanSucceed, r
<1>5. r.op \in CreateOps => r.vol # v
  BY DEF r
<1>6. Effect(r)[v] = 0
  BY <1>2, <1>3, <1>4, <1>5 DEF Effect, CreateOps, DomainOps, Typed
<1> QED BY <1>6 DEF r

\* So the files of deleted volumes stay gone, whatever is executed, and so do those
\* of volumes that were never placed.
LEMMA FilesAfter ==
  ASSUME IInv, domQ # <<>>, CanSucceed(Head(domQ)), UNCHANGED rows,
         files' = Effect(Head(domQ))
  PROVE  FilesOK'
<1> USE DEF IInv, Sound
<1> DEFINE r == Head(domQ)
<1>1. r = domQ[1] /\ 1 \in DOMAIN domQ
  <2>1. domQ \in Seq(Requests) /\ domQ # <<>>
    BY DEF Typed
  <2> QED BY ONLY <2>1
<1> HIDE DEF r
<1>2. r.op \in CreateOps => Exists(r.vol) /\ rows[r.vol].placed
  BY <1>1 DEF QueueOK
<1>3. ASSUME NEW v \in Volumes,
             rows[v].status = "deleted" \/ (rows[v].status # "none" /\ ~rows[v].placed)
      PROVE  Effect(r)[v] = 0
  <2>1. rows[v].status # "none" /\ files[v] = 0
    BY <1>3 DEF FilesOK
  <2>2. r.op \in CreateOps => r.vol # v
    BY <1>2, <1>3 DEF Exists
  <2> QED BY <2>1, <2>2, StaysEmpty DEF r
<1> QED BY <1>3 DEF FilesOK, r

\* A request that is executed leaves the queue.
LEMMA Shifted ==
  ASSUME Typed, domQ # <<>>, domQ' = Tail(domQ)
  PROVE  /\ 1 \in DOMAIN domQ /\ Head(domQ) = domQ[1]
         /\ \A i \in DOMAIN domQ' :
              i \in Nat /\ i + 1 \in DOMAIN domQ /\ domQ'[i] = domQ[i + 1] /\ i + 1 # 1
         /\ \A i \in DOMAIN domQ : i \in Nat
<1>1. domQ \in Seq(Requests) /\ domQ # <<>> /\ domQ' = Tail(domQ)
  BY DEF Typed
<1> QED BY ONLY <1>1

LEMMA Executed == IInv /\ DomainExecute => Sound'
<1> SUFFICES ASSUME IInv, DomainExecute PROVE Sound'
  OBVIOUS
<1> USE DEF IInv, Sound
<1> DEFINE r == domQ[1]
<1>1. /\ domQ # <<>> /\ domQ' = Tail(domQ) /\ UNCHANGED <<rows, casts, job>>
      /\ 1 \in DOMAIN domQ /\ Head(domQ) = r
      /\ \A i \in DOMAIN domQ' :
           i \in Nat /\ i + 1 \in DOMAIN domQ /\ domQ'[i] = domQ[i + 1] /\ i + 1 # 1
      /\ \A i \in DOMAIN domQ : i \in Nat
  BY Shifted DEF DomainExecute
<1>2. PICK ok \in BOOLEAN :
        /\ ok => CanSucceed(r)
        /\ files' = IF ok THEN Effect(r) ELSE files
        /\ svcReply' = IF r.owner # "svc" THEN svcReply ELSE IF ok THEN "ok" ELSE "err"
  BY <1>1 DEF DomainExecute
<1> HIDE DEF r
<1>3. r.owner = "svc" => Awaited(1)
  BY <1>1 DEF OwnedOK, r
<1>4. CastsOK'
  BY <1>1 DEF CastsOK, JobOK, Exists
<1>5. HandlerOK'
  BY <1>1, <1>2, <1>3 DEF HandlerOK, JobOK, Exists, Awaited
<1>6. QueueOK'
  <2>1. ASSUME NEW i \in DOMAIN domQ'
        PROVE  /\ domQ'[i].op \in CreateOps =>
                    /\ rows'[domQ'[i].vol].status \notin {"none", "deleted"}
                    /\ rows'[domQ'[i].vol].placed
               /\ domQ'[i].op = "clone" =>
                    domQ'[i].new \in Volumes /\ rows'[domQ'[i].new].status = "none"
    BY <1>1 DEF QueueOK, Exists
  <2>2. ASSUME NEW i \in DOMAIN domQ', NEW j \in DOMAIN domQ',
               domQ'[i].op = "clone", domQ'[j].op = "clone", domQ'[i].new = domQ'[j].new
        PROVE  i = j
    <3>1. i + 1 = j + 1
      BY <1>1, <2>2 DEF QueueOK
    <3> QED BY <1>1, <3>1
  <2> QED BY <2>1, <2>2 DEF QueueOK, Exists
<1>7. OwnedOK'
  <2>1. ASSUME NEW i \in DOMAIN domQ', domQ'[i].owner = "svc" PROVE Awaited(i)'
    <3>1. Awaited(i + 1)
      BY <1>1, <2>1 DEF OwnedOK
    <3>2. r.owner # "svc" /\ svcReply' = svcReply
      BY <1>1, <1>2, <3>1 DEF Awaited, r
    <3>3. \A j \in DOMAIN domQ' : domQ'[j].owner = "svc" => j = i
      <4>1. ASSUME NEW j \in DOMAIN domQ', domQ'[j].owner = "svc" PROVE j = i
        <5>1. j + 1 = i + 1
          BY <1>1, <3>1, <4>1 DEF Awaited
        <5> QED BY <1>1, <5>1
      <4> QED BY <4>1
    <3>4. job.op = "_delete_volume" =>
            \A j \in DOMAIN domQ' : domQ'[j].op \in CreateOps /\ domQ'[j].vol = job.vol => j < i
      <4>1. ASSUME job.op = "_delete_volume", NEW j \in DOMAIN domQ',
                   domQ'[j].op \in CreateOps, domQ'[j].vol = job.vol
            PROVE  j < i
        <5>1. j + 1 < i + 1
          BY <1>1, <3>1, <4>1 DEF Awaited
        <5> QED BY <1>1, <5>1
      <4> QED BY <4>1
    <3> QED BY <1>1, <3>1, <3>2, <3>3, <3>4 DEF Awaited, CreateOps
  <2> QED BY <2>1 DEF OwnedOK
<1>8. AnswerOK'
  <2> SUFFICES ASSUME job.pc = "domain", svcReply' = "ok" PROVE AnswerOK'
    BY <1>1 DEF AnswerOK
  <2>1. CASE svcReply = "ok"
    <3>1. r.owner # "svc"
      BY <1>3, <2>1 DEF Awaited
    <3>2. job.op = "clone_volume" =>
            \A i \in DOMAIN domQ' : domQ'[i].op = "clone" => domQ'[i].new # job.new
      BY <1>1, <2>1 DEF AnswerOK
    <3>3. ASSUME job.op = "_delete_volume" PROVE files'[job.vol] = 0
      <4>1. /\ job.vol \in Volumes /\ rows[job.vol].status # "none" /\ files[job.vol] = 0
            /\ r.op \in CreateOps => r.vol # job.vol
        BY <1>1, <2>1, <3>3 DEF AnswerOK, HandlerOK, JobOK, r
      <4>2. CanSucceed(r) => Effect(r)[job.vol] = 0
        BY <1>1, <4>1, StaysEmpty
      <4> QED BY <1>2, <4>1, <4>2
    <3>4. ASSUME job.op = "_delete_volume"
          PROVE  \A i \in DOMAIN domQ' : domQ'[i].op \in CreateOps => domQ'[i].vol # job.vol
      BY <1>1, <2>1, <3>4 DEF AnswerOK
    <3> QED BY <1>1, <3>2, <3>3, <3>4 DEF AnswerOK, CreateOps
  <2>2. CASE svcReply # "ok"
    <3>1. r.owner = "svc" /\ ok /\ Awaited(1)
      BY <1>2, <1>3, <2>2
    <3>2. ASSUME job.op = "clone_volume"
          PROVE  \A i \in DOMAIN domQ' : domQ'[i].op = "clone" => domQ'[i].new # job.new
      <4>1. r.op = "clone" /\ r.new = job.new
        BY <3>1, <3>2 DEF Awaited, r
      <4> QED BY <1>1, <4>1 DEF QueueOK, r
    <3>3. ASSUME job.op = "_delete_volume"
          PROVE  /\ files'[job.vol] = 0
                 /\ \A i \in DOMAIN domQ' : domQ'[i].op \in CreateOps => domQ'[i].vol # job.vol
      <4>1. r.op = "delete" /\ r.vol = job.vol /\ job.vol \in Volumes
        BY <3>1, <3>3 DEF Awaited, HandlerOK, JobOK, r
      <4>2. files' = [files EXCEPT ![job.vol] = 0]
        BY <1>2, <3>1, <4>1 DEF Effect
      <4>3. files'[job.vol] = 0
        BY <4>1, <4>2 DEF Typed
      <4>4. ASSUME NEW i \in DOMAIN domQ', domQ'[i].op \in CreateOps, domQ'[i].vol = job.vol
            PROVE  FALSE
        <5>1. i + 1 < 1
          BY <1>1, <3>1, <3>3, <4>4 DEF Awaited
        <5> QED BY <1>1, <5>1
      <4> QED BY <4>3, <4>4
    <3> QED BY <1>1, <3>2, <3>3 DEF AnswerOK, CreateOps
  <2> QED BY <2>1, <2>2
<1>9. FilesOK'
  <2>1. CASE ok
    BY <1>1, <1>2, <2>1, FilesAfter
  <2>2. CASE ~ok
    BY <1>1, <1>2, <2>2 DEF FilesOK
  <2> QED BY <2>1, <2>2
<1> QED BY <1>4, <1>5, <1>6, <1>7, <1>8, <1>9

LEMMA DomainCrashed == IInv /\ DomainCrash => Sound'
<1> SUFFICES ASSUME IInv, DomainCrash PROVE Sound'
  OBVIOUS
<1> USE DEF IInv, Sound
<1>1. /\ domQ # <<>> /\ UNCHANGED <<rows, casts, job, svcReply, domQ>>
      /\ CanSucceed(Head(domQ)) /\ files' = Effect(Head(domQ))
  BY DEF DomainCrash, svcVars
<1>2. CastsOK' /\ HandlerOK' /\ QueueOK' /\ OwnedOK'
  BY <1>1 DEF CastsOK, HandlerOK, QueueOK, OwnedOK, Awaited, JobOK, Exists
<1>3. AnswerOK'
  <2> SUFFICES ASSUME job.pc = "domain", svcReply = "ok", job.op = "_delete_volume"
               PROVE  files'[job.vol] = 0
    BY <1>1 DEF AnswerOK
  <2>1. /\ job.vol \in Volumes /\ rows[job.vol].status # "none" /\ files[job.vol] = 0
        /\ \A i \in DOMAIN domQ : domQ[i].op \in CreateOps => domQ[i].vol # job.vol
    BY DEF AnswerOK, HandlerOK, JobOK
  <2>2. 1 \in DOMAIN domQ /\ Head(domQ) = domQ[1]
    <3>1. domQ \in Seq(Requests)
      BY DEF Typed
    <3> QED BY ONLY <1>1, <3>1
  <2> QED BY <1>1, <2>1, <2>2, StaysEmpty
<1>4. FilesOK'
  BY <1>1, FilesAfter
<1> QED BY <1>2, <1>3, <1>4

\* The owner of a request matters to who waits for it only.
LEMMA QueueDisowned ==
  ASSUME IInv, NEW owners \in SUBSET {"svc", "mon"}, domQ' = Disowned(owners), UNCHANGED rows
  PROVE  QueueOK'
<1>1. /\ DOMAIN domQ' = DOMAIN domQ
      /\ \A i \in DOMAIN domQ : /\ domQ'[i].op = domQ[i].op /\ domQ'[i].vol = domQ[i].vol
                                /\ domQ'[i].new = domQ[i].new
  BY DisownedType DEF IInv
<1> QED BY <1>1 DEF IInv, Sound, QueueOK, Exists

LEMMA TimedOut == IInv /\ ServiceTimeout => Sound'
<1> SUFFICES ASSUME IInv, ServiceTimeout PROVE Sound'
  OBVIOUS
<1> USE DEF IInv, Sound
<1>1. /\ job.pc = "domain" /\ svcReply' = "err" /\ domQ' = Disowned({"svc"})
      /\ UNCHANGED <<rows, files, casts, job>>
  BY DEF ServiceTimeout
<1>2. NoneOwned'
  BY <1>1, DisownedType DEF NoneOwned
<1>3. CastsOK' /\ HandlerOK' /\ FilesOK'
  BY <1>1 DEF CastsOK, HandlerOK, FilesOK, JobOK, Exists
<1>4. QueueOK'
  BY <1>1, QueueDisowned
<1>5. OwnedOK' /\ AnswerOK'
  BY <1>1, <1>2 DEF OwnedOK, NoneOwned, AnswerOK
<1> QED BY <1>3, <1>4, <1>5

LEMMA MonitorTimedOut == IInv /\ MonitorTimeout => Sound'
<1> SUFFICES ASSUME IInv, MonitorTimeout PROVE Sound'
  OBVIOUS
<1> USE DEF IInv, Sound
<1>1. domQ' = Disowned({"mon"}) /\ UNCHANGED <<rows, files, casts, job, svcReply>>
  BY DEF MonitorTimeout, svcVars
<1>2. /\ DOMAIN domQ' = DOMAIN domQ
      /\ \A i \in DOMAIN domQ :
           /\ domQ'[i].op = domQ[i].op /\ domQ'[i].vol = domQ[i].vol /\ domQ'[i].new = domQ[i].new
           /\ domQ'[i].owner = "svc" <=> domQ[i].owner = "svc"
  BY <1>1, DisownedType
<1>3. CastsOK' /\ HandlerOK' /\ FilesOK'
  BY <1>1 DEF CastsOK, HandlerOK, FilesOK, JobOK, Exists
<1>4. QueueOK'
  BY <1>1, QueueDisowned
<1>5. OwnedOK' /\ AnswerOK'
  BY <1>1, <1>2 DEF OwnedOK, Awaited, AnswerOK
<1> QED BY <1>3, <1>4, <1>5

LEMMA MonitorCalled == IInv /\ MonitorCall => Sound'
<1> SUFFICES ASSUME IInv, MonitorCall PROVE Sound'
  OBVIOUS
<1> USE DEF IInv, Sound
<1> DEFINE last == Len(domQ) + 1
<1>1. PICK v \in Volumes :
        domQ' = Append(domQ, [op |-> "attach_volume_info", vol |-> v, size |-> mon.seen[v],
                              new |-> NoVolume, owner |-> "mon"])
  BY DEF MonitorCall
<1> DEFINE r == [op |-> "attach_volume_info", vol |-> v, size |-> mon.seen[v],
                 new |-> NoVolume, owner |-> "mon"]
<1>2. /\ \A i \in DOMAIN domQ' : i \in DOMAIN domQ \/ i = last
      /\ \A i \in DOMAIN domQ : i \in DOMAIN domQ' /\ domQ'[i] = domQ[i] /\ i # last
      /\ domQ'[last].op = "attach_volume_info" /\ domQ'[last].owner = "mon"
  <2>1. domQ \in Seq(Requests)
    BY DEF Typed
  <2>2. r \in Requests /\ r.op = "attach_volume_info" /\ r.owner = "mon"
    BY DEF Typed, Monitors, Requests, DomainOps
  <2>3. domQ' = Append(domQ, r)
    BY <1>1
  <2> HIDE DEF r
  <2> QED BY ONLY <2>1, <2>2, <2>3
<1> HIDE DEF last, r
<1>3. UNCHANGED <<rows, files, casts, job, svcReply>>
  BY DEF MonitorCall, svcVars
<1>4. CastsOK' /\ HandlerOK' /\ FilesOK'
  BY <1>3 DEF CastsOK, HandlerOK, FilesOK, JobOK, Exists
<1>5. QueueOK'
  <2>1. ASSUME NEW i \in DOMAIN domQ',
               domQ'[i].op \in CreateOps \/ domQ'[i].op = "clone"
        PROVE  i \in DOMAIN domQ
    BY <1>2, <2>1 DEF CreateOps
  <2> QED BY <1>2, <1>3, <2>1 DEF QueueOK, Exists
<1>6. OwnedOK'
  <2>1. ASSUME NEW i \in DOMAIN domQ', domQ'[i].owner = "svc" PROVE Awaited(i)'
    <3>1. i \in DOMAIN domQ /\ Awaited(i)
      BY <1>2, <2>1 DEF OwnedOK
    <3> QED BY <1>2, <1>3, <3>1 DEF Awaited, CreateOps
  <2> QED BY <2>1 DEF OwnedOK
<1>7. AnswerOK'
  BY <1>2, <1>3 DEF AnswerOK, CreateOps
<1> QED BY <1>4, <1>5, <1>6, <1>7

\* The cast that was being handled is back in the queue, the waits are forgotten.
LEMMA Crashed == IInv /\ ServiceCrash => Sound'
<1> SUFFICES ASSUME IInv, ServiceCrash PROVE Sound'
  OBVIOUS
<1> USE DEF IInv, Sound
<1>1. /\ domQ' = Disowned({"svc", "mon"}) /\ UNCHANGED <<rows, files>>
      /\ job' = NoJob /\ svcReply' = "none" /\ NoJob.op = "none" /\ NoJob.pc = "idle"
  BY DEF ServiceCrash, NoJob
<1>2. NoneOwned'
  BY <1>1, DisownedType DEF NoneOwned
<1>3. CastsOK'
  <2>1. CASE job.op \in CastOps
    <3> DEFINE j == [job EXCEPT !.pc = "start"]
    <3>1. j \in Jobs /\ j.op = job.op /\ j.vol = job.vol /\ j.pc = "start"
      BY DEF Typed, Jobs
    <3>2. casts = <<>> /\ JobOK(job)
      BY <2>1 DEF CastsOK, HandlerOK, CastOps
    <3>3. casts' = <<j>> \o casts
      BY <2>1 DEF ServiceCrash
    <3> HIDE DEF j
    <3>4. DOMAIN casts' = {1} /\ Len(casts') = 1 /\ casts'[1] = j
      <4>1. casts' = <<j>>
        BY ONLY <3>1, <3>2, <3>3
      <4> QED BY ONLY <3>1, <4>1
    <3> QED BY <1>1, <2>1, <3>1, <3>2, <3>4 DEF CastsOK, JobOK, Exists, CastOps
  <2>2. CASE job.op \notin CastOps
    BY <1>1, <2>2 DEF ServiceCrash, CastsOK, JobOK, Exists
  <2> QED BY <2>1, <2>2
<1>4. HandlerOK' /\ FilesOK'
  BY <1>1 DEF HandlerOK, JobOK, FilesOK
<1>5. QueueOK'
  BY <1>1, QueueDisowned
<1>6. OwnedOK' /\ AnswerOK'
  BY <1>1, <1>2 DEF OwnedOK, NoneOwned, AnswerOK
<1> QED BY <1>3, <1>4, <1>5, <1>6

-----------------------------------------------------------------------------
(* Every step of the system *)

LEMMA ApiSound == IInv /\ ApiRequest => Sound'
<1> SUFFICES ASSUME IInv, ApiRequest PROVE Sound'
  OBVIOUS
<1> USE DEF svcVars, monVars
<1>0. Typed /\ Sound
  BY DEF IInv
<1>1. ASSUME NEW op \in {"create_volume", "create_from_template"}, NEW v \in Volumes,
             NEW n \in Names, NEW s \in Storages, NEW z \in NewSizes, InsertVolume(op, v, n, s, z)
      PROVE  Sound'
  BY <1>1, Inserted
\* A request that is refused leaves a status behind.
<1>2. ASSUME NEW v \in Volumes, Exists(v), NEW s \in VolumeStatus, SetStatus(v, s),
             UNCHANGED <<casts, job, svcReply, domQ, files>>
      PROVE  Sound'
  BY <1>0, <1>2, StatusKept, RowsOnly
<1>3. "error" \in VolumeStatus /\ "cloning" \in VolumeStatus /\ "extending" \in VolumeStatus
  BY DEF VolumeStatus
<1>4. ASSUME NEW v \in Volumes, NEW z \in Sizes, ExtendVolume(v, z)
      PROVE  Sound'
  <2>1. CASE SetStatus(v, "error") /\ UNCHANGED job
    BY <1>2, <1>3, <1>4, <2>1 DEF ExtendVolume
  <2>2. CASE SetStatus(v, "extending") /\ job' = [Job("extend_volume", v, "cast") EXCEPT !.size = z]
    <3>1. RowsKept
      BY <1>0, <1>3, <1>4, <2>2, StatusKept DEF ExtendVolume
    <3>2. job'.op = "extend_volume" /\ job'.vol = v /\ job'.pc = "cast"
      <4>1. /\ Job("extend_volume", v, "cast") \in Jobs
            /\ Job("extend_volume", v, "cast").op = "extend_volume"
            /\ Job("extend_volume", v, "cast").vol = v
            /\ Job("extend_volume", v, "cast").pc = "cast"
        <5>1. "extend_volume" \in CastOps \cup ApiOps
          BY DEF ApiOps
        <5> QED BY <5>1, JobType
      <4> QED BY <2>2, <4>1 DEF Jobs
    <3> QED BY <1>4, <3>1, <3>2, Begins DEF ExtendVolume
  <2> QED BY <1>4, <2>1, <2>2 DEF ExtendVolume
<1>5. ASSUME NEW v \in Volumes, DeleteVolume(v)
      PROVE  Sound'
  <2>1. CASE SetStatus(v, "error") /\ UNCHANGED <<casts, job>>
    BY <1>2, <1>3, <1>5, <2>1 DEF DeleteVolume
  <2>2. CASE /\ casts' = Append(casts, Job("_delete_volume", v, "start"))
             /\ job' = Job("delete_volume", v, "commit")
             /\ UNCHANGED rows /\ ~Attached(v)
    BY <1>5, <2>2, DeletionAsked DEF DeleteVolume
  <2> QED BY <1>5, <2>1, <2>2 DEF DeleteVolume
<1>6. ASSUME NEW src \in Volumes, NEW v \in Volumes, NEW n \in Names, NEW s \in Storages,
             CloneVolume(src, v, n, s)
      PROVE  Sound'
  <2>1. SetStatus(src, "cloning") /\ Exists(src) /\ RowsKept
    BY <1>0, <1>3, <1>6, StatusKept DEF CloneVolume
  <2>2. CASE UNCHANGED <<job, domQ>>
    BY <1>2, <1>3, <1>6, <2>1, <2>2 DEF CloneVolume
  <2>3. CASE /\ CallDomain("clone", src, rows[src].size, v)
             /\ job' = [Job("clone_volume", src, "domain") EXCEPT
                          !.new = v, !.size = rows[src].size, !.name = n, !.storage = s]
    <3>1. /\ job'.op = "clone_volume" /\ job'.vol = src /\ job'.pc = "domain" /\ job'.new = v
      <4>1. /\ Job("clone_volume", src, "domain") \in Jobs
            /\ Job("clone_volume", src, "domain").op = "clone_volume"
            /\ Job("clone_volume", src, "domain").vol = src
            /\ Job("clone_volume", src, "domain").pc = "domain"
        BY JobType DEF ApiOps
      <4> QED BY <2>3, <4>1 DEF Jobs
    <3>2. casts = <<>> /\ job.pc # "domain"
      BY <1>6 DEF CloneVolume, Free, NoJob
    <3>3. JobOK(job)'
      BY <2>1, <3>1 DEF JobOK, RowsKept, Exists
    <3>4. v \in Volumes /\ rows'[v].status = "none" /\ \A i \in DOMAIN domQ : domQ[i].new # v
      BY <1>6, <2>1 DEF CloneVolume, Fresh, RowsKept
    <3>5. rows[src].size \in 0..MaxSize /\ "clone" \in DomainOps /\ "clone" \notin CreateOps
      BY <1>0, RowFacts DEF DomainOps, CreateOps
    <3>6. UNCHANGED <<casts, svcReply, files>>
      BY <1>6 DEF CloneVolume
    <3> QED BY <2>1, <2>3, <3>1, <3>2, <3>3, <3>4, <3>5, <3>6, CallMade
  <2> QED BY <1>6, <2>2, <2>3 DEF CloneVolume
<1>7. ASSUME NEW v \in Volumes, NEW n \in Names, EditVolume(v, n)
      PROVE  Sound'
  <2>1. RowsKept
    BY <1>0, <1>7, RenameRows DEF EditVolume, RowsKept
  <2> QED BY <1>7, <2>1, RowsOnly DEF EditVolume
<1>8. ASSUME NEW v \in Volumes, NEW vm \in VMs, AttachVolume(v, vm)
      PROVE  Sound'
  <2>1. CASE SetStatus(v, "error") /\ UNCHANGED <<job, domQ>>
    BY <1>2, <1>3, <1>8, <2>1 DEF AttachVolume
  <2>2. CASE /\ CallDomain("attach_volume_info", v, rows[v].size, NoVolume)
             /\ job' = [Job("attach_volume", v, "domain") EXCEPT !.vm = vm]
             /\ UNCHANGED rows
    <3>1. job'.op = "attach_volume" /\ job'.vol = v /\ job'.pc = "domain"
      <4>1. /\ Job("attach_volume", v, "domain") \in Jobs
            /\ Job("attach_volume", v, "domain").op = "attach_volume"
            /\ Job("attach_volume", v, "domain").vol = v
            /\ Job("attach_volume", v, "domain").pc = "domain"
        BY JobType DEF ApiOps
      <4> QED BY <2>2, <4>1 DEF Jobs
    <3>2. casts = <<>> /\ job.pc # "domain" /\ Exists(v)
      BY <1>8 DEF AttachVolume, Free, NoJob
    <3>3. JobOK(job)'
      BY <2>2, <3>1, <3>2 DEF JobOK, Exists
    <3>4. /\ rows[v].size \in 0..MaxSize /\ "attach_volume_info" \in DomainOps
          /\ "attach_volume_info" \notin CreateOps
      BY <1>0, RowFacts DEF DomainOps, CreateOps
    <3>5. UNCHANGED <<casts, svcReply, files>> /\ RowsKept
      BY <1>8, <2>2, Unchanged DEF AttachVolume
    <3> QED BY <2>2, <3>1, <3>2, <3>3, <3>4, <3>5, CallMade
  <2> QED BY <1>8, <2>1, <2>2 DEF AttachVolume
<1>9. ASSUME NEW v \in Volumes, NEW vm \in VMs, DetachVolume(v, vm)
      PROVE  Sound'
  <2>1. CASE SetStatus(v, "error")
    BY <1>2, <1>3, <1>9, <2>1 DEF DetachVolume
  <2>2. CASE rows' = [rows EXCEPT ![v].vms = DetachLoop(rows[v].vms, vm)]
    <3>1. /\ \A w \in Volumes : w # v => rows'[w] = rows[w]
          /\ rows'[v].status = rows[v].status /\ rows'[v].placed = rows[v].placed
      <4> DEFINE list == DetachLoop(rows[v].vms, vm)
      <4>1. rows' = [rows EXCEPT ![v].vms = list] /\ rows[v].status \in Statuses
        BY <1>0, <2>2, RowFacts
      <4> HIDE DEF list
      <4> QED BY <1>0, <4>1, ListRows
    <3>2. casts = <<>> /\ job.op # "_delete_volume"
      BY <1>9 DEF DetachVolume, Free, NoJob
    <3>3. RowsKept
      BY <3>1, <3>2 DEF RowsKept
    <3> QED BY <1>9, <3>3, RowsOnly DEF DetachVolume
  <2> QED BY <1>9, <2>1, <2>2 DEF DetachVolume
<1> QED
  BY <1>1, <1>4, <1>5, <1>6, <1>7, <1>8, <1>9
  DEF ApiRequest, ApiCreate, ApiCreateFromTemplate, ApiExtend, ApiClone, ApiEdit, ApiAttach,
      ApiDetach, CreateVolume, CreateFromTemplate

LEMMA HandlerSound == IInv /\ HandlerStep => Sound'
<1> SUFFICES ASSUME IInv, HandlerStep PROVE Sound'
  OBVIOUS
<1> USE DEF svcVars, monVars
<1>0. Typed /\ Sound /\ HandlerOK /\ JobOK(job)
  BY DEF IInv, Sound, HandlerOK
<1>1. {"error", "available", "creating", "deleting"} \subseteq VolumeStatus
  BY DEF VolumeStatus
<1>2. job.op # "none" => job.vol \in Volumes
  BY <1>0 DEF JobOK
<1>3. job.op \notin {"none", "_delete_volume"} => Exists(job.vol)
  BY <1>0 DEF JobOK
<1>4. job.op \notin {"none", "delete_volume"} => casts = <<>>
  BY <1>0 DEF Sound, CastsOK
<1>5. job.pc # "domain" => svcReply = "none"
  BY <1>0 DEF HandlerOK
<1>6. ASSUME RowsKept, Done, job.op # "none", svcReply' = "none",
             job.pc # "domain" \/ svcReply # "none", UNCHANGED <<casts, domQ, files>>
      PROVE  Sound'
  BY <1>0, <1>6, JobEnds, Over
\* A status set, and the end of the handler.
<1>7. ASSUME job.op # "none", Exists(job.vol), NEW s \in VolumeStatus, SetStatus(job.vol, s)
      PROVE  RowsKept
  BY <1>0, <1>2, <1>7, StatusKept
\* The handler calls the domain.
<1>8. ASSUME job.op # "none", job.pc = "start", job' = [job EXCEPT !.pc = "domain"]
      PROVE  job'.op = job.op /\ job'.vol = job.vol /\ job'.pc = "domain"
  BY <1>0, <1>8 DEF Typed, Jobs
<1>9. CASE TakeCast
  BY <1>9, CastTaken
<1>10. CASE AckCast
  <2>1. job.op # "none" /\ job.pc # "domain"
    BY <1>0, <1>10 DEF AckCast, HandlerOK, CastOps
  <2> QED BY <1>5, <1>10, <2>1, Unchanged, Over DEF AckCast
<1>11. CASE PublishCast
  BY <1>11, CastPublished
<1>12. CASE CreateCheck
  <2>1. /\ job.op = "_create_volume" /\ job.pc = "start" /\ Exists(job.vol) /\ job.vol \in Volumes
        /\ casts = <<>> /\ svcReply = "none" /\ UNCHANGED <<files, casts, svcReply>>
    BY <1>2, <1>3, <1>4, <1>5, <1>12 DEF CreateCheck
  <2>2. CASE Done /\ UNCHANGED <<rows, domQ>>
    BY <1>6, <2>1, <2>2, Unchanged
  <2>3. CASE SetStatus(job.vol, "error") /\ Done /\ UNCHANGED domQ
    BY <1>1, <1>6, <1>7, <2>1, <2>3
  <2>4. ASSUME NEW s \in {"error", "creating"},
               rows' = [rows EXCEPT ![job.vol].status = s, ![job.vol].placed = TRUE]
        PROVE  RowsKept /\ rows'[job.vol].status = s /\ rows'[job.vol].placed
    <3>1. s \in Statuses /\ s \notin {"none", "deleted"}
      BY DEF Statuses, VolumeStatus
    <3>2. /\ \A w \in Volumes : w # job.vol => rows'[w] = rows[w]
          /\ rows'[job.vol].status = s /\ rows'[job.vol].placed = TRUE
          /\ rows'[job.vol].vms = rows[job.vol].vms
      BY <1>0, <2>1, <2>4, <3>1, PlacedRows
    <3> QED BY <2>1, <3>1, <3>2 DEF RowsKept, Exists
  <2>5. CASE /\ rows' = [rows EXCEPT ![job.vol].status = "error", ![job.vol].placed = TRUE]
             /\ Done /\ UNCHANGED domQ
    BY <1>6, <2>1, <2>4, <2>5
  <2>6. CASE /\ rows' = [rows EXCEPT ![job.vol].status = "creating", ![job.vol].placed = TRUE]
             /\ CallDomain("create", job.vol, rows[job.vol].size, NoVolume)
             /\ job' = [job EXCEPT !.pc = "domain"]
    <3>1. RowsKept /\ rows'[job.vol].status = "creating" /\ rows'[job.vol].placed
      BY <2>4, <2>6
    <3>2. job'.op = job.op /\ job'.vol = job.vol /\ job'.pc = "domain"
      BY <1>8, <2>1, <2>6
    <3>3. JobOK(job)'
      BY <2>1, <3>1, <3>2 DEF JobOK, Exists
    <3>4. rows[job.vol].size \in 0..MaxSize /\ "create" \in DomainOps
      BY <1>0, <2>1, RowFacts DEF DomainOps
    <3> QED BY <2>1, <2>6, <3>1, <3>2, <3>3, <3>4, CallMade
  <2> QED BY <1>12, <2>2, <2>3, <2>5, <2>6 DEF CreateCheck
<1>13. CASE CreateFinish
  <2>1. job.op = "_create_volume" /\ RowsKept
    BY <1>1, <1>3, <1>7, <1>13 DEF CreateFinish
  <2> QED BY <1>6, <1>13, <2>1 DEF CreateFinish, TakeReply
<1>14. CASE TemplateStart
  <2>1. /\ job.op = "_create_from_template" /\ job.pc = "start" /\ Exists(job.vol)
        /\ job.vol \in Volumes /\ casts = <<>> /\ RowsKept
    BY <1>1, <1>2, <1>3, <1>4, <1>7, <1>14 DEF TemplateStart
  <2>2. rows'[job.vol].status \notin {"none", "deleted"} /\ rows'[job.vol].placed
    BY <1>0, <2>1 DEF RowsKept, JobOK, Exists
  <2>3. job'.op = job.op /\ job'.vol = job.vol /\ job'.pc = "domain"
    BY <1>8, <1>14, <2>1 DEF TemplateStart
  <2>4. JobOK(job)'
    BY <2>1, <2>2, <2>3 DEF JobOK, Exists
  <2>5. rows[job.vol].size \in 0..MaxSize /\ "create_from_template" \in DomainOps
    BY <1>0, <2>1, RowFacts DEF DomainOps
  <2> QED BY <1>14, <2>1, <2>2, <2>3, <2>4, <2>5, CallMade DEF TemplateStart
<1>15. CASE TemplateFinish
  <2>1. job.op = "_create_from_template" /\ RowsKept
    BY <1>1, <1>3, <1>7, <1>15, Unchanged DEF TemplateFinish
  <2> QED BY <1>6, <1>15, <2>1 DEF TemplateFinish, TakeReply
<1>16. CASE ExtendCheck
  <2>1. /\ job.op = "_extend_volume" /\ job.pc = "start" /\ Exists(job.vol) /\ job.vol \in Volumes
        /\ casts = <<>> /\ svcReply = "none" /\ UNCHANGED <<files, casts, svcReply>>
    BY <1>2, <1>3, <1>4, <1>5, <1>16 DEF ExtendCheck
  <2>2. CASE Done /\ UNCHANGED <<rows, domQ>>
    BY <1>6, <2>1, <2>2, Unchanged
  <2>3. CASE /\ SetStatus(job.vol, "error") \/ SetStatus(job.vol, "available")
             /\ Done /\ UNCHANGED domQ
    BY <1>1, <1>6, <1>7, <2>1, <2>3
  <2>4. CASE /\ CallDomain("extend", job.vol, job.size, NoVolume)
             /\ job' = [job EXCEPT !.pc = "domain"] /\ UNCHANGED rows
    <3>1. job'.op = job.op /\ job'.vol = job.vol /\ job'.pc = "domain"
      BY <1>8, <2>1, <2>4
    <3>2. JobOK(job)' /\ RowsKept
      BY <2>1, <2>4, <3>1, Unchanged DEF JobOK, Exists
    <3>3. job.size \in 0..MaxSize /\ "extend" \in DomainOps /\ "extend" \notin CreateOps
      BY <1>0 DEF Typed, Jobs, DomainOps, CreateOps
    <3> QED BY <2>1, <2>4, <3>1, <3>2, <3>3, CallMade
  <2> QED BY <1>16, <2>2, <2>3, <2>4 DEF ExtendCheck
<1>17. CASE ExtendFinish
  <2>1. job.op = "_extend_volume" /\ job.vol \in Volumes /\ Exists(job.vol)
    BY <1>2, <1>3, <1>17 DEF ExtendFinish
  <2>2. RowsKept
    <3>1. CASE SetStatus(job.vol, "error")
      BY <1>1, <1>7, <2>1, <3>1
    <3>2. CASE rows' = [rows EXCEPT ![job.vol].status = "available", ![job.vol].size = job.size]
      <4>1. job.size \in 0..MaxSize
        BY <1>0 DEF Typed, Jobs
      <4> QED BY <1>0, <2>1, <3>2, <4>1, ExtendRows DEF RowsKept, Exists
    <3> QED BY <1>17, <3>1, <3>2 DEF ExtendFinish
  <2> QED BY <1>6, <1>17, <2>1, <2>2 DEF ExtendFinish, TakeReply
<1>18. CASE DeleteCommit
  <2>1. job.op = "delete_volume" /\ RowsKept
    BY <1>1, <1>3, <1>7, <1>18 DEF DeleteCommit
  <2> QED BY <1>5, <1>6, <1>18, <2>1 DEF DeleteCommit
<1>19. CASE DeleteStart
  <2>1. /\ job.op = "_delete_volume" /\ job.pc = "start" /\ job.vol \in Volumes
        /\ casts = <<>> /\ svcReply = "none" /\ UNCHANGED <<files, casts, svcReply>>
    BY <1>2, <1>4, <1>5, <1>19 DEF DeleteStart
  <2>2. CASE Done /\ UNCHANGED <<rows, domQ>>
    BY <1>6, <2>1, <2>2, Unchanged
  <2>3. CASE /\ Exists(job.vol) /\ CallDomain("delete", job.vol, 0, NoVolume)
             /\ job' = [job EXCEPT !.pc = "domain"] /\ UNCHANGED rows
    <3>1. job'.op = job.op /\ job'.vol = job.vol /\ job'.pc = "domain"
      BY <1>8, <2>1, <2>3
    <3>2. JobOK(job)' /\ RowsKept
      BY <1>0, <2>1, <2>3, <3>1, Unchanged DEF JobOK, Exists
    <3>3. 0 \in 0..MaxSize /\ "delete" \in DomainOps /\ "delete" \notin CreateOps
      BY VolumeAssumption DEF DomainOps, CreateOps
    <3>4. rows'[job.vol].status \notin {"none", "deleted"}
      BY <2>3 DEF Exists
    <3> QED BY <2>1, <2>3, <3>1, <3>2, <3>3, <3>4, CallMade
  <2>4. CASE ~rows[job.vol].placed /\ SetStatus(job.vol, "deleted") /\ Done /\ UNCHANGED domQ
    <3>1. files[job.vol] = 0
      BY <1>0, <2>1, <2>4 DEF Sound, FilesOK, JobOK
    <3>2. \A i \in DOMAIN domQ : domQ[i].op \in CreateOps => domQ[i].vol # job.vol
      BY <1>0, <2>4 DEF Sound, QueueOK
    <3> QED BY <2>1, <2>4, <3>1, <3>2, RowDeleted
  <2> QED BY <1>19, <2>2, <2>3, <2>4 DEF DeleteStart
<1>20. CASE DeleteFinish
  <2>1. /\ job.op = "_delete_volume" /\ job.pc = "domain" /\ job.vol \in Volumes
        /\ svcReply # "none" /\ svcReply' = "none" /\ Done /\ UNCHANGED <<files, casts, domQ>>
    BY <1>2, <1>20 DEF DeleteFinish, TakeReply
  <2>2. CASE svcReply = "ok"
    <3>1. /\ files[job.vol] = 0
          /\ \A i \in DOMAIN domQ : domQ[i].op \in CreateOps => domQ[i].vol # job.vol
      BY <1>0, <2>1, <2>2 DEF Sound, AnswerOK
    <3> QED BY <1>20, <2>1, <2>2, <3>1, RowDeleted DEF DeleteFinish
  <2>3. CASE svcReply # "ok"
    <3>1. RowsKept
      BY <1>0, <1>1, <1>7, <1>20, <2>1, <2>3 DEF DeleteFinish, HandlerOK
    <3> QED BY <1>6, <2>1, <3>1
  <2> QED BY <2>2, <2>3
<1>21. CASE CloneFinish
  <2>1. CASE svcReply = "ok"
    BY <1>21, <2>1, CloneMade
  <2>2. CASE svcReply # "ok"
    <3>1. /\ job.vol \in Volumes /\ job.new \in Volumes
          /\ \A w \in Volumes : w # job.vol => rows'[w] = rows[w]
          /\ rows'[job.vol].status = "available" /\ rows'[job.vol].placed = rows[job.vol].placed
          /\ rows'[job.vol].vms = rows[job.vol].vms
      BY <1>0, <1>21, <2>2, CloneRows
    <3>2. job.op = "clone_volume" /\ Exists(job.vol)
      BY <1>3, <1>21 DEF CloneFinish
    <3>3. RowsKept
      BY <3>1, <3>2 DEF RowsKept, Exists
    <3> QED BY <1>6, <1>21, <3>2, <3>3 DEF CloneFinish, TakeReply
  <2> QED BY <2>1, <2>2
<1>22. CASE AttachFinish
  <2>1. job.op = "attach_volume" /\ Exists(job.vol) /\ casts = <<>>
    BY <1>3, <1>4, <1>22 DEF AttachFinish
  <2>2. RowsKept
    BY <1>0, <1>22, <2>1, AttachRows DEF RowsKept, Exists
  <2> QED BY <1>6, <1>22, <2>1, <2>2 DEF AttachFinish, TakeReply
<1> QED
  BY <1>9, <1>10, <1>11, <1>12, <1>13, <1>14, <1>15, <1>16, <1>17, <1>18, <1>19, <1>20, <1>21,
     <1>22
  DEF HandlerStep

LEMMA InitSound == Init => Sound
<1> SUFFICES ASSUME Init PROVE Sound
  OBVIOUS
<1>1. NoJob.op = "none" /\ NoJob.pc = "idle"
  BY DEF NoJob
<1>2. \A v \in Volumes : rows[v].status = "none"
  BY DEF Init, NoRow
<1> QED
  BY <1>1, <1>2
  DEF Init, Sound, CastsOK, HandlerOK, JobOK, QueueOK, OwnedOK, AnswerOK, FilesOK

LEMMA Step == IInv /\ [Next]_vars => IInv'
<1> SUFFICES ASSUME IInv, [Next]_vars PROVE IInv'
  OBVIOUS
<1>1. Typed'
  BY TypedStep DEF IInv, Sound
<1> SUFFICES Sound'
  BY <1>1 DEF IInv
<1>2. ASSUME UNCHANGED <<rows, casts, job, svcReply, domQ, files>>
      PROVE  Sound'
  BY <1>2, Unchanged, RowsOnly
<1>3. CASE ApiRequest
  BY <1>3, ApiSound
<1>4. CASE HandlerStep
  BY <1>4, HandlerSound
<1>5. CASE DomainExecute
  BY <1>5, Executed
<1>6. CASE DomainCrash
  BY <1>6, DomainCrashed
<1>7. CASE ServiceTimeout
  BY <1>7, TimedOut
<1>8. CASE MonitorTimeout
  BY <1>8, MonitorTimedOut
<1>9. CASE MonitorCall
  BY <1>9, MonitorCalled
<1>10. CASE ServiceCrash
  BY <1>10, Crashed
<1>11. CASE MonitorRead
  BY <1>2, <1>11 DEF MonitorRead, svcVars
<1>12. CASE MonitorResult
  BY <1>2, <1>12 DEF MonitorResult, svcVars
<1>13. CASE MonitorWrite
  <2>1. RowsKept
    BY <1>13, MonitorRows DEF IInv, RowsKept, Exists
  <2> QED BY <1>13, <2>1, RowsOnly DEF MonitorWrite, svcVars
<1>14. CASE UNCHANGED vars
  BY <1>2, <1>14 DEF vars
<1> QED
  BY <1>3, <1>4, <1>5, <1>6, <1>7, <1>8, <1>9, <1>10, <1>11, <1>12, <1>13, <1>14
  DEF Next, MonitorStep

\* The invariant holds in every state the service can reach.
THEOREM Invariance == Spec => []IInv
<1>1. Init => IInv
  BY InitTyped, InitSound DEF IInv
<1> QED BY <1>1, Step, PTL DEF Spec

-----------------------------------------------------------------------------
(* What the project promises of volumes *)

\* A row is deleted by _delete_volume of that volume alone.
LEMMA DeletedBy ==
  ASSUME IInv, [Next]_vars, NEW v \in Volumes, Exists(v), rows'[v].status = "deleted"
  PROVE  job.op = "_delete_volume" /\ job.vol = v
<1> SUFFICES ASSUME ~(job.op = "_delete_volume" /\ job.vol = v) PROVE FALSE
  OBVIOUS
<1>0. Typed /\ HandlerOK /\ JobOK(job)
  BY DEF IInv, Sound, HandlerOK
<1>1. job.op # "none" => job.vol \in Volumes
  BY <1>0 DEF JobOK
\* A status that is set on some volume, and is deleted on another one only.
<1>2. ASSUME NEW w \in Volumes, NEW s \in Statuses, SetStatus(w, s), w # v \/ s # "deleted"
      PROVE  FALSE
  <2>1. Touched(w, s)
    BY <1>0, <1>2, StatusSet
  <2> QED BY <1>2, <2>1 DEF Touched, Exists
<1>3. UNCHANGED rows => FALSE
  BY DEF Exists
<1>4. VolumeStatus \subseteq Statuses /\ "deleted" \notin VolumeStatus /\ "deleted" \in Statuses
  BY DEF Statuses, VolumeStatus
<1>5. VolumeStatus = {"new", "creating", "available", "error", "deleting", "extending", "cloning"}
  BY DEF VolumeStatus
<1>6. ASSUME NEW op \in {"create_volume", "create_from_template"}, NEW w \in Volumes,
             NEW n \in Names, NEW s \in Storages, NEW z \in NewSizes, InsertVolume(op, w, n, s, z)
      PROVE  FALSE
  <2>1. z \in 0..MaxSize
    BY VolumeAssumption
  <2>2. rows' = [rows EXCEPT ![w] = NewRow(op, n, s, z)]
    BY <1>6 DEF InsertVolume
  <2>3. (\A x \in Volumes : x # w => rows'[x] = rows[x]) /\ rows'[w] = NewRow(op, n, s, z)
    BY <1>0, <2>1, <2>2, InsertRows
  <2> QED BY <2>3 DEF NewRow, Exists
<1>7. ASSUME NEW w \in Volumes, NEW n \in Names, EditVolume(w, n) PROVE FALSE
  BY <1>0, <1>7, RenameRows DEF EditVolume, Exists
<1>8. ASSUME NEW w \in Volumes, NEW vm \in VMs, DetachVolume(w, vm) PROVE FALSE
  <2>1. CASE SetStatus(w, "error")
    BY <1>2, <1>4, <1>5, <2>1
  <2>2. CASE rows' = [rows EXCEPT ![w].vms = DetachLoop(rows[w].vms, vm)]
    <3> DEFINE list == DetachLoop(rows[w].vms, vm)
    <3>1. rows' = [rows EXCEPT ![w].vms = list] /\ rows[w].status \in Statuses
      BY <1>0, <2>2, RowFacts
    <3> HIDE DEF list
    <3>2. /\ \A x \in Volumes : x # w => rows'[x] = rows[x]
          /\ rows'[w].status = rows[w].status
      BY <1>0, <3>1, ListRows
    <3> QED BY <3>2 DEF Exists
  <2> QED BY <1>8, <2>1, <2>2 DEF DetachVolume
<1>9. CASE ApiRequest
  <2>1. ASSUME NEW w \in Volumes, NEW z \in Sizes, ExtendVolume(w, z) PROVE FALSE
    BY <1>2, <1>4, <1>5, <2>1 DEF ExtendVolume
  <2>2. ASSUME NEW w \in Volumes, DeleteVolume(w) PROVE FALSE
    BY <1>2, <1>3, <1>4, <1>5, <2>2 DEF DeleteVolume
  <2>3. ASSUME NEW src \in Volumes, NEW w \in Volumes, NEW n \in Names, NEW s \in Storages,
               CloneVolume(src, w, n, s)
        PROVE  FALSE
    BY <1>2, <1>4, <1>5, <2>3 DEF CloneVolume
  <2>4. ASSUME NEW w \in Volumes, NEW vm \in VMs, AttachVolume(w, vm) PROVE FALSE
    BY <1>2, <1>3, <1>4, <1>5, <2>4 DEF AttachVolume
  <2> QED
    BY <1>6, <1>7, <1>8, <1>9, <2>1, <2>2, <2>3, <2>4
    DEF ApiRequest, ApiCreate, ApiCreateFromTemplate, ApiExtend, ApiClone, ApiEdit, ApiAttach,
        ApiDetach, CreateVolume, CreateFromTemplate
<1>10. CASE TakeCast \/ AckCast \/ PublishCast
  BY <1>3, <1>10 DEF TakeCast, AckCast, PublishCast
<1>11. CASE CreateCheck
  <2>1. job.vol \in Volumes
    BY <1>1, <1>11 DEF CreateCheck
  <2>2. ASSUME NEW s \in VolumeStatus,
               rows' = [rows EXCEPT ![job.vol].status = s, ![job.vol].placed = TRUE]
        PROVE  FALSE
    <3>1. s \in Statuses /\ s # "deleted"
      BY <1>4
    <3>2. (\A w \in Volumes : w # job.vol => rows'[w] = rows[w]) /\ rows'[job.vol].status = s
      BY <1>0, <2>1, <2>2, <3>1, PlacedRows
    <3>3. CASE v = job.vol
      BY <3>1, <3>2, <3>3
    <3>4. CASE v # job.vol
      BY <3>2, <3>4 DEF Exists
    <3> QED BY <3>3, <3>4
  <2> QED BY <1>2, <1>3, <1>4, <1>5, <1>11, <2>1, <2>2 DEF CreateCheck
<1>12. CASE CreateFinish \/ TemplateStart \/ TemplateFinish \/ DeleteCommit
  BY <1>1, <1>2, <1>3, <1>4, <1>5, <1>12
  DEF CreateFinish, TemplateStart, TemplateFinish, DeleteCommit
<1>13. CASE ExtendCheck
  <2>1. job.vol \in Volumes
    BY <1>1, <1>13 DEF ExtendCheck
  <2> QED BY <1>2, <1>3, <1>4, <1>5, <1>13, <2>1 DEF ExtendCheck
<1>14. CASE ExtendFinish
  <2>1. job.vol \in Volumes /\ job.size \in 0..MaxSize
    BY <1>0, <1>1, <1>14 DEF ExtendFinish, Typed, Jobs
  <2>2. CASE SetStatus(job.vol, "error")
    BY <1>2, <1>4, <1>5, <2>1, <2>2
  <2>3. CASE rows' = [rows EXCEPT ![job.vol].status = "available", ![job.vol].size = job.size]
    BY <1>0, <2>1, <2>3, ExtendRows DEF Exists
  <2> QED BY <1>14, <2>2, <2>3 DEF ExtendFinish
<1>15. CASE DeleteStart
  BY <1>1, <1>2, <1>3, <1>4, <1>15 DEF DeleteStart
<1>16. CASE DeleteFinish
  BY <1>1, <1>2, <1>4, <1>5, <1>16 DEF DeleteFinish
<1>17. CASE CloneFinish
  BY <1>0, <1>17, CloneRows DEF Exists
<1>18. CASE AttachFinish
  BY <1>0, <1>18, AttachRows DEF Exists
<1>19. CASE MonitorWrite
  BY <1>0, <1>19, MonitorRows DEF Exists
<1>20. CASE \/ MonitorRead \/ MonitorCall \/ MonitorResult \/ DomainExecute
            \/ DomainCrash \/ ServiceTimeout \/ MonitorTimeout \/ ServiceCrash \/ UNCHANGED vars
  BY <1>3, <1>20
  DEF MonitorRead, MonitorCall, MonitorResult, DomainExecute, DomainCrash, ServiceTimeout,
      MonitorTimeout, ServiceCrash, vars
<1> QED
  BY <1>9, <1>10, <1>11, <1>12, <1>13, <1>14, <1>15, <1>16, <1>17, <1>18, <1>19, <1>20
  DEF Next, HandlerStep, MonitorStep

\* Nothing is removed from under a virtual machine: _delete_volume, which does not
\* look at the attachments again, runs for volumes that have none, because no attach
\* request is served between the checks of delete_volume and its cast.
THEOREM DetachedOnly == Spec => DeletedOnlyDetached
<1>1. IInv /\ [Next]_vars =>
        \A v \in Volumes : Exists(v) /\ rows'[v].status = "deleted" => rows[v].vms = <<>>
  <2> SUFFICES ASSUME IInv, [Next]_vars, NEW v \in Volumes, Exists(v), rows'[v].status = "deleted"
               PROVE  rows[v].vms = <<>>
    OBVIOUS
  <2>1. job.op = "_delete_volume" /\ job.vol = v
    BY DeletedBy
  <2> QED BY <2>1 DEF IInv, Sound, HandlerOK, JobOK
<1> QED BY <1>1, Invariance, PTL DEF Spec, DeletedOnlyDetached

\* No file outlives the row of its volume, and nothing that would write it again is
\* left in the domain queue, whatever timed out or was executed twice.
THEOREM NoFileStaysBehind == Spec => []NoOrphanFile
<1>1. IInv => NoOrphanFile
  <2> SUFFICES ASSUME IInv, NEW v \in Volumes, rows[v].status = "deleted"
               PROVE  /\ files[v] = 0
                      /\ \A i \in DOMAIN domQ : domQ[i].vol = v =>
                           domQ[i].op \notin {"create", "create_from_template"}
    BY DEF NoOrphanFile
  <2> QED BY DEF IInv, Sound, FilesOK, QueueOK, CreateOps, Exists
<1> QED BY <1>1, Invariance, PTL

=============================================================================
