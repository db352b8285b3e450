----------------------------- MODULE RabbitRpc -----------------------------
(***************************************************************************)
(* One service queue of openvair/libs/messaging/rpc: RabbitRPCClient       *)
(* objects publish requests into it (call and cast), one RabbitRPCServer   *)
(* consumes it, and replies travel back through each client's exclusive    *)
(* callback queue.                                                         *)
(*                                                                         *)
(* A correlation id is a fresh uuid; here it is the number of the request, *)
(* so ids also give the order of arrival and the queue can be a set.       *)
(***************************************************************************)
EXTENDS Integers, Sequences, FiniteSets

CONSTANTS
  Clients,        \* RabbitRPCClient objects of the callers
  CallPriorities, \* priorities of call (1 between services, 8 from the API)
  CastPriorities, \* priorities of cast (10, and 8 where a caller says so)
  MaxLength,      \* x-max-length of the service queue (200 in the code)
  MaxRequests,    \* bound of the model: requests published in a behaviour
  MaxCrashes      \* bound of the model: crashes of the server process

ASSUME RpcAssumption ==
  /\ CallPriorities \subseteq Nat
  /\ CastPriorities \subseteq Nat
  /\ MaxLength \in Nat \ {0}
  /\ MaxRequests \in Nat
  /\ MaxCrashes \in Nat

CorrIds == 1..MaxRequests
Priorities == CallPriorities \cup CastPriorities

VARIABLES
  lastId,     \* requests published so far: the next uuid is lastId + 1
  queue,      \* the ready messages of the service queue
  delivered,  \* the unacknowledged message of the server, a set of 0 or 1
  stage,      \* how far on_request has come with it
  replies,    \* client -> messages in its callback queue, oldest first
  epoch,      \* client -> how many times its object was replaced
  corrId,     \* client -> self.corr_id, 0 for None
  response,   \* client -> self.response, a set of 0 or 1 bodies
  waiting,    \* client -> call is inside process_data_events
  outcome,    \* id -> how the call that published it ended
  runs,       \* id -> how many times the handler ran for it
  dropped,    \* ids the broker discarded from a full queue
  crashes     \* crashes of the server process so far

rpcVars == <<lastId, queue, delivered, stage, replies, epoch, corrId, response,
          waiting, outcome, runs, dropped, crashes>>

clientVars == <<replies, epoch, corrId, response, waiting, outcome>>
serverVars == <<delivered, stage, runs, crashes>>

(***************************************************************************)
(* A reply is {'data': ...} or {'err': str(err)}.  str(err) is the empty   *)
(* string for an exception raised without arguments, as the abstract       *)
(* methods of the domain classes do, and `get('err')` is then falsy.       *)
(***************************************************************************)
Bodies == [kind : {"data", "err", "emptyErr"}, corr : CorrIds]
Messages == [corr : CorrIds, priority : Priorities, client : Clients,
             epoch : Nat, wantsReply : BOOLEAN]
Outcomes ==
  [how : {"none", "returned", "raised", "timeout", "abandoned"},
   body : SUBSET Bodies, expired : BOOLEAN]

Pending == [how |-> "none", body |-> {}, expired |-> FALSE]
Ended(h, b, e) == [how |-> h, body |-> b, expired |-> e]

RpcTypeOK ==
  /\ lastId \in 0..MaxRequests
  /\ queue \subseteq Messages
  /\ delivered \subseteq Messages
  /\ stage \in {"idle", "got", "ran", "replied"}
  /\ replies \in [Clients -> Seq(Bodies)]
  /\ epoch \in [Clients -> Nat]
  /\ corrId \in [Clients -> 0..MaxRequests]
  /\ response \in [Clients -> SUBSET Bodies]
  /\ waiting \in [Clients -> BOOLEAN]
  /\ outcome \in [CorrIds -> Outcomes]
  /\ runs \in [CorrIds -> Nat]
  /\ dropped \subseteq CorrIds
  /\ crashes \in 0..MaxCrashes

RpcInit ==
  /\ lastId = 0
  /\ queue = {}
  /\ delivered = {}
  /\ stage = "idle"
  /\ replies = [c \in Clients |-> <<>>]
  /\ epoch = [c \in Clients |-> 0]
  /\ corrId = [c \in Clients |-> 0]
  /\ response = [c \in Clients |-> {}]
  /\ waiting = [c \in Clients |-> FALSE]
  /\ outcome = [i \in CorrIds |-> Pending]
  /\ runs = [i \in CorrIds |-> 0]
  /\ dropped = {}
  /\ crashes = 0

-----------------------------------------------------------------------------
(***************************************************************************)
(* The broker.  A queue with x-max-priority delivers the oldest message of *)
(* the highest priority, and x-max-length discards from that same head.    *)
(***************************************************************************)
IsHead(m, q) ==
  /\ m \in q
  /\ \A n \in q : \/ n.priority < m.priority
                  \/ n.priority = m.priority /\ m.corr <= n.corr

\* What the queue keeps of q once the length limit is enforced.
Kept(q) ==
  IF Cardinality(q) <= MaxLength THEN q ELSE {m \in q : ~IsHead(m, q)}

\* A message enters the ready part of the queue.
Enqueue(m) ==
  /\ queue' = Kept(queue \cup {m})
  /\ dropped' = dropped \cup {n.corr : n \in (queue \cup {m}) \ queue'}

-----------------------------------------------------------------------------
(* The client. *)

Request(c, p, wantsReply) ==
  [corr |-> lastId + 1, priority |-> p, client |-> c, epoch |-> epoch[c],
   wantsReply |-> wantsReply]

\* Mutant of Call: self.response is not cleared before the request is published.
Call_KeepsResponse(c, p) ==
  /\ ~waiting[c]
  /\ lastId < MaxRequests
  /\ lastId' = lastId + 1
  /\ corrId' = [corrId EXCEPT ![c] = lastId + 1]
  /\ waiting' = [waiting EXCEPT ![c] = TRUE]
  /\ Enqueue(Request(c, p, TRUE))
  /\ UNCHANGED <<replies, epoch, response, outcome, serverVars>>

\* call up to basic_publish: the response is reset before the request leaves.
Call(c, p) ==
  /\ ~waiting[c]
  /\ lastId < MaxRequests
  /\ lastId' = lastId + 1
  /\ response' = [response EXCEPT ![c] = {}]
  /\ corrId' = [corrId EXCEPT ![c] = lastId + 1]
  /\ waiting' = [waiting EXCEPT ![c] = TRUE]
  /\ Enqueue(Request(c, p, TRUE))
  /\ UNCHANGED <<replies, epoch, outcome, serverVars>>

\* cast: no reply_to, nothing to wait for.
Cast(c, p) ==
  /\ ~waiting[c]
  /\ lastId < MaxRequests
  /\ lastId' = lastId + 1
  /\ corrId' = [corrId EXCEPT ![c] = lastId + 1]
  /\ Enqueue(Request(c, p, FALSE))
  /\ UNCHANGED <<replies, epoch, response, waiting, outcome, serverVars>>

\* Mutant of Received: the correlation id is not compared.
Received_AnyReply(c, bodies) == {{bodies[Len(bodies)]}}

\* on_response for a run of replies: what self.response can be afterwards.
\* Only a matching id is stored, the last one on top.
Received(c, bodies) ==
  LET matching == {i \in DOMAIN bodies : bodies[i].corr = corrId[c]}
  IN IF matching = {} THEN {response[c]}
     ELSE {{bodies[i]} : i \in {k \in matching : \A j \in matching : j <= k}}

\* The end of call: how it ends given self.response after the wait.
Finish(c, resp, expired) ==
  /\ response' = [response EXCEPT ![c] = resp]
  /\ waiting' = [waiting EXCEPT ![c] = FALSE]
  /\ outcome' = [outcome EXCEPT ![corrId[c]] =
       IF resp = {} THEN Ended("timeout", {}, expired)
       ELSE IF \E b \in resp : b.kind = "err" THEN Ended("raised", resp, expired)
       ELSE Ended("returned", resp, expired)]

\* Mutant of ProcessDataEvents: the wait polls and comes back empty-handed.
ProcessDataEvents_Polls(c) ==
  /\ waiting[c]
  /\ \E k \in 0..Len(replies[c]) :
       /\ \E resp \in Received(c, SubSeq(replies[c], 1, k)) :
            Finish(c, resp, FALSE)
       /\ replies' = [replies EXCEPT ![c] = SubSeq(@, k + 1, Len(@))]
  /\ UNCHANGED <<lastId, queue, epoch, corrId, dropped, serverVars>>

(***************************************************************************)
(* process_data_events dispatches what has arrived and comes back after    *)
(* that single pass, whether or not on_response accepted any of it.        *)
(***************************************************************************)
ProcessDataEvents(c) ==
  /\ waiting[c]
  /\ \E k \in 1..Len(replies[c]) :
       /\ \E resp \in Received(c, SubSeq(replies[c], 1, k)) :
            Finish(c, resp, FALSE)
       /\ replies' = [replies EXCEPT ![c] = SubSeq(@, k + 1, Len(@))]
  /\ UNCHANGED <<lastId, queue, epoch, corrId, dropped, serverVars>>

\* Mutant of Expire: process_data_events is given no time_limit.
Expire_Never(c) == waiting[c] /\ FALSE /\ UNCHANGED rpcVars

\* process_data_events comes back because time_limit elapsed.
Expire(c) ==
  /\ waiting[c]
  /\ replies[c] = <<>>
  /\ Finish(c, response[c], TRUE)
  /\ UNCHANGED <<lastId, queue, replies, epoch, corrId, dropped, serverVars>>

(***************************************************************************)
(* The object is replaced: every request builds its manager, and so its    *)
(* clients, anew, and a process may die while it waits.  The exclusive     *)
(* callback queue goes with the connection.                                *)
(***************************************************************************)
Replace(c) ==
  /\ corrId[c] # 0
  /\ epoch' = [epoch EXCEPT ![c] = @ + 1]
  /\ replies' = [replies EXCEPT ![c] = <<>>]
  /\ corrId' = [corrId EXCEPT ![c] = 0]
  /\ response' = [response EXCEPT ![c] = {}]
  /\ waiting' = [waiting EXCEPT ![c] = FALSE]
  /\ outcome' = IF waiting[c]
                THEN [outcome EXCEPT ![corrId[c]] = Ended("abandoned", {}, FALSE)]
                ELSE outcome
  /\ UNCHANGED <<lastId, queue, dropped, serverVars>>

-----------------------------------------------------------------------------
(* The server: prefetch_count = 1, on_request runs in start_consuming. *)

Deliver ==
  /\ stage = "idle"
  /\ \E m \in queue :
       /\ IsHead(m, queue)
       /\ queue' = queue \ {m}
       /\ delivered' = {m}
  /\ stage' = "got"
  /\ UNCHANGED <<lastId, runs, crashes, dropped, clientVars>>

\* The manager's method runs; every exception becomes an 'err' reply.
RunHandler ==
  /\ stage = "got"
  /\ \E m \in delivered : runs' = [runs EXCEPT ![m.corr] = @ + 1]
  /\ stage' = "ran"
  /\ UNCHANGED <<lastId, queue, delivered, crashes, dropped, clientVars>>

\* The reply, if one is wanted; a callback queue that is gone loses it.
Reply ==
  /\ stage = "ran"
  /\ \E m \in delivered, kind \in {"data", "err", "emptyErr"} :
       IF m.wantsReply /\ m.epoch = epoch[m.client]
       THEN replies' = [replies EXCEPT ![m.client] =
                          Append(@, [kind |-> kind, corr |-> m.corr])]
       ELSE UNCHANGED replies
  /\ stage' = "replied"
  /\ UNCHANGED <<lastId, queue, delivered, runs, crashes, dropped, epoch,
                 corrId, response, waiting, outcome>>

Ack ==
  /\ stage = "replied"
  /\ delivered' = {}
  /\ stage' = "idle"
  /\ UNCHANGED <<lastId, queue, runs, crashes, dropped, clientVars>>

\* Mutant of ServerCrash: the consumer acknowledges on delivery (auto_ack).
ServerCrash_AutoAck ==
  /\ stage # "idle"
  /\ crashes < MaxCrashes
  /\ crashes' = crashes + 1
  /\ delivered' = {}
  /\ stage' = "idle"
  /\ UNCHANGED <<lastId, queue, runs, dropped, clientVars>>

\* The process dies with a message unacknowledged: the broker requeues it.
ServerCrash ==
  /\ stage # "idle"
  /\ crashes < MaxCrashes
  /\ crashes' = crashes + 1
  /\ \E m \in delivered : Enqueue(m)
  /\ delivered' = {}
  /\ stage' = "idle"
  /\ UNCHANGED <<lastId, runs, clientVars>>

-----------------------------------------------------------------------------
ClientStep(c) ==
  \/ \E p \in CallPriorities : Call(c, p)
  \/ \E p \in CastPriorities : Cast(c, p)
  \/ ProcessDataEvents(c)
  \/ Expire(c)
  \/ Replace(c)

ServerStep == Deliver \/ RunHandler \/ Reply \/ Ack \/ ServerCrash

RpcNext == ServerStep \/ \E c \in Clients : ClientStep(c)

RpcSpec == RpcInit /\ [][RpcNext]_rpcVars

(***************************************************************************)
(* time_limit bounds every wait, so a call in progress goes on; a server   *)
(* that is up (systemd restarts it) works through its queue.               *)
(***************************************************************************)
Fairness ==
  /\ \A c \in Clients : WF_rpcVars(ProcessDataEvents(c) \/ Expire(c))
  /\ WF_rpcVars(Deliver)
  /\ WF_rpcVars(RunHandler)
  /\ WF_rpcVars(Reply)
  /\ WF_rpcVars(Ack)

RpcFairSpec == RpcSpec /\ Fairness

-----------------------------------------------------------------------------
(* What the calls of the services rely on. *)

\* A call never answers with the reply to another call, not even after earlier
\* calls of the same object timed out and their replies arrive late: on_response
\* compares ids and call clears self.response before it publishes.
ReplyMatchesCall ==
  \A i \in CorrIds : \A b \in outcome[i].body : b.corr = i

\* Whatever a caller got back, its handler ran: a call that returned or raised
\* RpcCallException did so for a request the server executed.
AnswerNeedsRun ==
  \A i \in CorrIds : outcome[i].body # {} => runs[i] > 0

\* A published request is in the queue, with the server, executed, or was
\* discarded by a full queue: a crash of the server loses none, because
\* on_request acknowledges after the handler and not before.
NoRequestLost ==
  \A i \in 1..lastId :
    \/ \E m \in queue \cup delivered : m.corr = i
    \/ runs[i] > 0
    \/ i \in dropped

\* A handler runs twice for one request only when a crash lies between: no
\* request is in the queue twice or both queued and delivered.
RepeatsNeedCrash ==
  \A i \in CorrIds : runs[i] <= 1 + crashes

\* Only an object that has already timed out can end a wait early: as long as
\* no reply of an earlier call is still on its way to this object, a call that
\* raises RpcCallTimeoutException has waited out its time_limit.
StaleReplies(c) ==
  {i \in 1..Len(replies[c]) : replies[c][i].corr # corrId[c]}
EarlyTimeoutNeedsStaleReply ==
  [][\A c \in Clients :
       /\ waiting[c] /\ ~waiting'[c] /\ StaleReplies(c) = {}
       /\ outcome'[corrId[c]].how = "timeout"
       => outcome'[corrId[c]].expired]_rpcVars

\* Every call comes back to its caller, whatever happens to the server: the
\* services wait for each other in a ring and only time_limit breaks it.
CallReturns ==
  \A c \in Clients : waiting[c] ~> ~waiting[c]

-----------------------------------------------------------------------------
(***************************************************************************)
(* The queue with its clients and its server implements RpcContract: late  *)
(* replies, full queues, crashes and redeliveries stay invisible to a      *)
(* caller except as a failed call.                                         *)
(***************************************************************************)
EndedAs(hows) == {i \in CorrIds : outcome[i].how \in hows}

Contract == INSTANCE RpcContract WITH
  Ids <- CorrIds,
  issued <- 1..lastId,
  executed <- {i \in CorrIds : runs[i] > 0},
  answered <- EndedAs({"returned", "raised"}),
  failed <- EndedAs({"timeout", "abandoned"})

\* Every step of the queue, its clients and its server is a step of the
\* contract or changes nothing the contract speaks of.
ImplementsContract == Contract!ContractSpec

=============================================================================
