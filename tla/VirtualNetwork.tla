--------------------------- MODULE VirtualNetwork ---------------------------
(***************************************************************************)
(* The virtual network module: its service layer with the rows of the      *)
(* networks, its domain process with libvirt, and its monitoring thread,   *)
(* which adds a row for every active libvirt network that has none.        *)
(*                                                                         *)
(* Every request is a call that the service layer acknowledges when it is  *)
(* done, so a request in hand when the process dies is handled again.  The *)
(* domain is called, except for a deletion, which is cast before the row   *)
(* is deleted.  The domain redefines a network from what the row says.     *)
(***************************************************************************)
EXTENDS Integers, Sequences, FiniteSets, SequencesExt

CONSTANTS
  Ids,      \* uuids of networks, the same for row and libvirt network
  NoId,
  Names,    \* names of networks
  NoName,
  Groups,   \* names of port groups
  Trunks,   \* those that are trunks, to which tags can be added
  NoGroup,
  MaxFaults, \* bound of the model: failures, timeouts and crashes together
  MaxQueue  \* bound of the model: domain requests when a request of the API comes

ASSUME VirtualNetworkAssumption ==
  /\ Ids \subseteq Nat /\ NoId \notin Ids /\ NoName \notin Names
  /\ Trunks \subseteq Groups /\ NoGroup \notin Groups /\ IsFiniteSet(Groups)
  /\ MaxFaults \in Nat /\ MaxQueue \in Nat

VARIABLES
  rows,   \* the virtual_networks table with its port groups
  nets,   \* the networks of libvirt
  job,    \* the request the service layer is in
  domQ,   \* the domain queue; its head is the request in hand
  reply,  \* the answer of the domain to the job
  mon,    \* the monitoring thread
  fails, crashes,
  kept,   \* history: networks of which a deletion failed
  foreign \* history: networks that were not made by this program

vars == <<rows, nets, job, domQ, reply, mon, fails, crashes, kept, foreign>>
history == <<fails, crashes, kept, foreign>>

\* Port groups: what is there of each, with tags that were added or without.
PortGroups == [Groups -> {"none", "plain", "tagged"}]
NoGroups == [g \in Groups |-> "none"]
Has(groups, g) == groups[g] # "none"
Size(groups) == Cardinality({g \in Groups : Has(groups, g)})

\* state is NULL until the domain answered; adopted: inserted by the monitoring.
Rows == [there : BOOLEAN, name : Names \cup {NoName}, groups : PortGroups,
         state : {"null", "active", "inactive"}, adopted : BOOLEAN]
NoRow == [there |-> FALSE, name |-> NoName, groups |-> NoGroups, state |-> "null", adopted |-> FALSE]

Nets == [there : BOOLEAN, name : Names \cup {NoName}, groups : PortGroups, active : BOOLEAN]
NoNet == [there |-> FALSE, name |-> NoName, groups |-> NoGroups, active |-> FALSE]

Operations == {"create", "delete", "on", "off", "add_group", "del_group", "add_tag"}
Jobs == [op : Operations \cup {"none"}, id : Ids \cup {NoId}, name : Names \cup {NoName},
         groups : PortGroups, group : Groups \cup {NoGroup},
         pc : {"idle", "start", "exists", "insert", "domain", "remove"}]
NoJob == [op |-> "none", id |-> NoId, name |-> NoName, groups |-> NoGroups, group |-> NoGroup,
          pc |-> "idle"]

Requests == [op : Operations \cup {"exists"}, id : Ids \cup {NoId}, name : Names,
             groups : PortGroups, group : Groups \cup {NoGroup}, owner : {"svc", "none"}]

\* What the domain answers: an error, or the state it left the network in.
Replies == {"none", "err", "timeout", "yes", "no", "active", "inactive"}

\* names: those the table had; todo: names to collect; got: rows to insert.
Monitors == [pc : {"idle", "named", "collect", "dead"}, names : SUBSET Names, todo : SUBSET Names,
             got : SUBSET [id : Ids, name : Names, active : BOOLEAN]]
IdleMonitor == [pc |-> "idle", names |-> {}, todo |-> {}, got |-> {}]

TypeOK ==
  /\ rows \in [Ids -> Rows] /\ nets \in [Ids -> Nets]
  /\ job \in Jobs /\ domQ \in Seq(Requests) /\ reply \in Replies
  /\ mon \in Monitors
  /\ fails \in 0..MaxFaults /\ crashes \in 0..MaxFaults
  /\ kept \subseteq Ids /\ foreign \subseteq Ids

\* libvirt may have a network that somebody else made, with port groups or without.
Init ==
  /\ rows = [u \in Ids |-> NoRow]
  /\ \E us \in {{}, {u \in Ids : \A v \in Ids : u <= v}}, n \in Names, gs \in [Groups -> {"none", "plain"}] :
       /\ foreign = us
       /\ nets = [u \in Ids |-> IF u \in us
                    THEN [there |-> TRUE, name |-> n, groups |-> gs, active |-> TRUE] ELSE NoNet]
  /\ job = NoJob /\ domQ = <<>> /\ reply = "none" /\ mon = IdleMonitor
  /\ fails = 0 /\ crashes = 0 /\ kept = {}

-----------------------------------------------------------------------------
(* The pieces of the handlers. *)

Free == job = NoJob /\ Len(domQ) < MaxQueue
At(op, pc) == job.op = op /\ job.pc = pc

\* get_by_name of the table, and networkLookupByName of libvirt
InTable(n) == \E u \in Ids : rows[u].there /\ rows[u].name = n
InLibvirt(n) == \E u \in Ids : nets[u].there /\ nets[u].name = n

\* A uuid nobody has seen.
Unseen(u) ==
  /\ ~rows[u].there /\ ~nets[u].there /\ u \notin kept
  /\ \A i \in DOMAIN domQ : domQ[i].id # u
  /\ \A g \in mon.got : g.id # u
Fresh(u) == Unseen(u) /\ \A v \in Ids : Unseen(v) => u <= v

\* DataSerializer.to_domain: the whole network as the row has it.
ToDomain(op, u, group, owner) ==
  [op |-> op, id |-> u, name |-> rows[u].name, groups |-> rows[u].groups,
   group |-> group, owner |-> owner]

Send(request) == domQ' = Append(domQ, request)
Done == job' = NoJob
Goto(pc) == job' = [job EXCEPT !.pc = pc]

-----------------------------------------------------------------------------
(* create_virtual_network *)

\* Names of port groups that are given twice are refused before.
CreateNetwork(n, groups) ==
  /\ Free
  /\ job' = [NoJob EXCEPT !.op = "create", !.name = n, !.groups = groups, !.pc = "start"]
  /\ UNCHANGED <<rows, nets, domQ, reply, mon, history>>

\* _check_exist: the table, then the domain, whatever the table says.
CreateCheck ==
  /\ At("create", "start")
  /\ IF InTable(job.name) THEN Done /\ UNCHANGED domQ
     ELSE /\ Send([op |-> "exists", id |-> NoId, name |-> job.name, groups |-> NoGroups,
                   group |-> NoGroup, owner |-> "svc"])
          /\ Goto("exists")
  /\ UNCHANGED <<rows, nets, reply, mon, history>>

CreateChecked ==
  /\ At("create", "exists") /\ reply # "none"
  /\ IF reply = "no" THEN Goto("insert") ELSE Done
  /\ reply' = "none"
  /\ UNCHANGED <<rows, nets, domQ, mon, history>>

\* The row is committed before the network is created.
CreateInsert ==
  /\ At("create", "insert")
  /\ \E u \in Ids :
       /\ Fresh(u)
       /\ rows' = [rows EXCEPT ![u] = [NoRow EXCEPT !.there = TRUE, !.name = job.name,
                                                    !.groups = job.groups]]
       /\ Send([op |-> "create", id |-> u, name |-> job.name, groups |-> job.groups,
                group |-> NoGroup, owner |-> "svc"])
       /\ job' = [job EXCEPT !.id = u, !.pc = "domain"]
  /\ UNCHANGED <<nets, reply, mon, history>>

-----------------------------------------------------------------------------
(* The requests about one network: the domain is called with the row. *)

\* The refusals of the service layer.
Accepted ==
  /\ rows[job.id].there
  /\ job.op = "add_group" => ~Has(rows[job.id].groups, job.group)
  /\ job.op = "del_group" => Size(rows[job.id].groups) > 1

AskFor(op, u, group) ==
  /\ Free
  /\ rows[u].there
  /\ job' = [NoJob EXCEPT !.op = op, !.id = u, !.group = group, !.pc = "start"]
  /\ UNCHANGED <<rows, nets, domQ, reply, mon, history>>

CallDomain ==
  /\ job.op \in Operations \ {"create", "delete"} /\ job.pc = "start"
  /\ IF Accepted
     THEN Send(ToDomain(job.op, job.id, job.group, "svc")) /\ Goto("domain")
     ELSE Done /\ UNCHANGED domQ
  /\ UNCHANGED <<rows, nets, reply, mon, history>>

\* Mutant of Changed: the port group is not taken out of the list.
Changed_KeepsGroup(row) ==
  [row EXCEPT !.state = reply,
     !.groups = [g \in Groups |->
       CASE job.op = "add_group" /\ g = job.group -> "plain"
         [] job.op = "add_tag" /\ g = job.group -> "tagged"
         [] OTHER -> @[g]]]

\* What the row becomes when the domain has done it.
Changed(row) ==
  [row EXCEPT !.state = reply,
     !.groups = [g \in Groups |->
       CASE job.op = "add_group" /\ g = job.group -> "plain"
         [] job.op = "del_group" /\ g = job.group -> "none"
         [] job.op = "add_tag" /\ g = job.group -> "tagged"
         [] OTHER -> @[g]]]

\* The answer: _add_virsh_data_for_db_network and a commit; an error leaves the row.
DomainAnswered ==
  /\ job.pc = "domain" /\ reply # "none"
  /\ rows' = IF reply \in {"active", "inactive"}
             THEN [rows EXCEPT ![job.id] = Changed(@)] ELSE rows
  /\ reply' = "none"
  /\ Done
  /\ UNCHANGED <<nets, domQ, mon, history>>

-----------------------------------------------------------------------------
(* delete_virtual_network *)

\* Mutant of DeleteCast: a network the domain never answered for is not deleted there.
DeleteCast_OnlyCreated ==
  /\ At("delete", "start")
  /\ IF rows[job.id].there
     THEN /\ IF rows[job.id].state = "null" THEN UNCHANGED domQ
             ELSE Send(ToDomain("delete", job.id, NoGroup, "none"))
          /\ Goto("remove")
     ELSE Done /\ UNCHANGED domQ
  /\ UNCHANGED <<rows, nets, reply, mon, history>>

\* The domain is told first and not waited for.
DeleteCast ==
  /\ At("delete", "start")
  /\ IF rows[job.id].there
     THEN Send(ToDomain("delete", job.id, NoGroup, "none")) /\ Goto("remove")
     ELSE Done /\ UNCHANGED domQ
  /\ UNCHANGED <<rows, nets, reply, mon, history>>

DeleteRow ==
  /\ At("delete", "remove")
  /\ rows' = [rows EXCEPT ![job.id] = NoRow]
  /\ Done
  /\ UNCHANGED <<nets, domQ, reply, mon, history>>

-----------------------------------------------------------------------------
(* The domain process and libvirt: BridgeNetwork. *)

Request == Head(domQ)
Net == nets[Request.id]

\* Mutant of Wanted: the change is made to what libvirt has.
Wanted_FromLibvirt ==
  [g \in Groups |->
    CASE Request.op = "add_group" /\ g = Request.group -> "plain"
      [] Request.op = "del_group" /\ g = Request.group -> "none"
      [] Request.op = "add_tag" /\ g = Request.group -> "tagged"
      [] Request.op = "create" -> Request.groups[g]
      [] OTHER -> Net.groups[g]]

\* The port groups the network is defined with: those of the request, changed.
Wanted ==
  [g \in Groups |->
    CASE Request.op = "add_group" /\ g = Request.group -> "plain"
      [] Request.op = "del_group" /\ g = Request.group -> "none"
      [] Request.op = "add_tag" /\ g = Request.group -> "tagged"
      [] OTHER -> Request.groups[g]]

\* libvirt keeps names apart; port groups change only while the network is off.
Refused ==
  CASE Request.op = "create" -> \E u \in Ids \ {Request.id} : nets[u].there /\ nets[u].name = Request.name
    [] Request.op \in {"delete", "on", "off"} -> ~Net.there
    [] Request.op \in {"add_group", "del_group"} -> ~Net.there \/ Net.active
    [] Request.op = "add_tag" -> \/ ~Net.there \/ Net.active \/ Request.group \notin Trunks
                                 \/ ~Has(Request.groups, Request.group)
    [] OTHER -> FALSE

\* _define_network, enable, disable, delete
Effect ==
  CASE Request.op = "create" -> [there |-> TRUE, name |-> Request.name, groups |-> Wanted,
                                 active |-> Net.active]
    [] Request.op = "on" -> [Net EXCEPT !.active = TRUE]
    [] Request.op = "off" -> [Net EXCEPT !.active = FALSE]
    [] Request.op = "delete" -> NoNet
    [] OTHER -> [Net EXCEPT !.groups = Wanted]
State(net) == IF net.active THEN "active" ELSE "inactive"

Answer(answer) ==
  /\ reply' = IF Request.owner = "svc" THEN answer ELSE reply
  /\ domQ' = Tail(domQ)

DomainExists ==
  /\ domQ # <<>> /\ Request.op = "exists"
  /\ Answer(IF InLibvirt(Request.name) THEN "yes" ELSE "no")
  /\ UNCHANGED <<rows, nets, job, mon, history>>

DomainDoes ==
  /\ domQ # <<>> /\ Request.op # "exists"
  /\ IF Refused THEN Answer("err") /\ UNCHANGED nets
     ELSE nets' = [nets EXCEPT ![Request.id] = Effect] /\ Answer(State(Effect))
  /\ UNCHANGED <<rows, job, mon, history>>

MayFail == fails + crashes < MaxFaults

\* libvirt fails: before the change, after it while the answer is put together,
\* or between turning a network off and undefining it.
DomainFails ==
  /\ domQ # <<>> /\ MayFail /\ fails' = fails + 1
  /\ \/ UNCHANGED nets
     \/ /\ Request.op \notin {"exists", "delete"} /\ ~Refused
        /\ nets' = [nets EXCEPT ![Request.id] = Effect]
     \/ /\ Request.op = "delete" /\ ~Refused
        /\ nets' = [nets EXCEPT ![Request.id].active = FALSE]
  /\ kept' = IF Request.op = "delete" /\ Net.there THEN kept \cup {Request.id} ELSE kept
  /\ Answer("err")
  /\ UNCHANGED <<rows, job, mon, crashes, foreign>>

\* The process dies before or after the change: the request is handled again.
DomainCrash ==
  /\ domQ # <<>> /\ MayFail /\ crashes' = crashes + 1
  /\ \/ UNCHANGED nets
     \/ /\ Request.op # "exists" /\ ~Refused
        /\ nets' = [nets EXCEPT ![Request.id] = Effect]
  /\ UNCHANGED <<rows, job, domQ, reply, mon, fails, kept, foreign>>

-----------------------------------------------------------------------------
(* Failures of the service process. *)

Disowned == [i \in DOMAIN domQ |-> [domQ[i] EXCEPT !.owner = "none"]]

ServiceTimeout ==
  /\ job.pc \in {"exists", "domain"} /\ reply = "none"
  /\ MayFail /\ fails' = fails + 1
  /\ reply' = "timeout" /\ domQ' = Disowned
  /\ UNCHANGED <<rows, nets, job, mon, crashes, kept, foreign>>

\* The request was not acknowledged and is handled again from its start.
ServiceCrash ==
  /\ job # NoJob
  /\ MayFail /\ crashes' = crashes + 1
  /\ job' = [job EXCEPT !.pc = "start", !.id = IF job.op = "create" THEN NoId ELSE @]
  /\ reply' = "none" /\ domQ' = Disowned
  /\ mon' = IdleMonitor
  /\ UNCHANGED <<rows, nets, fails, kept, foreign>>

-----------------------------------------------------------------------------
(* monitoring *)

MonitorNames ==
  /\ mon.pc = "idle"
  /\ mon' = [mon EXCEPT !.pc = "named", !.names = {n \in Names : InTable(n)}]
  /\ UNCHANGED <<rows, nets, job, domQ, reply, history>>

\* listNetworks: the active ones
Listed == {n \in Names : \E u \in Ids : nets[u].there /\ nets[u].active /\ nets[u].name = n}

MonitorListed ==
  /\ mon.pc = "named"
  /\ mon' = [mon EXCEPT !.pc = "collect", !.todo = Listed \ mon.names]
  /\ UNCHANGED <<rows, nets, job, domQ, reply, history>>

Dies == mon' = [IdleMonitor EXCEPT !.pc = "dead"]

\* _collect_virsh_virt_net_data: a network that is gone raises, and the thread ends.
MonitorCollect ==
  /\ mon.pc = "collect"
  /\ \E n \in mon.todo :
       IF InLibvirt(n)
       THEN \E u \in Ids :
              /\ nets[u].there /\ nets[u].name = n
              /\ mon' = [mon EXCEPT !.todo = @ \ {n},
                           !.got = @ \cup {[id |-> u, name |-> n, active |-> nets[u].active]}]
       ELSE Dies
  /\ UNCHANGED <<rows, nets, job, domQ, reply, history>>

\* The rows are inserted, without the port groups; an id the table has by now
\* fails the transaction and ends the thread.
MonitorCommit ==
  /\ mon.pc = "collect" /\ mon.todo = {}
  /\ IF \E g \in mon.got : rows[g.id].there
     THEN Dies /\ UNCHANGED rows
     ELSE /\ rows' = [u \in Ids |->
               IF \E g \in mon.got : g.id = u
               THEN LET g == CHOOSE g \in mon.got : g.id = u
                    IN [there |-> TRUE, name |-> g.name, groups |-> NoGroups, adopted |-> TRUE,
                        state |-> IF g.active THEN "active" ELSE "inactive"]
               ELSE rows[u]]
          /\ mon' = IdleMonitor
  /\ UNCHANGED <<nets, job, domQ, reply, history>>

\* libvirt cannot be reached.
MonitorRaises ==
  /\ mon.pc = "named"
  /\ MayFail /\ fails' = fails + 1
  /\ Dies
  /\ UNCHANGED <<rows, nets, job, domQ, reply, crashes, kept, foreign>>

-----------------------------------------------------------------------------
ApiCreate == \E n \in Names, groups \in [Groups -> {"none", "plain"}] : CreateNetwork(n, groups)
ApiDelete == \E u \in Ids : AskFor("delete", u, NoGroup)
ApiTurn == \E u \in Ids, op \in {"on", "off"} : AskFor(op, u, NoGroup)
ApiAddGroup == \E u \in Ids, g \in Groups : AskFor("add_group", u, g)
ApiDelGroup == \E u \in Ids, g \in Groups : AskFor("del_group", u, g)
ApiAddTag == \E u \in Ids, g \in Groups : AskFor("add_tag", u, g)
ApiRequest == ApiCreate \/ ApiDelete \/ ApiTurn \/ ApiAddGroup \/ ApiDelGroup \/ ApiAddTag

HandlerStep ==
  CreateCheck \/ CreateChecked \/ CreateInsert \/ CallDomain \/ DomainAnswered \/ DeleteCast \/ DeleteRow
DomainStep == DomainExists \/ DomainDoes
MonitorStep == MonitorNames \/ MonitorListed \/ MonitorCollect \/ MonitorCommit

Next ==
  \/ ApiRequest \/ HandlerStep \/ DomainStep \/ MonitorStep
  \/ DomainFails \/ DomainCrash \/ ServiceTimeout \/ ServiceCrash \/ MonitorRaises

Spec == Init /\ [][Next]_vars

\* The consumers take what is in their queues, the thread runs every 30 seconds.
FairSpec == Spec /\ WF_vars(HandlerStep) /\ WF_vars(DomainStep) /\ WF_vars(MonitorStep)

-----------------------------------------------------------------------------
(* Properties *)

\* A network of libvirt that this program made has a row, or its deletion is
\* waiting in the domain queue or has failed there: a creation that timed out or
\* was cut off by a crash still runs later, but never after a deletion.
NoOrphan ==
  \A u \in Ids \ foreign :
    nets[u].there /\ ~rows[u].there =>
      u \in kept \/ \E i \in DOMAIN domQ : domQ[i].op = "delete" /\ domQ[i].id = u

\* When nothing is under way, a row and its libvirt network agree on the port
\* groups and, once the domain has answered, on the state, although processes died
\* in the middle of a change: it is done again from the row.  Rows the monitoring
\* inserted have no port groups, and a failure leaves the row behind.
RowsAgree ==
  job = NoJob /\ domQ = <<>> /\ fails = 0 =>
    \A u \in Ids : rows[u].there /\ nets[u].there /\ ~rows[u].adopted =>
      /\ rows[u].groups = nets[u].groups
      /\ rows[u].state \in {"null", State(nets[u])}

\* A network that has port groups is never left without: the service layer keeps
\* the last one of the row, and a request that comes late brings the whole network.
GroupsStay ==
  [][\A u \in Ids : nets[u].there /\ nets'[u].there /\ Size(nets[u].groups) > 0
                      => Size(nets'[u].groups) > 0]_vars
=============================================================================
