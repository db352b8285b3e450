------------------------ MODULE VirtualNetworkProofs ------------------------
(***************************************************************************)
(* Proofs about VirtualNetwork, for any networks, names, port groups,      *)
(* queues, failures and crashes: its type invariant; no libvirt network is *)
(* left without a row but by a deletion that waits or failed; rows and     *)
(* libvirt agree when nothing is under way; a network keeps a port group.  *)
(***************************************************************************)
EXTENDS VirtualNetwork, FiniteSetTheorems, TLAPS

\* A row has a name, and a request about a network knows which.
RowsNamed == \A u \in Ids : rows[u].there => rows[u].name \in Names
RequestOK(r) == r.op # "exists" => r.id \in Ids
QueueOK == \A i \in DOMAIN domQ : RequestOK(domQ[i])
HandlerOK ==
  /\ job.op = "none" => job = NoJob
  /\ job.op = "create" => job.name \in Names
  /\ job.op \notin {"none", "create"} \/ job.pc = "domain" => job.id \in Ids

Typed == TypeOK /\ RowsNamed /\ QueueOK /\ HandlerOK

Creates(r, u) == r.op = "create" /\ r.id = u
Deletes(r, u) == r.op = "delete" /\ r.id = u

\* A network that is to go will go: its deletion waits, behind every creation of
\* it that still waits, or has failed.
Covered(u) ==
  \/ u \in kept
  \/ /\ nets[u].there => \E i \in DOMAIN domQ : Deletes(domQ[i], u)
     /\ \A i \in DOMAIN domQ : Creates(domQ[i], u) =>
          \E j \in DOMAIN domQ : i < j /\ Deletes(domQ[j], u)

\* The handler has sent the deletion and is about to delete the row.
Leaving(u) == At("delete", "remove") /\ job.id = u

RowlessCovered == \A u \in Ids \ foreign : ~rows[u].there \/ Leaving(u) => Covered(u)

IInv == Typed /\ RowlessCovered

-----------------------------------------------------------------------------
(* Types of the pieces *)

LEMMA RowType ==
  ASSUME NEW r \in Rows, reply \in {"active", "inactive"}
  PROVE  Changed(r) \in Rows /\ Changed(r).there = r.there /\ Changed(r).name = r.name
<1> DEFINE groups == [g \in Groups |->
             CASE job.op = "add_group" /\ g = job.group -> "plain"
               [] job.op = "del_group" /\ g = job.group -> "none"
               [] job.op = "add_tag" /\ g = job.group -> "tagged"
               [] OTHER -> r.groups[g]]
<1>1. groups \in PortGroups
  BY DEF Rows, PortGroups
<1>2. Changed(r) = [r EXCEPT !.state = reply, !.groups = groups]
  BY DEF Changed
<1> HIDE DEF groups
<1> QED BY <1>1, <1>2 DEF Rows

LEMMA EmptyType == NoRow \in Rows /\ NoNet \in Nets /\ NoGroups \in PortGroups
<1>1. NoGroups \in PortGroups
  BY DEF NoGroups, PortGroups
<1> QED BY <1>1 DEF NoRow, Rows, NoNet, Nets

\* The domain queue, appended to, served and disowned, is a queue of requests.
LEMMA QueueType ==
  ASSUME Typed
  PROVE  /\ \A r \in Requests : Append(domQ, r) \in Seq(Requests)
         /\ domQ # <<>> => /\ Head(domQ) \in Requests /\ RequestOK(Head(domQ))
                           /\ Tail(domQ) \in Seq(Requests)
         /\ Disowned \in Seq(Requests)
<1> USE DEF Typed, TypeOK
<1>1. \A r \in Requests : Append(domQ, r) \in Seq(Requests)
  OBVIOUS
<1>2. domQ # <<>> => /\ Head(domQ) \in Requests /\ RequestOK(Head(domQ))
                     /\ Tail(domQ) \in Seq(Requests)
  BY DEF QueueOK
<1>3. Disowned \in Seq(Requests)
  <2>1. ASSUME NEW i \in 1..Len(domQ)
        PROVE  [domQ[i] EXCEPT !.owner = "none"] \in Requests
    <3>1. domQ[i] \in Requests
      OBVIOUS
    <3> QED BY <3>1 DEF Requests
  <2>2. Disowned \in [1..Len(domQ) -> Requests]
    BY <2>1 DEF Disowned
  <2>3. Len(domQ) \in Nat
    OBVIOUS
  <2> QED BY ONLY <2>2, <2>3, SMTT(30)
<1> QED BY <1>1, <1>2, <1>3

\* What a request makes of its network.
LEMMA EffectType ==
  ASSUME Typed, domQ # <<>>, Request.op # "exists"
  PROVE  /\ Request.id \in Ids /\ Effect \in Nets /\ State(Effect) \in Replies
         /\ [nets EXCEPT ![Request.id] = Effect] \in [Ids -> Nets]
         /\ Effect.there = (Request.op = "create" \/ (Request.op # "delete" /\ Net.there))
<1>1. Request \in Requests /\ Request.id \in Ids
  BY QueueType DEF Request, RequestOK
<1>2. Net \in Nets
  BY <1>1 DEF Net, Typed, TypeOK
<1>3. Wanted \in PortGroups
  BY <1>1 DEF Wanted, Requests, PortGroups
<1>4. Effect \in Nets /\ Effect.there = (Request.op = "create" \/ (Request.op # "delete" /\ Net.there))
  <2>1. CASE Request.op = "create"
    <3>1. Effect = [there |-> TRUE, name |-> Request.name, groups |-> Wanted, active |-> Net.active]
      BY <2>1 DEF Effect
    <3> QED BY <1>1, <1>2, <1>3, <2>1, <3>1 DEF Nets, Requests
  <2>2. CASE Request.op \in {"on", "off"}
    BY <1>2, <2>2 DEF Effect, Nets
  <2>3. CASE Request.op = "delete"
    BY <2>3, EmptyType DEF Effect, NoNet
  <2>4. CASE Request.op \in {"add_group", "del_group", "add_tag"}
    <3>1. Effect = [Net EXCEPT !.groups = Wanted]
      BY <2>4 DEF Effect
    <3> QED BY <1>2, <1>3, <2>4, <3>1 DEF Nets
  <2> QED BY <1>1, <2>1, <2>2, <2>3, <2>4 DEF Requests, Operations
<1>5. State(Effect) \in Replies
  BY DEF State, Replies
<1> QED BY <1>1, <1>4, <1>5 DEF Typed, TypeOK

-----------------------------------------------------------------------------
(* Type correctness *)

LEMMA InitTyped == Init => Typed
<1> SUFFICES ASSUME Init PROVE Typed
  OBVIOUS
<1>1. rows \in [Ids -> Rows] /\ RowsNamed
  BY EmptyType DEF Init, RowsNamed, NoRow
<1>2. nets \in [Ids -> Nets]
  <2>1. PICK us \in {{}, {u \in Ids : \A v \in Ids : u <= v}}, n \in Names,
             gs \in [Groups -> {"none", "plain"}] :
          nets = [u \in Ids |-> IF u \in us
                    THEN [there |-> TRUE, name |-> n, groups |-> gs, active |-> TRUE] ELSE NoNet]
    BY DEF Init
  <2>2. [there |-> TRUE, name |-> n, groups |-> gs, active |-> TRUE] \in Nets
    BY DEF Nets, PortGroups
  <2> QED BY <2>1, <2>2, EmptyType
<1>3. foreign \subseteq Ids /\ kept = {}
  BY DEF Init
<1>4. job \in Jobs /\ HandlerOK
  BY EmptyType DEF Init, NoJob, Jobs, HandlerOK
<1>5. domQ \in Seq(Requests) /\ QueueOK
  BY DEF Init, QueueOK
<1>6. mon \in Monitors /\ reply \in Replies /\ fails \in 0..MaxFaults /\ crashes \in 0..MaxFaults
  BY VirtualNetworkAssumption DEF Init, Monitors, IdleMonitor, Replies
<1> QED BY <1>1, <1>2, <1>3, <1>4, <1>5, <1>6 DEF Typed, TypeOK

\* The queue after a request about a network is appended.
LEMMA Sent ==
  ASSUME Typed, NEW r \in Requests, RequestOK(r), Send(r)
  PROVE  domQ' \in Seq(Requests) /\ QueueOK'
<1>1. domQ' = Append(domQ, r) /\ domQ' \in Seq(Requests)
  BY QueueType DEF Send
<1>2. QueueOK'
  BY <1>1 DEF Typed, TypeOK, QueueOK, RequestOK
<1> QED BY <1>1, <1>2

LEMMA Taken ==
  ASSUME Typed, domQ # <<>>, domQ' = Tail(domQ)
  PROVE  domQ' \in Seq(Requests) /\ QueueOK'
<1>1. domQ' \in Seq(Requests)
  BY QueueType
<1>2. QueueOK'
  BY DEF Typed, TypeOK, QueueOK, RequestOK
<1> QED BY <1>1, <1>2

LEMMA DisownedOK ==
  ASSUME Typed, domQ' = Disowned
  PROVE  /\ domQ' \in Seq(Requests) /\ QueueOK'
         /\ DOMAIN domQ' = DOMAIN domQ
         /\ \A i \in DOMAIN domQ : domQ'[i].op = domQ[i].op /\ domQ'[i].id = domQ[i].id
<1>1. domQ' \in Seq(Requests)
  BY QueueType
<1>2. DOMAIN domQ' = DOMAIN domQ
  BY DEF Disowned
<1>3. \A i \in DOMAIN domQ : domQ'[i].op = domQ[i].op /\ domQ'[i].id = domQ[i].id
  <2> SUFFICES ASSUME NEW i \in DOMAIN domQ
               PROVE  domQ'[i].op = domQ[i].op /\ domQ'[i].id = domQ[i].id
    OBVIOUS
  <2>1. domQ[i] \in Requests
    BY DEF Typed, TypeOK
  <2> QED BY <2>1 DEF Disowned, Requests
<1>4. QueueOK'
  BY <1>2, <1>3 DEF Typed, QueueOK, RequestOK
<1> QED BY <1>1, <1>2, <1>3, <1>4

\* ToDomain makes a request of the row of a network.
LEMMA RowRequest ==
  ASSUME Typed, NEW u \in Ids, rows[u].there,
         NEW op \in Operations, NEW g \in Groups \cup {NoGroup}, NEW o \in {"svc", "none"}
  PROVE  /\ ToDomain(op, u, g, o) \in Requests /\ RequestOK(ToDomain(op, u, g, o))
         /\ ToDomain(op, u, g, o).op = op /\ ToDomain(op, u, g, o).id = u
<1>1. rows[u].name \in Names /\ rows[u].groups \in PortGroups
  BY DEF Typed, TypeOK, RowsNamed, Rows
<1> QED BY <1>1 DEF ToDomain, Requests, RequestOK

LEMMA DeadType ==
  /\ IdleMonitor \in Monitors
  /\ Dies => mon' \in Monitors
BY DEF Dies, IdleMonitor, Monitors

\* The row the monitoring inserts for a network it has seen.
Adopted(u) ==
  LET g == CHOOSE g \in mon.got : g.id = u
  IN [there |-> TRUE, name |-> g.name, groups |-> NoGroups, adopted |-> TRUE,
      state |-> IF g.active THEN "active" ELSE "inactive"]

LEMMA AdoptedType ==
  ASSUME Typed, NEW u, \E g \in mon.got : g.id = u
  PROVE  Adopted(u) \in Rows /\ Adopted(u).there /\ Adopted(u).name \in Names
<1> DEFINE c == CHOOSE g \in mon.got : g.id = u
<1>1. c \in mon.got
  OBVIOUS
<1>2. c \in [id : Ids, name : Names, active : BOOLEAN]
  BY <1>1 DEF Typed, TypeOK, Monitors
<1>3. Adopted(u) = [there |-> TRUE, name |-> c.name, groups |-> NoGroups, adopted |-> TRUE,
                    state |-> IF c.active THEN "active" ELSE "inactive"]
  BY DEF Adopted
<1> HIDE DEF c
<1> QED BY <1>2, <1>3, EmptyType DEF Rows

LEMMA MonitorCommitRows ==
  ASSUME Typed, MonitorCommit
  PROVE  \A u \in Ids : \/ rows'[u] = rows[u]
                        \/ rows'[u] = Adopted(u) /\ \E g \in mon.got : g.id = u
BY DEF MonitorCommit, Adopted, Typed, TypeOK

LEMMA TypedStep == Typed /\ [Next]_vars => Typed'
<1> SUFFICES ASSUME Typed, [Next]_vars PROVE Typed'
  OBVIOUS
<1> USE DEF history
<1>1. ASSUME NEW n \in Names, NEW groups \in [Groups -> {"none", "plain"}], CreateNetwork(n, groups)
      PROVE  Typed'
  <2>1. groups \in PortGroups
    BY DEF PortGroups
  <2>2. job' = [op |-> "create", id |-> NoId, name |-> n, groups |-> groups, group |-> NoGroup,
                pc |-> "start"]
    BY <1>1 DEF CreateNetwork, NoJob
  <2>3. job' \in Jobs /\ HandlerOK'
    BY <2>1, <2>2 DEF Jobs, HandlerOK, Operations
  <2> QED BY <1>1, <2>3 DEF CreateNetwork, Typed, TypeOK, RowsNamed, QueueOK
<1>2. ASSUME NEW u \in Ids, NEW op \in Operations \ {"create"}, NEW g \in Groups \cup {NoGroup},
             AskFor(op, u, g)
      PROVE  Typed'
  <2>1. job' = [op |-> op, id |-> u, name |-> NoName, groups |-> NoGroups, group |-> g,
                pc |-> "start"]
    BY <1>2 DEF AskFor, NoJob
  <2>2. job' \in Jobs /\ HandlerOK'
    BY <2>1, EmptyType DEF Jobs, HandlerOK, Operations
  <2> QED BY <1>2, <2>2 DEF AskFor, Typed, TypeOK, RowsNamed, QueueOK
<1>3. CASE CreateCheck
  <2>1. CASE InTable(job.name)
    <3>1. job' \in Jobs /\ HandlerOK'
      BY <1>3, <2>1, EmptyType DEF CreateCheck, Done, NoJob, Jobs, HandlerOK
    <3> QED BY <1>3, <2>1, <3>1 DEF CreateCheck, Typed, TypeOK, RowsNamed, QueueOK
  <2>2. CASE ~InTable(job.name)
    <3> DEFINE r == [op |-> "exists", id |-> NoId, name |-> job.name, groups |-> NoGroups,
                     group |-> NoGroup, owner |-> "svc"]
    <3>1. r \in Requests /\ RequestOK(r)
      BY <1>3, EmptyType DEF CreateCheck, At, Typed, HandlerOK, Requests, RequestOK
    <3>2. Send(r)
      BY <1>3, <2>2 DEF CreateCheck
    <3> HIDE DEF r
    <3>3. domQ' \in Seq(Requests) /\ QueueOK'
      BY <3>1, <3>2, Sent
    <3>4. job' \in Jobs /\ HandlerOK'
      BY <1>3, <2>2 DEF CreateCheck, At, Goto, Typed, TypeOK, Jobs, HandlerOK
    <3> QED BY <1>3, <3>3, <3>4 DEF CreateCheck, Typed, TypeOK, RowsNamed
  <2> QED BY <2>1, <2>2
<1>4. CASE CreateChecked
  <2>1. job' \in Jobs /\ HandlerOK'
    BY <1>4, EmptyType DEF CreateChecked, At, Goto, Done, NoJob, Typed, TypeOK, Jobs, HandlerOK
  <2> QED BY <1>4, <2>1 DEF CreateChecked, Typed, TypeOK, RowsNamed, QueueOK, Replies
<1>5. CASE CreateInsert
  <2>1. PICK u \in Ids :
          /\ rows' = [rows EXCEPT ![u] = [NoRow EXCEPT !.there = TRUE, !.name = job.name,
                                                       !.groups = job.groups]]
          /\ Send([op |-> "create", id |-> u, name |-> job.name, groups |-> job.groups,
                   group |-> NoGroup, owner |-> "svc"])
          /\ job' = [job EXCEPT !.id = u, !.pc = "domain"]
    BY <1>5 DEF CreateInsert
  <2>2. job.op = "create" /\ job.name \in Names /\ job.groups \in PortGroups
    BY <1>5 DEF CreateInsert, At, Typed, TypeOK, Jobs, HandlerOK
  <2> DEFINE r == [op |-> "create", id |-> u, name |-> job.name, groups |-> job.groups,
                   group |-> NoGroup, owner |-> "svc"]
             row == [NoRow EXCEPT !.there = TRUE, !.name = job.name, !.groups = job.groups]
  <2>3. r \in Requests /\ RequestOK(r)
    BY <2>2 DEF Requests, RequestOK, Operations
  <2>4. Send(r)
    BY <2>1
  <2>5. row \in Rows /\ row.name = job.name
    BY <2>2 DEF NoRow, Rows
  <2>6. rows' = [rows EXCEPT ![u] = row]
    BY <2>1
  <2> HIDE DEF r, row
  <2>7. domQ' \in Seq(Requests) /\ QueueOK'
    BY <2>3, <2>4, Sent
  <2>8. rows' \in [Ids -> Rows] /\ RowsNamed'
    BY <2>2, <2>5, <2>6 DEF Typed, TypeOK, RowsNamed
  <2>9. job' \in Jobs /\ HandlerOK'
    BY <2>1, <2>2 DEF Typed, TypeOK, Jobs, HandlerOK
  <2> QED BY <1>5, <2>7, <2>8, <2>9 DEF CreateInsert, Typed, TypeOK
<1>6. CASE CallDomain
  <2>1. job.id \in Ids /\ job.op \in Operations /\ job.group \in Groups \cup {NoGroup}
    BY <1>6 DEF CallDomain, Typed, TypeOK, HandlerOK, Jobs, Operations
  <2>2. CASE Accepted
    <3>1. rows[job.id].there
      BY <2>2 DEF Accepted
    <3>2. domQ' \in Seq(Requests) /\ QueueOK'
      BY <1>6, <2>1, <2>2, <3>1, RowRequest, Sent DEF CallDomain
    <3>3. job' \in Jobs /\ HandlerOK'
      BY <1>6, <2>1, <2>2 DEF CallDomain, Goto, Typed, TypeOK, Jobs, HandlerOK, Operations
    <3> QED BY <1>6, <3>2, <3>3 DEF CallDomain, Typed, TypeOK, RowsNamed
  <2>3. CASE ~Accepted
    <3>1. job' \in Jobs /\ HandlerOK'
      BY <1>6, <2>3, EmptyType DEF CallDomain, Done, NoJob, Jobs, HandlerOK
    <3> QED BY <1>6, <2>3, <3>1 DEF CallDomain, Typed, TypeOK, RowsNamed, QueueOK
  <2> QED BY <2>2, <2>3
<1>7. CASE DomainAnswered
  <2>1. job' \in Jobs /\ HandlerOK'
    BY <1>7, EmptyType DEF DomainAnswered, Done, NoJob, Jobs, HandlerOK
  <2>2. rows' \in [Ids -> Rows] /\ RowsNamed'
    <3>1. CASE reply \in {"active", "inactive"}
      <4>1. job.id \in Ids /\ rows[job.id] \in Rows
        BY <1>7 DEF DomainAnswered, Typed, TypeOK, HandlerOK
      <4>2. /\ Changed(rows[job.id]) \in Rows
            /\ Changed(rows[job.id]).there = rows[job.id].there
            /\ Changed(rows[job.id]).name = rows[job.id].name
        BY <3>1, <4>1, RowType
      <4>3. rows' = [rows EXCEPT ![job.id] = Changed(rows[job.id])]
        BY <1>7, <3>1 DEF DomainAnswered
      <4> QED BY <4>1, <4>2, <4>3 DEF Typed, TypeOK, RowsNamed
    <3>2. CASE reply \notin {"active", "inactive"}
      BY <1>7, <3>2 DEF DomainAnswered, Typed, TypeOK, RowsNamed
    <3> QED BY <3>1, <3>2
  <2> QED BY <1>7, <2>1, <2>2 DEF DomainAnswered, Typed, TypeOK, QueueOK, Replies
<1>8. CASE DeleteCast
  <2>1. job.id \in Ids
    BY <1>8 DEF DeleteCast, At, Typed, HandlerOK
  <2>2. CASE rows[job.id].there
    <3>1. domQ' \in Seq(Requests) /\ QueueOK'
      BY <1>8, <2>1, <2>2, RowRequest, Sent DEF DeleteCast, Operations
    <3>2. job' \in Jobs /\ HandlerOK'
      BY <1>8, <2>2 DEF DeleteCast, At, Goto, Typed, TypeOK, Jobs, HandlerOK
    <3> QED BY <1>8, <3>1, <3>2 DEF DeleteCast, Typed, TypeOK, RowsNamed
  <2>3. CASE ~rows[job.id].there
    <3>1. job' \in Jobs /\ HandlerOK'
      BY <1>8, <2>3, EmptyType DEF DeleteCast, Done, NoJob, Jobs, HandlerOK
    <3> QED BY <1>8, <2>3, <3>1 DEF DeleteCast, Typed, TypeOK, RowsNamed, QueueOK
  <2> QED BY <2>2, <2>3
<1>9. CASE DeleteRow
  <2>1. job' \in Jobs /\ HandlerOK'
    BY <1>9, EmptyType DEF DeleteRow, Done, NoJob, Jobs, HandlerOK
  <2>2. rows' \in [Ids -> Rows] /\ RowsNamed'
    BY <1>9, EmptyType DEF DeleteRow, Typed, TypeOK, RowsNamed, NoRow
  <2> QED BY <1>9, <2>1, <2>2 DEF DeleteRow, Typed, TypeOK, QueueOK
<1>10. CASE DomainExists
  <2>1. domQ' \in Seq(Requests) /\ QueueOK'
    BY <1>10, Taken DEF DomainExists, Answer
  <2>2. reply' \in Replies
    BY <1>10 DEF DomainExists, Answer, Typed, TypeOK, Replies
  <2> QED BY <1>10, <2>1, <2>2 DEF DomainExists, Typed, TypeOK, RowsNamed, HandlerOK
<1>11. CASE DomainDoes
  <2>1. domQ' \in Seq(Requests) /\ QueueOK'
    BY <1>11, Taken DEF DomainDoes, Answer
  <2>2. nets' \in [Ids -> Nets]
    BY <1>11, EffectType DEF DomainDoes, Typed, TypeOK
  <2>3. reply' \in Replies
    BY <1>11, EffectType DEF DomainDoes, Answer, Typed, TypeOK, Replies
  <2> QED BY <1>11, <2>1, <2>2, <2>3 DEF DomainDoes, Typed, TypeOK, RowsNamed, HandlerOK
<1>12. CASE DomainFails
  <2>1. domQ' \in Seq(Requests) /\ QueueOK'
    BY <1>12, Taken DEF DomainFails, Answer
  <2>2. reply' \in Replies
    BY <1>12 DEF DomainFails, Answer, Typed, TypeOK, Replies
  <2>3. Request \in Requests /\ RequestOK(Request)
    BY <1>12, QueueType DEF DomainFails, Request
  <2>4. kept' \subseteq Ids
    BY <1>12, <2>3 DEF DomainFails, RequestOK, Typed, TypeOK
  <2>5. nets' \in [Ids -> Nets]
    <3>1. CASE UNCHANGED nets
      BY <3>1 DEF Typed, TypeOK
    <3>2. CASE Request.op \notin {"exists", "delete"} /\ nets' = [nets EXCEPT ![Request.id] = Effect]
      BY <1>12, <3>2, EffectType DEF DomainFails
    <3>3. CASE Request.op = "delete" /\ nets' = [nets EXCEPT ![Request.id].active = FALSE]
      BY <2>3, <3>3 DEF RequestOK, Typed, TypeOK, Nets
    <3> QED BY <1>12, <3>1, <3>2, <3>3 DEF DomainFails
  <2>6. fails' \in 0..MaxFaults
    BY <1>12, VirtualNetworkAssumption DEF DomainFails, MayFail, Typed, TypeOK
  <2> QED BY <1>12, <2>1, <2>2, <2>4, <2>5, <2>6 DEF DomainFails, Typed, TypeOK, RowsNamed, HandlerOK
<1>13. CASE DomainCrash
  <2>1. nets' \in [Ids -> Nets]
    BY <1>13, EffectType DEF DomainCrash, Typed, TypeOK
  <2>2. crashes' \in 0..MaxFaults
    BY <1>13, VirtualNetworkAssumption DEF DomainCrash, MayFail, Typed, TypeOK
  <2> QED BY <1>13, <2>1, <2>2 DEF DomainCrash, Typed, TypeOK, RowsNamed, QueueOK, HandlerOK
<1>14. CASE ServiceTimeout
  <2>1. domQ' \in Seq(Requests) /\ QueueOK'
    BY <1>14, DisownedOK DEF ServiceTimeout
  <2>2. fails' \in 0..MaxFaults
    BY <1>14, VirtualNetworkAssumption DEF ServiceTimeout, MayFail, Typed, TypeOK
  <2> QED BY <1>14, <2>1, <2>2 DEF ServiceTimeout, Typed, TypeOK, RowsNamed, HandlerOK, Replies
<1>15. CASE ServiceCrash
  <2>1. domQ' \in Seq(Requests) /\ QueueOK'
    BY <1>15, DisownedOK DEF ServiceCrash
  <2>2. job' \in Jobs /\ HandlerOK'
    <3>1. job.op # "none" /\ job \in Jobs
      BY <1>15 DEF ServiceCrash, Typed, TypeOK, HandlerOK
    <3>2. /\ job' = [job EXCEPT !.pc = "start", !.id = IF job.op = "create" THEN NoId ELSE job.id]
          /\ job' \in Jobs
      BY <1>15, <3>1 DEF ServiceCrash, Jobs
    <3>3. HandlerOK'
      BY <3>1, <3>2 DEF Typed, HandlerOK, Jobs
    <3> QED BY <3>2, <3>3
  <2>3. crashes' \in 0..MaxFaults
    BY <1>15, VirtualNetworkAssumption DEF ServiceCrash, MayFail, Typed, TypeOK
  <2>4. mon' \in Monitors /\ reply' \in Replies
    BY <1>15 DEF ServiceCrash, Monitors, IdleMonitor, Replies
  <2> QED BY <1>15, <2>1, <2>2, <2>3, <2>4 DEF ServiceCrash, Typed, TypeOK, RowsNamed
<1>16. CASE MonitorNames
  <2>1. mon' \in Monitors
    BY <1>16 DEF MonitorNames, Typed, TypeOK, Monitors
  <2> QED BY <1>16, <2>1 DEF MonitorNames, Typed, TypeOK, RowsNamed, QueueOK, HandlerOK
<1>17. CASE MonitorListed
  <2>1. mon' \in Monitors
    BY <1>17 DEF MonitorListed, Listed, Typed, TypeOK, Monitors
  <2> QED BY <1>17, <2>1 DEF MonitorListed, Typed, TypeOK, RowsNamed, QueueOK, HandlerOK
<1>18. CASE MonitorCollect
  <2>1. PICK n \in mon.todo :
          IF InLibvirt(n)
          THEN \E u \in Ids :
                 /\ nets[u].there /\ nets[u].name = n
                 /\ mon' = [mon EXCEPT !.todo = @ \ {n},
                              !.got = @ \cup {[id |-> u, name |-> n, active |-> nets[u].active]}]
          ELSE Dies
    BY <1>18 DEF MonitorCollect
  <2>2. CASE ~InLibvirt(n)
    BY <1>18, <2>1, <2>2, DeadType DEF MonitorCollect, Typed, TypeOK, RowsNamed, QueueOK, HandlerOK
  <2>3. CASE InLibvirt(n)
    <3>1. PICK u \in Ids :
            mon' = [mon EXCEPT !.todo = @ \ {n},
                      !.got = @ \cup {[id |-> u, name |-> n, active |-> nets[u].active]}]
      BY <2>1, <2>3
    <3>2. [id |-> u, name |-> n, active |-> nets[u].active] \in [id : Ids, name : Names, active : BOOLEAN]
      BY DEF Typed, TypeOK, Monitors, Nets
    <3>3. mon' \in Monitors
      BY <3>1, <3>2 DEF Typed, TypeOK, Monitors
    <3> QED BY <1>18, <3>3 DEF MonitorCollect, Typed, TypeOK, RowsNamed, QueueOK, HandlerOK
  <2> QED BY <2>2, <2>3
<1>19. CASE MonitorCommit
  <2>1. \A u \in Ids : rows'[u] \in Rows /\ (rows'[u].there => rows'[u].name \in Names)
    BY <1>19, MonitorCommitRows, AdoptedType DEF Typed, TypeOK, RowsNamed
  <2>2. rows' \in [Ids -> Rows] /\ RowsNamed'
    <3>1. rows' = [u \in Ids |-> rows'[u]]
      BY <1>19 DEF MonitorCommit, Typed, TypeOK
    <3> QED BY <2>1, <3>1 DEF RowsNamed
  <2>3. mon' \in Monitors
    BY <1>19, DeadType DEF MonitorCommit
  <2> QED BY <1>19, <2>2, <2>3 DEF MonitorCommit, Typed, TypeOK, QueueOK, HandlerOK
<1>20. CASE MonitorRaises
  <2>1. mon' \in Monitors
    BY <1>20, DeadType DEF MonitorRaises
  <2>2. fails' \in 0..MaxFaults
    BY <1>20, VirtualNetworkAssumption DEF MonitorRaises, MayFail, Typed, TypeOK
  <2> QED BY <1>20, <2>1, <2>2 DEF MonitorRaises, Typed, TypeOK, RowsNamed, QueueOK, HandlerOK
<1>21. CASE UNCHANGED vars
  BY <1>21 DEF vars, Typed, TypeOK, RowsNamed, QueueOK, HandlerOK
<1>22. CASE ApiRequest
  BY <1>1, <1>2, <1>22
  DEF ApiRequest, ApiCreate, ApiDelete, ApiTurn, ApiAddGroup, ApiDelGroup, ApiAddTag, Operations
<1> QED
  BY <1>3, <1>4, <1>5, <1>6, <1>7, <1>8, <1>9, <1>10, <1>11, <1>12, <1>13, <1>14, <1>15,
     <1>16, <1>17, <1>18, <1>19, <1>20, <1>21, <1>22
  DEF Next, HandlerStep, DomainStep, MonitorStep

-----------------------------------------------------------------------------
(* Deletions that wait *)

\* A request behind the others takes nothing away, unless it creates.
LEMMA CoveredSent ==
  ASSUME Typed, NEW r \in Requests, Send(r), UNCHANGED <<nets, kept>>, NEW u,
         Deletes(r, u) \/ (Covered(u) /\ ~Creates(r, u))
  PROVE  Covered(u)'
<1>1. /\ domQ' = Append(domQ, r) /\ Len(domQ) \in Nat
      /\ DOMAIN domQ = 1..Len(domQ) /\ DOMAIN domQ' = 1..(Len(domQ) + 1)
      /\ \A i \in DOMAIN domQ : domQ'[i] = domQ[i]
      /\ domQ'[Len(domQ) + 1] = r
  BY DEF Typed, TypeOK, Send
<1>2. CASE Deletes(r, u)
  <2>1. \A i \in DOMAIN domQ' : Creates(domQ'[i], u) => i < Len(domQ) + 1
    BY <1>1, <1>2 DEF Creates, Deletes
  <2> QED BY <1>1, <1>2, <2>1 DEF Covered
<1>3. CASE Covered(u) /\ ~Creates(r, u)
  BY <1>1, <1>3 DEF Covered
<1> QED BY <1>2, <1>3

\* What the domain does to a network, and that it takes a request from the queue.
Foretold(u) ==
  nets'[u].there => \/ Creates(Request, u)
                    \/ nets[u].there /\ ~Deletes(Request, u)

LEMMA CoveredServed ==
  ASSUME Typed, domQ # <<>>, domQ' = Tail(domQ), kept \subseteq kept', NEW u,
         Covered(u), u \in kept' \/ Foretold(u)
  PROVE  Covered(u)'
<1>1. CASE u \in kept'
  BY <1>1 DEF Covered
<1>2. CASE u \notin kept' /\ Foretold(u)
  <2>1. /\ Len(domQ) \in Nat /\ DOMAIN domQ = 1..Len(domQ) /\ DOMAIN domQ' = 1..(Len(domQ) - 1)
        /\ \A i \in DOMAIN domQ' : domQ'[i] = domQ[i + 1]
        /\ Request = domQ[1] /\ 1 \in DOMAIN domQ
    BY DEF Typed, TypeOK, Request
  <2>2. \A j \in DOMAIN domQ : j > 1 => j - 1 \in DOMAIN domQ' /\ domQ'[j - 1] = domQ[j]
    BY <2>1
  <2>3. nets'[u].there => \E i \in DOMAIN domQ' : Deletes(domQ'[i], u)
    <3>1. CASE Creates(Request, u)
      <4>1. PICK j \in DOMAIN domQ : 1 < j /\ Deletes(domQ[j], u)
        BY <1>2, <2>1, <3>1 DEF Covered
      <4> QED BY <2>2, <4>1
    <3>2. CASE nets[u].there /\ ~Deletes(Request, u)
      <4>1. PICK j \in DOMAIN domQ : Deletes(domQ[j], u)
        BY <1>2, <3>2 DEF Covered
      <4>2. j > 1
        BY <2>1, <3>2, <4>1
      <4> QED BY <2>2, <4>1, <4>2
    <3> QED BY <1>2, <3>1, <3>2 DEF Foretold
  <2>4. ASSUME NEW i \in DOMAIN domQ', Creates(domQ'[i], u)
        PROVE  \E j \in DOMAIN domQ' : i < j /\ Deletes(domQ'[j], u)
    <3>1. i + 1 \in DOMAIN domQ /\ Creates(domQ[i + 1], u) /\ i \in Nat
      BY <2>1, <2>4
    <3>2. PICK j \in DOMAIN domQ : i + 1 < j /\ Deletes(domQ[j], u)
      BY <1>2, <3>1 DEF Covered
    <3>3. j - 1 \in DOMAIN domQ' /\ domQ'[j - 1] = domQ[j] /\ i < j - 1
      BY <2>1, <2>2, <3>1, <3>2
    <3> QED BY <3>2, <3>3
  <2> QED BY <2>3, <2>4 DEF Covered
<1> QED BY <1>1, <1>2

LEMMA CoveredRedone ==
  ASSUME Typed, domQ # <<>>, UNCHANGED <<domQ, kept>>, NEW u, Covered(u), Foretold(u)
  PROVE  Covered(u)'
<1>1. Request = domQ[1] /\ 1 \in DOMAIN domQ
  BY DEF Typed, TypeOK, Request
<1> QED BY <1>1 DEF Covered, Foretold

LEMMA CoveredDisowned ==
  ASSUME Typed, domQ' = Disowned, UNCHANGED <<nets, kept>>, NEW u, Covered(u)
  PROVE  Covered(u)'
BY DisownedOK DEF Covered, Creates, Deletes

LEMMA EffectForetold ==
  ASSUME Typed, domQ # <<>>, Request.op # "exists", NEW u \in Ids,
         IF Refused THEN UNCHANGED nets ELSE nets' = [nets EXCEPT ![Request.id] = Effect]
  PROVE  Foretold(u)
<1>1. CASE Refused
  BY <1>1 DEF Foretold, Refused, Net, Creates, Deletes
<1>2. CASE ~Refused /\ u = Request.id
  BY <1>2, EffectType DEF Foretold, Net, Creates, Deletes, Typed, TypeOK
<1>3. CASE ~Refused /\ u # Request.id
  BY <1>3, EffectType DEF Foretold, Deletes, Typed, TypeOK
<1> QED BY <1>1, <1>2, <1>3

-----------------------------------------------------------------------------
(* No row, and a deletion that waits or failed *)

LEMMA InitCovered == Init => RowlessCovered
<1> SUFFICES ASSUME Init, NEW u \in Ids \ foreign PROVE Covered(u)
  BY DEF RowlessCovered
<1>1. ~nets[u].there
  BY DEF Init, NoNet
<1>2. domQ = <<>>
  BY DEF Init
<1> QED BY <1>1, <1>2 DEF Covered

\* A step that changes neither the queue nor libvirt, and takes no row away.
LEMMA RowsKept ==
  ASSUME RowlessCovered, UNCHANGED <<nets, domQ, kept, foreign>>,
         \A u \in Ids : (~rows[u].there)' \/ Leaving(u)' => ~rows[u].there \/ Leaving(u)
  PROVE  RowlessCovered'
BY DEF RowlessCovered, Covered

LEMMA CoveredStep == IInv /\ [Next]_vars => RowlessCovered'
<1> SUFFICES ASSUME IInv, [Next]_vars PROVE RowlessCovered'
  OBVIOUS
<1> USE DEF IInv, history
<1>1. ASSUME NEW n \in Names, NEW groups \in [Groups -> {"none", "plain"}], CreateNetwork(n, groups)
      PROVE  RowlessCovered'
  BY <1>1, RowsKept DEF CreateNetwork, Leaving, At, NoJob
<1>2. ASSUME NEW u \in Ids, NEW op \in Operations \ {"create"}, NEW g \in Groups \cup {NoGroup},
             AskFor(op, u, g)
      PROVE  RowlessCovered'
  BY <1>2, RowsKept DEF AskFor, Leaving, At, NoJob
<1>3. CASE CreateCheck
  <2>1. CASE InTable(job.name)
    BY <1>3, <2>1, RowsKept DEF CreateCheck, Done, Leaving, At, NoJob
  <2>2. CASE ~InTable(job.name)
    <3> DEFINE r == [op |-> "exists", id |-> NoId, name |-> job.name, groups |-> NoGroups,
                     group |-> NoGroup, owner |-> "svc"]
    <3>1. r \in Requests /\ \A u : ~Creates(r, u)
      BY <1>3, EmptyType DEF CreateCheck, At, Typed, HandlerOK, Requests, Creates
    <3>2. Send(r)
      BY <1>3, <2>2 DEF CreateCheck
    <3> HIDE DEF r
    <3>3. \A u : Covered(u) => Covered(u)'
      BY <1>3, <3>1, <3>2, CoveredSent DEF CreateCheck
    <3> QED BY <1>3, <2>2, <3>3 DEF CreateCheck, Goto, RowlessCovered, Leaving, At, Typed, TypeOK, Jobs
  <2> QED BY <2>1, <2>2
<1>4. CASE CreateChecked
  BY <1>4, RowsKept DEF CreateChecked, Goto, Done, Leaving, At, NoJob, Typed, TypeOK, Jobs
<1>5. CASE CreateInsert
  <2>1. PICK v \in Ids :
          /\ rows' = [rows EXCEPT ![v] = [NoRow EXCEPT !.there = TRUE, !.name = job.name,
                                                       !.groups = job.groups]]
          /\ Send([op |-> "create", id |-> v, name |-> job.name, groups |-> job.groups,
                   group |-> NoGroup, owner |-> "svc"])
          /\ job' = [job EXCEPT !.id = v, !.pc = "domain"]
    BY <1>5 DEF CreateInsert
  <2> DEFINE r == [op |-> "create", id |-> v, name |-> job.name, groups |-> job.groups,
                   group |-> NoGroup, owner |-> "svc"]
  <2>2. r \in Requests /\ \A u : Creates(r, u) => u = v
    BY <1>5 DEF CreateInsert, At, Typed, TypeOK, Jobs, HandlerOK, Requests, Operations, Creates
  <2>3. Send(r)
    BY <2>1
  <2> HIDE DEF r
  <2>4. \A u : Covered(u) /\ u # v => Covered(u)'
    BY <1>5, <2>2, <2>3, CoveredSent DEF CreateInsert
  <2>5. \A u \in Ids : rows'[u].there <=> u = v \/ rows[u].there
    BY <2>1 DEF Typed, TypeOK, NoRow
  <2>6. \A u : ~Leaving(u)'
    BY <1>5, <2>1 DEF CreateInsert, Leaving, At, Typed, TypeOK, Jobs
  <2> QED BY <1>5, <2>4, <2>5, <2>6 DEF CreateInsert, RowlessCovered
<1>6. CASE CallDomain
  <2>1. CASE Accepted
    <3>1. rows[job.id].there /\ job.id \in Ids /\ job.op \in Operations \ {"create", "delete"}
          /\ job.group \in Groups \cup {NoGroup}
      BY <1>6, <2>1 DEF Accepted, CallDomain, Typed, TypeOK, HandlerOK, Jobs, Operations
    <3>2. Send(ToDomain(job.op, job.id, job.group, "svc"))
      BY <1>6, <2>1 DEF CallDomain
    <3>3. ToDomain(job.op, job.id, job.group, "svc") \in Requests
          /\ \A u : ~Creates(ToDomain(job.op, job.id, job.group, "svc"), u)
      BY <3>1, RowRequest DEF Creates
    <3>4. \A u : Covered(u) => Covered(u)'
      BY <1>6, <3>2, <3>3, CoveredSent DEF CallDomain
    <3> QED BY <1>6, <2>1, <3>4 DEF CallDomain, Goto, RowlessCovered, Leaving, At, Typed, TypeOK, Jobs
  <2>2. CASE ~Accepted
    BY <1>6, <2>2, RowsKept DEF CallDomain, Done, Leaving, At, NoJob
  <2> QED BY <2>1, <2>2
<1>7. CASE DomainAnswered
  <2>1. \A u \in Ids : rows'[u].there = rows[u].there
    <3>1. CASE reply \in {"active", "inactive"}
      <4>1. job.id \in Ids /\ rows[job.id] \in Rows
        BY <1>7 DEF DomainAnswered, Typed, TypeOK, HandlerOK
      <4>2. rows' = [rows EXCEPT ![job.id] = Changed(rows[job.id])]
        BY <1>7, <3>1 DEF DomainAnswered
      <4> QED BY <3>1, <4>1, <4>2, RowType DEF Typed, TypeOK
    <3>2. CASE reply \notin {"active", "inactive"}
      BY <1>7, <3>2 DEF DomainAnswered
    <3> QED BY <3>1, <3>2
  <2> QED BY <1>7, <2>1, RowsKept DEF DomainAnswered, Done, Leaving, At, NoJob
<1>8. CASE DeleteCast
  <2>1. CASE rows[job.id].there
    <3>1. job.id \in Ids
      BY <1>8 DEF DeleteCast, At, Typed, HandlerOK
    <3> DEFINE r == ToDomain("delete", job.id, NoGroup, "none")
    <3>2. r \in Requests /\ r.op = "delete" /\ r.id = job.id
      BY <2>1, <3>1, RowRequest DEF Operations
    <3>3. Send(r)
      BY <1>8, <2>1 DEF DeleteCast
    <3> HIDE DEF r
    <3>4. \A u : Covered(u) \/ u = job.id => Covered(u)'
      BY <1>8, <3>2, <3>3, CoveredSent DEF DeleteCast, Creates, Deletes
    <3>5. \A u : Leaving(u)' => u = job.id
      BY <1>8, <2>1 DEF DeleteCast, Goto, Leaving, At, Typed, TypeOK, Jobs
    <3> QED BY <1>8, <3>4, <3>5 DEF DeleteCast, RowlessCovered
  <2>2. CASE ~rows[job.id].there
    BY <1>8, <2>2, RowsKept DEF DeleteCast, Done, Leaving, At, NoJob
  <2> QED BY <2>1, <2>2
<1>9. CASE DeleteRow
  <2>1. \A u \in Ids : ~rows'[u].there => ~rows[u].there \/ Leaving(u)
    BY <1>9 DEF DeleteRow, Leaving, Typed, TypeOK
  <2> QED BY <1>9, <2>1, RowsKept DEF DeleteRow, Done, Leaving, At, NoJob
<1>10. CASE DomainExists
  <2>1. \A u : Covered(u) => Covered(u)'
    BY <1>10, CoveredServed DEF DomainExists, Answer, Foretold, Deletes
  <2> QED BY <1>10, <2>1 DEF DomainExists, RowlessCovered, Leaving, At
<1>11. CASE DomainDoes
  <2>1. \A u \in Ids : Foretold(u)
    BY <1>11, EffectForetold DEF DomainDoes
  <2>2. \A u \in Ids : Covered(u) => Covered(u)'
    BY <1>11, <2>1, CoveredServed DEF DomainDoes, Answer
  <2> QED BY <1>11, <2>2 DEF DomainDoes, RowlessCovered, Leaving, At
<1>12. CASE DomainFails
  <2>1. ASSUME NEW u \in Ids PROVE u \in kept' \/ Foretold(u)
    <3>1. CASE Deletes(Request, u)
      <4>1. nets[u].there => u \in kept'
        BY <1>12, <3>1 DEF DomainFails, Deletes, Net
      <4>2. nets'[u].there => nets[u].there
        BY <1>12, <3>1 DEF DomainFails, Deletes, Typed, TypeOK, Nets
      <4> QED BY <4>1, <4>2 DEF Foretold
    <3>2. CASE ~Deletes(Request, u)
      <4>1. CASE UNCHANGED nets
        BY <3>2, <4>1 DEF Foretold
      <4>2. CASE Request.op \notin {"exists", "delete"} /\ ~Refused
                 /\ nets' = [nets EXCEPT ![Request.id] = Effect]
        BY <1>12, <4>2, EffectForetold DEF DomainFails
      <4>3. CASE Request.op = "delete" /\ nets' = [nets EXCEPT ![Request.id].active = FALSE]
        BY <3>2, <4>3 DEF Foretold, Deletes, Typed, TypeOK
      <4> QED BY <1>12, <4>1, <4>2, <4>3 DEF DomainFails
    <3> QED BY <3>1, <3>2
  <2>2. \A u \in Ids : Covered(u) => Covered(u)'
    BY <1>12, <2>1, CoveredServed DEF DomainFails, Answer
  <2> QED BY <1>12, <2>2 DEF DomainFails, RowlessCovered, Leaving, At
<1>13. CASE DomainCrash
  <2>1. \A u \in Ids : Covered(u) => Covered(u)'
    <3>1. CASE UNCHANGED nets
      BY <1>13, <3>1 DEF DomainCrash, Covered
    <3>2. CASE Request.op # "exists" /\ ~Refused /\ nets' = [nets EXCEPT ![Request.id] = Effect]
      BY <1>13, <3>2, EffectForetold, CoveredRedone DEF DomainCrash
    <3> QED BY <1>13, <3>1, <3>2 DEF DomainCrash
  <2> QED BY <1>13, <2>1 DEF DomainCrash, RowlessCovered, Leaving, At
<1>14. CASE ServiceTimeout
  <2>1. \A u : Covered(u) => Covered(u)'
    BY <1>14, CoveredDisowned DEF ServiceTimeout
  <2> QED BY <1>14, <2>1 DEF ServiceTimeout, RowlessCovered, Leaving, At
<1>15. CASE ServiceCrash
  <2>1. \A u : Covered(u) => Covered(u)'
    BY <1>15, CoveredDisowned DEF ServiceCrash
  <2>2. \A u : ~Leaving(u)'
    BY <1>15 DEF ServiceCrash, Leaving, At, Typed, TypeOK, Jobs
  <2> QED BY <1>15, <2>1, <2>2 DEF ServiceCrash, RowlessCovered
<1>16. CASE MonitorNames
  BY <1>16, RowsKept DEF MonitorNames, Leaving, At
<1>17. CASE MonitorListed
  BY <1>17, RowsKept DEF MonitorListed, Leaving, At
<1>18. CASE MonitorCollect
  BY <1>18, RowsKept DEF MonitorCollect, Leaving, At
<1>19. CASE MonitorCommit
  <2>1. \A u \in Ids : rows[u].there => rows'[u].there
    BY <1>19, MonitorCommitRows, AdoptedType
  <2> QED BY <1>19, <2>1, RowsKept DEF MonitorCommit, Leaving, At
<1>20. CASE MonitorRaises
  BY <1>20, RowsKept DEF MonitorRaises, Leaving, At
<1>21. CASE UNCHANGED vars
  BY <1>21, RowsKept DEF vars, Leaving, At
<1>22. CASE ApiRequest
  BY <1>1, <1>2, <1>22
  DEF ApiRequest, ApiCreate, ApiDelete, ApiTurn, ApiAddGroup, ApiDelGroup, ApiAddTag, Operations
<1> QED
  BY <1>3, <1>4, <1>5, <1>6, <1>7, <1>8, <1>9, <1>10, <1>11, <1>12, <1>13, <1>14, <1>15,
     <1>16, <1>17, <1>18, <1>19, <1>20, <1>21, <1>22
  DEF Next, HandlerStep, DomainStep, MonitorStep

-----------------------------------------------------------------------------
(* The theorems *)

THEOREM Invariance == Spec => []IInv
<1>1. Init => IInv
  BY InitTyped, InitCovered DEF IInv
<1>2. IInv /\ [Next]_vars => IInv'
  BY TypedStep, CoveredStep DEF IInv
<1> QED BY <1>1, <1>2, PTL DEF Spec

\* Every variable keeps its type, for any networks, names and port groups: rows,
\* libvirt's networks, the request in hand, the domain queue and the thread.
THEOREM TypeCorrect == Spec => []TypeOK
<1>1. IInv => TypeOK
  BY DEF IInv, Typed
<1> QED BY <1>1, Invariance, PTL

\* A libvirt network of this program has a row, or its deletion waits or has
\* failed, for any number of networks, failures, timeouts and crashes: the cast of
\* delete_virtual_network stands behind every creation that timed out.
THEOREM NoneLeftBehind == Spec => []NoOrphan
<1>1. IInv => NoOrphan
  <2> SUFFICES ASSUME IInv, NEW u \in Ids \ foreign, nets[u].there, ~rows[u].there
               PROVE  u \in kept \/ \E i \in DOMAIN domQ : domQ[i].op = "delete" /\ domQ[i].id = u
    BY DEF NoOrphan
  <2>1. Covered(u)
    BY DEF IInv, RowlessCovered
  <2> QED BY <2>1 DEF Covered, Deletes
<1> QED BY <1>1, Invariance, PTL
-----------------------------------------------------------------------------
(* Rows and libvirt agree *)

\* The row of a network that was made here, and not adopted.
Own(u) == rows[u].there /\ ~rows[u].adopted

Turns == {"on", "off"}
Regroups == {"add_group", "del_group", "add_tag"}

\* The handler is changing u, and the service layer accepts it.
Changing(u) == job.op \in Turns \cup Regroups /\ job.id = u /\ Accepted
Going(u) == job.op = "delete" /\ job.id = u

\* The port groups u has when the change has been made.
Target(u) == [g \in Groups |->
  CASE job.op = "add_group" /\ g = job.group -> "plain"
    [] job.op = "del_group" /\ g = job.group -> "none"
    [] job.op = "add_tag" /\ g = job.group -> "tagged"
    [] OTHER -> rows[u].groups[g]]

\* libvirt does not refuse the port groups of u to be changed.
Open(u) ==
  /\ ~nets[u].active
  /\ job.op = "add_tag" => job.group \in Trunks /\ Has(rows[u].groups, job.group)

Plain(u) ==
  /\ nets[u].groups = rows[u].groups
  /\ rows[u].state \in {"null", State(nets[u])}

\* The change may have been made already, by a request that is made again.
Agrees(u) ==
  \/ Plain(u)
  \/ /\ Changing(u) /\ job.op \in Turns
     /\ nets[u].groups = rows[u].groups
  \/ /\ Changing(u) /\ job.op \in Regroups /\ Open(u)
     /\ nets[u].groups = Target(u)
     /\ rows[u].state \in {"null", State(nets[u])}

\* The request the handler waits for is its own, and the last; when it has been
\* answered the queue is empty.
CallsOK ==
  /\ job.op = "delete" => job.pc \in {"start", "remove"}
  /\ reply # "none" => domQ = <<>> /\ job.pc \in {"exists", "domain"}
  /\ \A i \in DOMAIN domQ : domQ[i].owner = "svc" =>
       /\ i = Len(domQ)
       /\ \/ domQ[i].op = "exists" /\ job.pc = "exists"
          \/ job.pc = "domain" /\ domQ[i].op = job.op /\ domQ[i].id = job.id

\* A change that waits is the one the handler is at, a creation brings what the
\* row still has, a deletion is not over.
LateOK(r) ==
  /\ r.op \in Turns \cup Regroups =>
       /\ job.op = r.op /\ job.id = r.id /\ job.group = r.group /\ Accepted
       /\ r.groups = rows[r.id].groups
  /\ r.op = "create" /\ Own(r.id) => r.groups = rows[r.id].groups /\ rows[r.id].state = "null"
  /\ r.op = "delete" /\ Own(r.id) => Going(r.id)
LateRequests == \A i \in DOMAIN domQ : LateOK(domQ[i])

Agreeing == \A u \in Ids : Own(u) /\ nets[u].there /\ ~Going(u) => Agrees(u)

\* What the row becomes is what libvirt has.
Answered ==
  reply # "none" /\ job.pc = "domain" /\ Own(job.id) /\ nets[job.id].there =>
    IF reply \in {"active", "inactive"}
    THEN nets[job.id].groups = Target(job.id) /\ reply = State(nets[job.id])
    ELSE Plain(job.id)

Following == CallsOK /\ LateRequests /\ Agreeing /\ Answered

\* The handler goes on with the same request.
SameRequest ==
  /\ UNCHANGED <<rows, nets>>
  /\ job'.op = job.op /\ job'.id = job.id /\ job'.group = job.group

LEMMA GoesOn ==
  ASSUME SameRequest
  PROVE  /\ Agreeing => Agreeing'
         /\ \A r : LateOK(r) => LateOK(r)'
<1> USE DEF SameRequest
<1>1. Accepted' = Accepted
  BY DEF Accepted
<1>2. \A u : /\ Own(u)' = Own(u) /\ Going(u)' = Going(u) /\ Changing(u)' = Changing(u)
             /\ Open(u)' = Open(u) /\ Plain(u)' = Plain(u)
  BY <1>1 DEF Own, Going, Changing, Open, Plain
<1>3. \A u : Target(u)' = Target(u)
  BY DEF Target
<1>4. \A u : Agrees(u)' = Agrees(u)
  BY <1>2, <1>3 DEF Agrees
<1> QED BY <1>1, <1>2, <1>4 DEF Agreeing, LateOK

\* Where nothing is being changed, row and network agree plainly.
LEMMA Settled ==
  ASSUME Agreeing, NEW u \in Ids, Own(u), nets[u].there, ~Going(u), ~Changing(u)
  PROVE  Plain(u)
BY DEF Agreeing, Agrees

LEMMA StaysPlain ==
  ASSUME UNCHANGED <<rows, nets>>, NEW u, Plain(u)
  PROVE  Agrees(u)'
BY DEF Plain, Agrees

\* A handler that changes nothing ends, or another begins.
LEMMA EndsPlain ==
  ASSUME UNCHANGED <<rows, nets>>, Agreeing,
         \A u \in Ids : ~Changing(u) /\ (Going(u) => Going(u)' \/ ~Own(u))
  PROVE  Agreeing'
<1> SUFFICES ASSUME NEW u \in Ids, Own(u)', nets'[u].there, ~Going(u)' PROVE Agrees(u)'
  BY DEF Agreeing
<1>1. Own(u) /\ nets[u].there /\ ~Going(u)
  BY DEF Own
<1>2. Plain(u)
  BY <1>1, Settled
<1> QED BY <1>2, StaysPlain

\* The domain queue, appended to and served.
LEMMA AfterSend ==
  ASSUME Typed, CallsOK, job.pc \notin {"exists", "domain"}, NEW r \in Requests, Send(r)
  PROVE  /\ \A i \in DOMAIN domQ : domQ[i].owner # "svc"
         /\ DOMAIN domQ' = 1..Len(domQ') /\ Len(domQ') \in Nat
         /\ \A i \in DOMAIN domQ' : \/ i \in DOMAIN domQ /\ domQ'[i] = domQ[i]
                                    \/ i = Len(domQ') /\ domQ'[i] = r
BY DEF Typed, TypeOK, CallsOK, Send

LEMMA AfterServe ==
  ASSUME Typed, CallsOK, domQ # <<>>, domQ' = Tail(domQ)
  PROVE  /\ DOMAIN domQ = 1..Len(domQ) /\ Len(domQ) \in Nat /\ Len(domQ') = Len(domQ) - 1
         /\ \A i \in DOMAIN domQ' : i + 1 \in DOMAIN domQ /\ domQ'[i] = domQ[i + 1]
         /\ Request = domQ[1] /\ 1 \in DOMAIN domQ
         /\ Request.owner = "svc" => domQ' = <<>>
<1>1. /\ DOMAIN domQ = 1..Len(domQ) /\ Len(domQ) \in Nat /\ Len(domQ') = Len(domQ) - 1
      /\ DOMAIN domQ' = 1..(Len(domQ) - 1)
      /\ \A i \in DOMAIN domQ' : domQ'[i] = domQ[i + 1]
      /\ Request = domQ[1] /\ 1 \in DOMAIN domQ
  BY DEF Typed, TypeOK, Request
<1>2. Request.owner = "svc" => Len(domQ) = 1
  BY <1>1 DEF CallsOK
<1>3. Request.owner = "svc" => domQ' = <<>>
  BY <1>2 DEF Typed, TypeOK
<1> QED BY <1>1, <1>3

\* What a request that is not refused makes of its network, in terms of the row.
LEMMA EffectFields ==
  ASSUME Typed, domQ # <<>>, Request.op # "exists", LateOK(Request), ~Refused, Own(Request.id)
  PROVE  /\ Request.op = "create" => Effect.groups = rows[Request.id].groups
         /\ Request.op \in Turns => Net.there /\ Effect.groups = Net.groups
                                    /\ Target(Request.id) = rows[Request.id].groups
         /\ Request.op \in Regroups =>
              /\ Net.there /\ Open(Request.id)
              /\ Effect.active = Net.active /\ Effect.groups = Target(Request.id)
<1>1. Request \in Requests /\ Request.id \in Ids
  BY QueueType DEF Request, RequestOK
<1>2. Net \in Nets /\ Net = nets[Request.id] /\ rows[Request.id].groups \in PortGroups
  BY <1>1 DEF Net, Typed, TypeOK, Rows
<1>3. CASE Request.op = "create"
  <2>1. Wanted = [g \in Groups |-> Request.groups[g]]
    BY <1>3 DEF Wanted
  <2>2. Wanted = Request.groups
    BY <1>1, <2>1 DEF Requests, PortGroups
  <2>3. Effect.groups = Wanted
    BY <1>3 DEF Effect
  <2> QED BY <1>3, <2>2, <2>3 DEF LateOK, Turns, Regroups
<1>4. CASE Request.op \in Turns
  <2>1. Net.there /\ Effect.groups = Net.groups
    BY <1>2, <1>4 DEF Refused, Effect, Nets, Turns
  <2>2. job.op \in Turns
    BY <1>4 DEF LateOK, Regroups, Turns
  <2>3. Target(Request.id) = [g \in Groups |-> rows[Request.id].groups[g]]
    BY <2>2 DEF Target, Turns
  <2>4. Target(Request.id) = rows[Request.id].groups
    BY <1>2, <2>3 DEF PortGroups
  <2> QED BY <1>4, <2>1, <2>4 DEF Turns, Regroups
<1>5. CASE Request.op \in Regroups
  <2>1. Request.op = job.op /\ Request.group = job.group
        /\ Request.groups = rows[Request.id].groups
    BY <1>5 DEF LateOK
  <2>2. Wanted = Target(Request.id)
    BY <2>1 DEF Wanted, Target
  <2>3. Effect = [Net EXCEPT !.groups = Wanted]
    BY <1>5 DEF Effect, Regroups
  <2>4. Effect.active = Net.active /\ Effect.groups = Wanted
    BY <1>2, <2>3 DEF Nets
  <2>5. Net.there /\ ~Net.active
    BY <1>5 DEF Refused, Regroups
  <2>6. job.op = "add_tag" => job.group \in Trunks /\ Has(rows[Request.id].groups, job.group)
    BY <2>1 DEF Refused
  <2> QED BY <1>2, <1>5, <2>2, <2>4, <2>5, <2>6 DEF Open, Turns, Regroups
<1> QED BY <1>1, <1>3, <1>4, <1>5 DEF Requests, Operations, Turns, Regroups

\* Done once or again, a request leaves row and network as they should be.
LEMMA EffectAgrees ==
  ASSUME Typed, domQ # <<>>, Request.op # "exists", LateOK(Request), Agreeing,
         UNCHANGED <<rows, job>>,
         IF Refused THEN UNCHANGED nets ELSE nets' = [nets EXCEPT ![Request.id] = Effect]
  PROVE  Agreeing'
<1> SUFFICES ASSUME NEW u \in Ids, Own(u)', nets'[u].there, ~Going(u)' PROVE Agrees(u)'
  BY DEF Agreeing
<1>1. Own(u) /\ ~Going(u)
  BY DEF Own, Going
<1>2. /\ Changing(u)' = Changing(u) /\ Target(u)' = Target(u)
      /\ Changing(u) => Accepted'
  BY DEF Changing, Accepted, Target
<1>3. CASE Refused \/ u # Request.id
  <2>1. nets'[u] = nets[u]
    BY <1>3 DEF Typed, TypeOK
  <2>2. Agrees(u)
    BY <1>1, <2>1 DEF Agreeing
  <2>3. Open(u)' = Open(u) /\ Plain(u)' = Plain(u)
    BY <2>1 DEF Open, Plain, State
  <2> QED BY <1>2, <2>1, <2>2, <2>3 DEF Agrees, State
<1>4. CASE ~Refused /\ u = Request.id
  <2>1. nets'[u] = Effect /\ Net = nets[u]
    BY <1>4 DEF Net, Typed, TypeOK
  <2>2. CASE Request.op = "create"
    <3>1. Effect.groups = rows[u].groups /\ rows[u].state = "null"
      BY <1>1, <1>4, <2>2, EffectFields DEF LateOK
    <3> QED BY <2>1, <3>1 DEF Agrees, Plain
  <2>3. CASE Request.op \in Turns
    <3>1. Net.there /\ Effect.groups = Net.groups /\ Target(u) = rows[u].groups
      BY <1>1, <1>4, <2>3, EffectFields
    <3>2. job.op \in Turns /\ Changing(u)
      BY <1>4, <2>3 DEF LateOK, Changing, Turns
    <3>3. Agrees(u)
      BY <1>1, <2>1, <3>1 DEF Agreeing
    <3>4. nets[u].groups = rows[u].groups
      BY <3>1, <3>3 DEF Agrees, Plain
    <3> QED BY <1>2, <2>1, <3>1, <3>2, <3>4 DEF Agrees
  <2>4. CASE Request.op \in Regroups
    <3>1. Net.there /\ Open(u) /\ Effect.active = Net.active /\ Effect.groups = Target(u)
      BY <1>1, <1>4, <2>4, EffectFields
    <3>2. job.op \in Regroups /\ Changing(u)
      BY <1>4, <2>4 DEF LateOK, Changing, Regroups
    <3>3. Agrees(u)
      BY <1>1, <2>1, <3>1 DEF Agreeing
    <3>4. rows[u].state \in {"null", State(nets[u])}
      BY <3>2, <3>3 DEF Agrees, Plain, Turns, Regroups
    <3>5. Open(u)' /\ State(nets[u])' = State(nets[u])
      BY <2>1, <3>1 DEF Open, State
    <3> QED BY <1>2, <2>1, <3>1, <3>2, <3>4, <3>5 DEF Agrees, State
  <2>5. CASE Request.op = "delete"
    BY <1>4, <2>1, <2>5 DEF Effect, NoNet
  <2> QED BY <2>2, <2>3, <2>4, <2>5, QueueType DEF Request, Requests, Operations, Turns, Regroups
<1> QED BY <1>3, <1>4

\* What the handler is told of its own request is true of the network.
LEMMA AnswerRight ==
  ASSUME Typed, domQ # <<>>, Request.op # "exists", LateOK(Request), Agreeing,
         UNCHANGED <<rows, job>>,
         IF Refused THEN UNCHANGED nets ELSE nets' = [nets EXCEPT ![Request.id] = Effect],
         job.pc = "domain", job.op # "delete", Request.op = job.op, Request.id = job.id,
         Own(job.id), nets'[job.id].there
  PROVE  IF Refused THEN Plain(job.id)'
         ELSE nets'[job.id].groups = Target(job.id) /\ State(Effect) = State(nets'[job.id])
<1>1. job.id \in Ids
  BY DEF Typed, HandlerOK
<1>2. CASE Refused
  <2>1. Agrees(job.id)
    BY <1>1, <1>2 DEF Agreeing, Going
  <2>2. job.op \notin Turns
    BY <1>2 DEF Refused, Net, Turns
  <2>3. ~(job.op \in Regroups /\ Open(job.id))
    <3> SUFFICES ASSUME job.op \in Regroups, Open(job.id) PROVE FALSE
      OBVIOUS
    <3>1. Request.group = job.group /\ Request.groups = rows[job.id].groups
      BY DEF LateOK
    <3> QED BY <1>2, <3>1 DEF Refused, Net, Open, Regroups
  <2> QED BY <1>2, <2>1, <2>2, <2>3 DEF Agrees, Plain
<1>3. CASE ~Refused
  <2>1. nets'[job.id] = Effect
    BY <1>1, <1>3 DEF Typed, TypeOK
  <2>2. CASE Request.op = "create"
    <3>1. Effect.groups = rows[job.id].groups /\ rows[job.id].groups \in PortGroups
      BY <1>1, <1>3, <2>2, EffectFields DEF Typed, TypeOK, Rows
    <3>2. Target(job.id) = [g \in Groups |-> rows[job.id].groups[g]]
      BY <2>2 DEF Target
    <3> QED BY <1>3, <2>1, <3>1, <3>2 DEF PortGroups
  <2>3. CASE Request.op \in Turns
    <3>1. Net.there /\ Effect.groups = nets[job.id].groups /\ Target(job.id) = rows[job.id].groups
      BY <1>3, <2>3, EffectFields DEF Net
    <3>2. Agrees(job.id)
      BY <1>1, <3>1 DEF Agreeing, Going, Net
    <3>3. nets[job.id].groups = rows[job.id].groups
      BY <3>1, <3>2 DEF Agrees, Plain
    <3> QED BY <1>3, <2>1, <3>1, <3>3
  <2>4. CASE Request.op \in Regroups
    BY <1>3, <2>1, <2>4, EffectFields
  <2> QED BY <2>2, <2>3, <2>4, QueueType DEF Request, Requests, Operations, Turns, Regroups
<1> QED BY <1>2, <1>3

LEMMA FailsCount ==
  ASSUME Typed, [Next]_vars, fails' = 0
  PROVE  fails = 0 /\ ~DomainFails /\ ~ServiceTimeout /\ ~MonitorRaises
<1>1. fails \in Nat
  BY VirtualNetworkAssumption DEF Typed, TypeOK
<1>2. ~DomainFails /\ ~ServiceTimeout /\ ~MonitorRaises
  BY <1>1 DEF DomainFails, ServiceTimeout, MonitorRaises
<1>3. ApiRequest \/ HandlerStep => UNCHANGED fails
  BY DEF ApiRequest, ApiCreate, ApiDelete, ApiTurn, ApiAddGroup, ApiDelGroup, ApiAddTag, CreateNetwork,
         AskFor, HandlerStep, CreateCheck, CreateChecked, CreateInsert, CallDomain, DomainAnswered,
         DeleteCast, DeleteRow, history
<1>4. DomainStep \/ MonitorStep \/ DomainCrash \/ ServiceCrash => UNCHANGED fails
  BY DEF DomainStep, DomainExists, DomainDoes, MonitorStep, MonitorNames, MonitorListed,
         MonitorCollect, MonitorCommit, DomainCrash, ServiceCrash, history
<1> QED BY <1>2, <1>3, <1>4 DEF Next, vars

\* The thread only adopts networks that have no row.
LEMMA AdoptedRows ==
  ASSUME Typed, MonitorCommit
  PROVE  \A u \in Ids : /\ rows[u].there => rows'[u] = rows[u]
                        /\ Own(u)' => rows'[u] = rows[u]
<1>1. CASE \E g \in mon.got : rows[g.id].there
  BY <1>1 DEF MonitorCommit
<1>2. CASE ~\E g \in mon.got : rows[g.id].there
  <2> SUFFICES ASSUME NEW u \in Ids
               PROVE  /\ rows[u].there => rows'[u] = rows[u]
                      /\ Own(u)' => rows'[u] = rows[u]
    OBVIOUS
  <2>1. CASE rows'[u] = rows[u]
    BY <2>1
  <2>2. CASE rows'[u] = Adopted(u) /\ \E g \in mon.got : g.id = u
    <3>1. ~rows[u].there
      BY <1>2, <2>2
    <3>2. Adopted(u).adopted
      BY DEF Adopted
    <3> QED BY <2>2, <3>1, <3>2 DEF Own
  <2> QED BY <2>1, <2>2, MonitorCommitRows
<1> QED BY <1>1, <1>2

LEMMA LateNext ==
  ASSUME \A i \in DOMAIN domQ' : \E q : q = domQ'[i] /\ LateOK(q)'
  PROVE  LateRequests'
BY DEF LateRequests, LateOK, Own, Going, Accepted

\* The handler ends without having changed anything.
LEMMA FollowingEnds ==
  ASSUME Typed, Following, job' = NoJob, UNCHANGED <<rows, nets, domQ>>, reply' = "none",
         \A i \in DOMAIN domQ : domQ[i].owner # "svc",
         \A u \in Ids : ~Changing(u) /\ (Going(u) => ~Own(u))
  PROVE  Following'
<1>1. CallsOK' /\ Answered'
  BY DEF CallsOK, Answered, NoJob
<1>2. LateRequests'
  <2> SUFFICES ASSUME NEW i \in DOMAIN domQ PROVE LateOK(domQ[i])'
    BY DEF LateRequests
  <2>1. LateOK(domQ[i]) /\ RequestOK(domQ[i])
    BY DEF Following, LateRequests, Typed, QueueOK
  <2>2. domQ[i].op \notin Turns \cup Regroups
    BY <2>1 DEF LateOK, RequestOK, Changing, Turns, Regroups
  <2>3. domQ[i].op \in {"create", "delete"} => domQ[i].id \in Ids
    BY <2>1 DEF RequestOK
  <2> QED BY <2>1, <2>2, <2>3 DEF LateOK, Own, Going
<1>3. Agreeing'
  BY EndsPlain DEF Following
<1> QED BY <1>1, <1>2, <1>3 DEF Following

\* The handler sends a request and waits for it, or goes on.
LEMMA FollowingSends ==
  ASSUME Typed, Following, SameRequest, UNCHANGED reply, NEW r \in Requests, Send(r),
         job.pc \notin {"exists", "domain"},
         job'.op = "delete" => job'.pc \in {"start", "remove"},
         r.owner = "svc" => \/ r.op = "exists" /\ job'.pc = "exists"
                            \/ job'.pc = "domain" /\ r.op = job'.op /\ r.id = job'.id,
         LateOK(r)
  PROVE  Following'
<1>1. reply = "none"
  BY DEF Following, CallsOK
<1>2. CallsOK' /\ Answered'
  BY <1>1, AfterSend DEF Following, CallsOK, Answered
<1>3. LateRequests'
  <2>1. \A q : LateOK(q) => LateOK(q)'
    BY GoesOn
  <2>2. \A i \in DOMAIN domQ' : LateOK(domQ'[i])
    BY AfterSend DEF Following, LateRequests
  <2> QED BY <2>1, <2>2, LateNext
<1>4. Agreeing'
  BY GoesOn DEF Following
<1> QED BY <1>2, <1>3, <1>4 DEF Following

\* The domain has served a request.
LEMMA FollowingServed ==
  ASSUME Typed, Following, domQ # <<>>, UNCHANGED <<rows, job>>, NEW answer \in Replies, Answer(answer),
         Agreeing', answer # "none",
         Request.owner = "svc" /\ job.pc = "domain" /\ Own(job.id) /\ nets'[job.id].there =>
           IF answer \in {"active", "inactive"}
           THEN nets'[job.id].groups = Target(job.id) /\ answer = State(nets'[job.id])
           ELSE Plain(job.id)'
  PROVE  Following'
<1>1. domQ' = Tail(domQ) /\ reply = "none"
  BY DEF Answer, Following, CallsOK
<1>2. /\ DOMAIN domQ = 1..Len(domQ) /\ Len(domQ) \in Nat /\ Len(domQ') = Len(domQ) - 1
      /\ \A i \in DOMAIN domQ' : i + 1 \in DOMAIN domQ /\ domQ'[i] = domQ[i + 1]
      /\ Request = domQ[1] /\ 1 \in DOMAIN domQ
      /\ Request.owner = "svc" => domQ' = <<>>
      /\ DOMAIN domQ' = 1..Len(domQ')
  BY <1>1, AfterServe, QueueType DEF Following
<1>3. CallsOK'
  <2>1. reply' # "none" => Request.owner = "svc"
    BY <1>1 DEF Answer
  <2>2. Request.owner = "svc" => job.pc \in {"exists", "domain"}
    BY <1>2 DEF Following, CallsOK
  <2>3. \A i \in DOMAIN domQ' : domQ'[i].owner = "svc" =>
          /\ i = Len(domQ')
          /\ \/ domQ'[i].op = "exists" /\ job.pc = "exists"
             \/ job.pc = "domain" /\ domQ'[i].op = job.op /\ domQ'[i].id = job.id
    BY <1>2 DEF Following, CallsOK
  <2> QED BY <1>2, <2>1, <2>2, <2>3 DEF Following, CallsOK
<1>4. LateRequests'
  <2>1. \A i \in DOMAIN domQ' : LateOK(domQ'[i])
    BY <1>2 DEF Following, LateRequests
  <2>2. \A q : LateOK(q) => LateOK(q)'
    BY DEF LateOK, Accepted, Own, Going
  <2> QED BY <2>1, <2>2, LateNext
<1>5. Answered'
  <2>1. reply' # "none" => reply' = answer /\ Request.owner = "svc"
    BY <1>1 DEF Answer
  <2>2. Own(job.id)' = Own(job.id) /\ Target(job.id)' = Target(job.id)
    BY DEF Own, Target
  <2> QED BY <2>1, <2>2 DEF Answered
<1> QED BY <1>3, <1>4, <1>5 DEF Following

LEMMA FollowingStep ==
  ASSUME Typed, Following, [Next]_vars, fails' = 0
  PROVE  Following'
<1> USE DEF history
<1>0. ~DomainFails /\ ~ServiceTimeout /\ ~MonitorRaises
  BY FailsCount
<1>a. job \in Jobs /\ domQ \in Seq(Requests)
  BY DEF Typed, TypeOK
<1>b. job.pc \notin {"exists", "domain"} => reply = "none" /\ \A i \in DOMAIN domQ : domQ[i].owner # "svc"
  BY DEF Following, CallsOK
<1>1. ASSUME NEW n \in Names, NEW groups \in [Groups -> {"none", "plain"}], CreateNetwork(n, groups)
      PROVE  Following'
  <2>1. job = NoJob /\ job'.op = "create" /\ job'.pc = "start" /\ UNCHANGED <<rows, nets, domQ, reply>>
    BY <1>1 DEF CreateNetwork, Free, NoJob
  <2>2. CallsOK' /\ Answered'
    BY <2>1 DEF Following, CallsOK, Answered, NoJob
  <2>3. LateRequests'
    <3>1. \A r : LateOK(r) => LateOK(r)'
      BY <2>1 DEF LateOK, Own, Going, NoJob, Turns, Regroups
    <3> QED BY <2>1, <3>1, LateNext DEF Following, LateRequests
  <2>4. Agreeing'
    BY <2>1, EndsPlain DEF Following, Changing, Going, NoJob, Turns, Regroups
  <2> QED BY <2>2, <2>3, <2>4 DEF Following
<1>2. ASSUME NEW u \in Ids, NEW op \in Operations \ {"create"}, NEW g \in Groups \cup {NoGroup},
             AskFor(op, u, g)
      PROVE  Following'
  <2>1. job = NoJob /\ job'.pc = "start" /\ UNCHANGED <<rows, nets, domQ, reply>>
    BY <1>2 DEF AskFor, Free, NoJob
  <2>2. CallsOK' /\ Answered'
    BY <2>1 DEF Following, CallsOK, Answered, NoJob
  <2>3. LateRequests'
    <3>1. \A r : LateOK(r) => LateOK(r)'
      BY <2>1 DEF LateOK, Own, Going, NoJob, Turns, Regroups
    <3> QED BY <2>1, <3>1, LateNext DEF Following, LateRequests
  <2>4. Agreeing'
    BY <2>1, EndsPlain DEF Following, Changing, Going, NoJob, Turns, Regroups
  <2> QED BY <2>2, <2>3, <2>4 DEF Following
<1>3. CASE CreateCheck
  <2>1. job.op = "create" /\ job.pc = "start" /\ job.name \in Names
    BY <1>3 DEF CreateCheck, At, Typed, HandlerOK
  <2>2. CASE InTable(job.name)
    <3>1. job' = NoJob /\ UNCHANGED <<rows, nets, domQ>> /\ reply' = "none"
      BY <1>3, <1>b, <2>1, <2>2 DEF CreateCheck, Done
    <3> QED BY <1>b, <2>1, <3>1, FollowingEnds DEF Changing, Going, Turns, Regroups
  <2>3. CASE ~InTable(job.name)
    <3> DEFINE r == [op |-> "exists", id |-> NoId, name |-> job.name, groups |-> NoGroups,
                     group |-> NoGroup, owner |-> "svc"]
    <3>1. r \in Requests /\ r.op = "exists"
      BY <2>1, EmptyType DEF Requests
    <3>2. Send(r) /\ job' = [job EXCEPT !.pc = "exists"] /\ UNCHANGED <<rows, nets, reply>>
      BY <1>3, <2>3 DEF CreateCheck, Goto
    <3> HIDE DEF r
    <3>3. SameRequest /\ job'.pc = "exists" /\ job'.op = "create"
      BY <1>a, <2>1, <3>2 DEF SameRequest, Jobs
    <3>4. LateOK(r)
      BY <3>1 DEF LateOK, Turns, Regroups
    <3> QED BY <2>1, <3>1, <3>2, <3>3, <3>4, FollowingSends
  <2> QED BY <2>2, <2>3
<1>4. CASE CreateChecked
  <2>1. job.op = "create" /\ job.pc = "exists" /\ reply # "none" /\ domQ = <<>>
    BY <1>4 DEF CreateChecked, At, Following, CallsOK
  <2>2. CASE reply = "no"
    <3>1. job' = [job EXCEPT !.pc = "insert"] /\ UNCHANGED <<rows, nets, domQ>> /\ reply' = "none"
      BY <1>4, <2>2 DEF CreateChecked, Goto
    <3>2. SameRequest /\ job'.pc = "insert" /\ job'.op = "create"
      BY <1>a, <2>1, <3>1 DEF SameRequest, Jobs
    <3>3. CallsOK' /\ LateRequests' /\ Answered'
      BY <2>1, <3>1, <3>2 DEF CallsOK, LateRequests, Answered
    <3> QED BY <3>2, <3>3, GoesOn DEF Following
  <2>3. CASE reply # "no"
    <3>1. job' = NoJob /\ UNCHANGED <<rows, nets, domQ>> /\ reply' = "none"
      BY <1>4, <2>3 DEF CreateChecked, Done
    <3> QED BY <2>1, <3>1, FollowingEnds DEF Changing, Going, Turns, Regroups
  <2> QED BY <2>2, <2>3
<1>5. CASE CreateInsert
  <2>1. PICK v \in Ids :
          /\ Fresh(v)
          /\ rows' = [rows EXCEPT ![v] = [NoRow EXCEPT !.there = TRUE, !.name = job.name,
                                                       !.groups = job.groups]]
          /\ Send([op |-> "create", id |-> v, name |-> job.name, groups |-> job.groups,
                   group |-> NoGroup, owner |-> "svc"])
          /\ job' = [job EXCEPT !.id = v, !.pc = "domain"]
    BY <1>5 DEF CreateInsert
  <2> DEFINE r == [op |-> "create", id |-> v, name |-> job.name, groups |-> job.groups,
                   group |-> NoGroup, owner |-> "svc"]
             row == [NoRow EXCEPT !.there = TRUE, !.name = job.name, !.groups = job.groups]
  <2>2. job.op = "create" /\ job.pc = "insert" /\ UNCHANGED <<nets, reply>>
    BY <1>5 DEF CreateInsert, At
  <2>3. r \in Requests /\ r.op = "create" /\ r.id = v /\ r.groups = job.groups
    BY <1>a, <2>2 DEF Typed, HandlerOK, Jobs, Requests, Operations
  <2>4. row.groups = job.groups /\ row.state = "null"
    BY DEF NoRow
  <2>5. Send(r) /\ rows' = [rows EXCEPT ![v] = row]
    BY <2>1
  <2> HIDE DEF r, row
  <2>6. /\ ~nets[v].there /\ \A i \in DOMAIN domQ : domQ[i].id # v
    BY <2>1 DEF Fresh, Unseen
  <2>7. rows'[v] = row /\ \A u \in Ids \ {v} : rows'[u] = rows[u]
    BY <2>5 DEF Typed, TypeOK
  <2>8. job'.op = "create" /\ job'.pc = "domain" /\ job'.id = v
    BY <1>a, <2>1, <2>2 DEF Jobs
  <2>9. CallsOK' /\ Answered'
    BY <1>b, <2>2, <2>3, <2>5, <2>8, AfterSend DEF Following, CallsOK, Answered
  <2>10. LateRequests'
    <3>1. \E q : q = r /\ LateOK(q)'
      <4>1. PICK q \in Requests : q = r
        BY <2>3
      <4>2. rows'[v].groups = q.groups /\ rows'[v].state = "null"
        BY <2>3, <2>4, <2>7, <4>1
      <4>3. LateOK(q)'
        BY <2>3, <4>1, <4>2 DEF LateOK, Turns, Regroups
      <4> QED BY <4>1, <4>3
    <3>2. ASSUME NEW i \in DOMAIN domQ PROVE \E q : q = domQ[i] /\ LateOK(q)'
      <4>1. PICK q \in Requests : q = domQ[i]
        BY DEF Typed, TypeOK
      <4>2. LateOK(q) /\ q.id # v /\ (q.op # "exists" => q.id \in Ids)
        BY <2>6, <4>1 DEF Following, LateRequests, Typed, QueueOK, RequestOK
      <4>3. LateOK(q)'
        BY <2>2, <2>7, <2>8, <4>2 DEF LateOK, Own, Going, Turns, Regroups
      <4> QED BY <4>1, <4>3
    <3>3. ASSUME NEW i \in DOMAIN domQ' PROVE \E q : q = domQ'[i] /\ LateOK(q)'
      <4>1. \/ i \in DOMAIN domQ /\ domQ'[i] = domQ[i]
            \/ domQ'[i] = r
        BY <2>2, <2>3, <2>5, AfterSend DEF Following
      <4>2. CASE i \in DOMAIN domQ /\ domQ'[i] = domQ[i]
        <5>1. PICK q : q = domQ[i] /\ LateOK(q)'
          BY <3>2, <4>2
        <5> QED BY <4>2, <5>1
      <4>3. CASE domQ'[i] = r
        BY <3>1, <4>3
      <4> QED BY <4>1, <4>2, <4>3
    <3> QED BY <3>3, LateNext
  <2>11. Agreeing'
    <3> SUFFICES ASSUME NEW u \in Ids, Own(u)', nets'[u].there PROVE Agrees(u)'
      BY DEF Agreeing
    <3>1. u # v /\ rows'[u] = rows[u] /\ Own(u)
      BY <2>2, <2>6, <2>7 DEF Own
    <3>2. Plain(u)
      BY <2>2, <3>1, Settled DEF Following, Going, Changing, Turns, Regroups
    <3> QED BY <2>2, <3>1, <3>2 DEF Agrees, Plain, State
  <2> QED BY <2>9, <2>10, <2>11 DEF Following
<1>6. CASE CallDomain
  <2>1. /\ job.id \in Ids /\ job.op \in Turns \cup Regroups /\ job.group \in Groups \cup {NoGroup}
        /\ job.pc = "start"
    BY <1>6 DEF CallDomain, Typed, TypeOK, HandlerOK, Jobs, Operations, Turns, Regroups
  <2>2. CASE Accepted
    <3>1. rows[job.id].there
      BY <2>2 DEF Accepted
    <3> DEFINE r == ToDomain(job.op, job.id, job.group, "svc")
    <3>2. /\ r \in Requests /\ r.op = job.op /\ r.id = job.id /\ r.group = job.group
          /\ r.groups = rows[job.id].groups
      <4>1. job.op \in Operations
        BY <2>1 DEF Turns, Regroups, Operations
      <4>2. r \in Requests
        BY <2>1, <3>1, <4>1, RowRequest
      <4> QED BY <4>2 DEF ToDomain
    <3>3. Send(r) /\ job' = [job EXCEPT !.pc = "domain"] /\ UNCHANGED <<rows, nets, reply>>
      BY <1>6, <2>2 DEF CallDomain, Goto
    <3> HIDE DEF r
    <3>4. SameRequest /\ job'.pc = "domain"
      BY <1>a, <3>3 DEF SameRequest, Jobs
    <3>5. LateOK(r) /\ job.op # "delete"
      BY <2>1, <2>2, <3>2 DEF LateOK, Turns, Regroups
    <3> QED BY <2>1, <3>2, <3>3, <3>4, <3>5, FollowingSends DEF SameRequest
  <2>3. CASE ~Accepted
    <3>1. job' = NoJob /\ UNCHANGED <<rows, nets, domQ>> /\ reply' = "none"
      BY <1>6, <1>b, <2>1, <2>3 DEF CallDomain, Done
    <3> QED BY <1>b, <2>1, <2>3, <3>1, FollowingEnds DEF Changing, Going, Turns, Regroups
  <2> QED BY <2>2, <2>3
<1>7. CASE DomainAnswered
  <2>1. /\ job.pc = "domain" /\ reply # "none" /\ domQ = <<>> /\ job.id \in Ids /\ job.op # "delete"
        /\ job' = NoJob /\ reply' = "none" /\ UNCHANGED <<nets, domQ>>
    BY <1>7 DEF DomainAnswered, Done, Typed, HandlerOK, Following, CallsOK
  <2>2. CallsOK' /\ LateRequests' /\ Answered'
    BY <2>1 DEF CallsOK, LateRequests, Answered, NoJob
  <2>3. ASSUME NEW u \in Ids, Own(u), nets[u].there, u # job.id \/ reply \notin {"active", "inactive"}
        PROVE  Plain(u)
    <3>1. CASE u = job.id
      BY <2>1, <2>3, <3>1 DEF Following, Answered
    <3>2. CASE u # job.id
      BY <2>1, <2>3, <3>2, Settled DEF Following, Changing, Going
    <3> QED BY <3>1, <3>2
  <2>4. CASE reply \in {"active", "inactive"}
    <3> DEFINE row == rows[job.id]
    <3>1. row \in Rows /\ rows' = [rows EXCEPT ![job.id] = Changed(row)]
      BY <1>7, <2>1, <2>4 DEF DomainAnswered, Typed, TypeOK
    <3>2. Changed(row) = [row EXCEPT !.state = reply, !.groups = Target(job.id)]
      BY DEF Changed, Target
    <3>3. /\ Changed(row).there = row.there /\ Changed(row).adopted = row.adopted
          /\ Changed(row).state = reply /\ Changed(row).groups = Target(job.id)
      BY <3>1, <3>2 DEF Rows
    <3>4. rows'[job.id] = Changed(row) /\ \A u \in Ids \ {job.id} : rows'[u] = rows[u]
      BY <2>1, <3>1 DEF Typed, TypeOK
    <3>5. Agreeing'
      <4> SUFFICES ASSUME NEW u \in Ids, Own(u)', nets'[u].there PROVE Plain(u)'
        BY DEF Agreeing, Agrees
      <4>1. Own(u) /\ nets[u].there
        BY <2>1, <3>3, <3>4 DEF Own
      <4>2. CASE u = job.id
        BY <2>1, <2>4, <3>3, <3>4, <4>1, <4>2 DEF Following, Answered, Plain, State
      <4>3. CASE u # job.id
        <5>1. Plain(u)
          BY <2>3, <4>1, <4>3
        <5> QED BY <2>1, <3>4, <4>3, <5>1 DEF Plain, State
      <4> QED BY <4>2, <4>3
    <3> QED BY <2>2, <3>5 DEF Following
  <2>5. CASE reply \notin {"active", "inactive"}
    <3>1. UNCHANGED rows
      BY <1>7, <2>5 DEF DomainAnswered
    <3>2. Agreeing'
      <4> SUFFICES ASSUME NEW u \in Ids, Own(u)', nets'[u].there PROVE Agrees(u)'
        BY DEF Agreeing
      <4>1. Plain(u)
        BY <2>1, <2>3, <2>5, <3>1 DEF Own
      <4> QED BY <2>1, <3>1, <4>1, StaysPlain
    <3> QED BY <2>2, <3>2 DEF Following
  <2> QED BY <2>4, <2>5
<1>8. CASE DeleteCast
  <2>1. job.op = "delete" /\ job.pc = "start" /\ job.id \in Ids
    BY <1>8 DEF DeleteCast, At, Typed, HandlerOK
  <2>2. CASE rows[job.id].there
    <3> DEFINE r == ToDomain("delete", job.id, NoGroup, "none")
    <3>1. r \in Requests /\ r.op = "delete" /\ r.id = job.id /\ r.owner = "none"
      <4>1. "delete" \in Operations
        BY DEF Operations
      <4>2. r \in Requests /\ r.op = "delete" /\ r.id = job.id
        BY <2>1, <2>2, <4>1, RowRequest
      <4>3. r.owner = "none"
        BY DEF ToDomain
      <4> QED BY <4>2, <4>3
    <3>2. Send(r) /\ job' = [job EXCEPT !.pc = "remove"] /\ UNCHANGED <<rows, nets, reply>>
      BY <1>8, <2>2 DEF DeleteCast, Goto
    <3> HIDE DEF r
    <3>3. SameRequest /\ job'.pc = "remove"
      BY <1>a, <3>2 DEF SameRequest, Jobs
    <3>4. LateOK(r)
      BY <2>1, <3>1 DEF LateOK, Going, Turns, Regroups
    <3> QED BY <2>1, <3>1, <3>2, <3>3, <3>4, FollowingSends
  <2>3. CASE ~rows[job.id].there
    <3>1. job' = NoJob /\ UNCHANGED <<rows, nets, domQ>> /\ reply' = "none"
      BY <1>8, <1>b, <2>1, <2>3 DEF DeleteCast, Done
    <3> QED BY <1>b, <2>1, <2>3, <3>1, FollowingEnds DEF Changing, Going, Own, Turns, Regroups
  <2> QED BY <2>2, <2>3
<1>9. CASE DeleteRow
  <2>1. /\ job.op = "delete" /\ job.pc = "remove" /\ job.id \in Ids
        /\ job' = NoJob /\ UNCHANGED <<nets, domQ, reply>>
        /\ rows' = [rows EXCEPT ![job.id] = NoRow]
    BY <1>9 DEF DeleteRow, Done, At, Typed, HandlerOK
  <2>2. \A u \in Ids : /\ u = job.id => ~Own(u)'
                       /\ u # job.id => rows'[u] = rows[u]
    BY <2>1 DEF Typed, TypeOK, Own, NoRow
  <2>3. CallsOK' /\ Answered'
    BY <1>b, <2>1 DEF CallsOK, Answered, NoJob
  <2>4. LateRequests'
    <3>1. ASSUME NEW q \in Requests, LateOK(q), RequestOK(q) PROVE LateOK(q)'
      <4>1. q.op \notin Turns \cup Regroups
        BY <2>1, <3>1 DEF LateOK, Turns, Regroups
      <4> QED BY <2>1, <2>2, <3>1, <4>1 DEF LateOK, RequestOK, Own, Going
    <3>2. \A i \in DOMAIN domQ : domQ[i] \in Requests /\ LateOK(domQ[i]) /\ RequestOK(domQ[i])
      BY DEF Following, LateRequests, Typed, TypeOK, QueueOK
    <3> QED BY <2>1, <3>1, <3>2, LateNext
  <2>5. Agreeing'
    <3> SUFFICES ASSUME NEW u \in Ids, Own(u)', nets'[u].there PROVE Agrees(u)'
      BY DEF Agreeing
    <3>1. u # job.id /\ rows'[u] = rows[u] /\ Own(u)
      BY <2>2 DEF Own
    <3>2. Plain(u)
      BY <2>1, <3>1, Settled DEF Following, Going, Changing, Turns, Regroups
    <3> QED BY <2>1, <3>1, <3>2 DEF Agrees, Plain, State
  <2> QED BY <2>3, <2>4, <2>5 DEF Following
<1>10. CASE DomainExists
  <2>1. domQ # <<>> /\ Request.op = "exists" /\ UNCHANGED <<rows, nets, job>>
    BY <1>10 DEF DomainExists
  <2>2. PICK answer \in {"yes", "no"} : Answer(answer)
    BY <1>10 DEF DomainExists
  <2>3. Request.owner = "svc" => job.pc # "domain"
    <3>1. Request = domQ[1] /\ 1 \in DOMAIN domQ
      BY <2>1, <1>a DEF Request
    <3> QED BY <2>1, <3>1 DEF Following, CallsOK, Typed, HandlerOK, TypeOK, Jobs, Operations
  <2>4. Agreeing'
    BY <2>1, GoesOn DEF Following, SameRequest
  <2> QED BY <2>1, <2>2, <2>3, <2>4, FollowingServed DEF Replies
<1>11. CASE DomainDoes
  <2>1. domQ # <<>> /\ Request.op # "exists" /\ UNCHANGED <<rows, job>>
    BY <1>11 DEF DomainDoes
  <2>2. Request = domQ[1] /\ 1 \in DOMAIN domQ
    BY <2>1, <1>a DEF Request
  <2>3. LateOK(Request)
    BY <2>2 DEF Following, LateRequests
  <2>4. IF Refused THEN UNCHANGED nets ELSE nets' = [nets EXCEPT ![Request.id] = Effect]
    BY <1>11 DEF DomainDoes
  <2>5. Agreeing'
    BY <2>1, <2>3, <2>4, EffectAgrees DEF Following
  <2>6. Request.owner = "svc" /\ job.pc = "domain" =>
          job.op # "delete" /\ Request.op = job.op /\ Request.id = job.id
    BY <2>1, <2>2 DEF Following, CallsOK
  <2>7. Request.owner = "svc" /\ job.pc = "domain" /\ Own(job.id) /\ nets'[job.id].there =>
          IF Refused THEN Plain(job.id)'
          ELSE nets'[job.id].groups = Target(job.id) /\ State(Effect) = State(nets'[job.id])
    BY <2>1, <2>3, <2>4, <2>6, AnswerRight DEF Following
  <2>8. CASE Refused
    BY <1>11, <2>1, <2>5, <2>7, <2>8, FollowingServed DEF DomainDoes, Replies
  <2>9. CASE ~Refused
    <3>1. State(Effect) \in {"active", "inactive"}
      BY DEF State
    <3> QED BY <1>11, <2>1, <2>5, <2>7, <2>9, <3>1, FollowingServed DEF DomainDoes, Replies
  <2> QED BY <2>8, <2>9
<1>13. CASE DomainCrash
  <2>1. domQ # <<>> /\ UNCHANGED <<rows, job, domQ, reply>>
    BY <1>13 DEF DomainCrash
  <2>2. Request = domQ[1] /\ 1 \in DOMAIN domQ
    BY <2>1, <1>a DEF Request
  <2>3. LateOK(Request) /\ reply = "none"
    BY <2>1, <2>2 DEF Following, LateRequests, CallsOK
  <2>4. CASE UNCHANGED nets
    <3>1. SameRequest
      BY <2>1, <2>4 DEF SameRequest
    <3>2. LateRequests'
      BY <2>1, <3>1, GoesOn, LateNext DEF Following, LateRequests
    <3>3. CallsOK' /\ Answered'
      BY <2>1, <2>3 DEF Following, CallsOK, Answered
    <3> QED BY <3>1, <3>2, <3>3, GoesOn DEF Following
  <2>5. CASE Request.op # "exists" /\ ~Refused /\ nets' = [nets EXCEPT ![Request.id] = Effect]
    <3>1. Agreeing'
      BY <2>1, <2>3, <2>5, EffectAgrees DEF Following
    <3>2. \A q : LateOK(q) => LateOK(q)'
      BY <2>1 DEF LateOK, Accepted, Own, Going
    <3>3. LateRequests'
      BY <2>1, <3>2, LateNext DEF Following, LateRequests
    <3>4. CallsOK' /\ Answered'
      BY <2>1, <2>3 DEF Following, CallsOK, Answered
    <3> QED BY <3>1, <3>3, <3>4 DEF Following
  <2> QED BY <1>13, <2>4, <2>5 DEF DomainCrash
<1>15. CASE ServiceCrash
  <2>1. /\ job'.op = job.op /\ job'.group = job.group /\ job'.pc = "start"
        /\ job.op # "create" => job'.id = job.id
        /\ reply' = "none" /\ domQ' = Disowned /\ UNCHANGED <<rows, nets>>
    BY <1>15, <1>a DEF ServiceCrash, Jobs
  <2>2. DOMAIN domQ' = DOMAIN domQ
        /\ \A i \in DOMAIN domQ : \E q \in Requests : q = domQ[i] /\ domQ'[i] = [q EXCEPT !.owner = "none"]
    BY <2>1, <1>a DEF Disowned
  <2>3. CallsOK' /\ Answered'
    <3>1. \A i \in DOMAIN domQ' : domQ'[i].owner # "svc"
      BY <2>2 DEF Requests
    <3> QED BY <2>1, <3>1 DEF CallsOK, Answered
  <2>4. ASSUME NEW r, LateOK(r) PROVE LateOK(r)'
    BY <2>1, <2>4 DEF LateOK, Accepted, Own, Going, Turns, Regroups
  <2>5. LateRequests'
    <3>1. ASSUME NEW q \in Requests, LateOK(q), NEW s, s = [q EXCEPT !.owner = "none"]
          PROVE  LateOK(s)
      <4>1. s.op = q.op /\ s.id = q.id /\ s.group = q.group /\ s.groups = q.groups
        BY <3>1 DEF Requests
      <4> QED BY <3>1, <4>1 DEF LateOK
    <3>2. \A i \in DOMAIN domQ' : LateOK(domQ'[i])
      BY <2>2, <3>1 DEF Following, LateRequests
    <3> QED BY <2>4, <3>2, LateNext
  <2>6. Agreeing'
    <3>1. CASE job.op = "create"
      BY <2>1, <3>1, EndsPlain DEF Following, Changing, Going, Turns, Regroups
    <3>2. CASE job.op # "create"
      BY <2>1, <3>2, GoesOn DEF Following, SameRequest
    <3> QED BY <3>1, <3>2
  <2> QED BY <2>3, <2>5, <2>6 DEF Following
<1>16. CASE MonitorNames \/ MonitorListed \/ MonitorCollect \/ UNCHANGED vars
  <2>1. UNCHANGED <<rows, nets, job, domQ, reply>>
    BY <1>16 DEF MonitorNames, MonitorListed, MonitorCollect, vars
  <2>2. SameRequest
    BY <2>1 DEF SameRequest
  <2>3. LateRequests'
    BY <2>1, <2>2, GoesOn, LateNext DEF Following, LateRequests
  <2>4. CallsOK' /\ Answered'
    BY <2>1 DEF Following, CallsOK, Answered, Own, Target, Plain, State
  <2> QED BY <2>2, <2>3, <2>4, GoesOn DEF Following
<1>19. CASE MonitorCommit
  <2>1. UNCHANGED <<nets, job, domQ, reply>>
    BY <1>19 DEF MonitorCommit
  <2>2. \A u \in Ids : /\ rows[u].there => rows'[u] = rows[u]
                       /\ Own(u)' => rows'[u] = rows[u]
    BY <1>19, AdoptedRows
  <2>3. CallsOK'
    BY <2>1 DEF Following, CallsOK
  <2>4. LateRequests'
    <3>1. ASSUME NEW q, LateOK(q), RequestOK(q) PROVE LateOK(q)'
      <4>1. q.op \in Turns \cup Regroups => rows'[q.id] = rows[q.id] /\ Accepted'
        BY <2>1, <2>2, <3>1 DEF LateOK, RequestOK, Accepted, Turns, Regroups
      <4>2. q.op \in {"create", "delete"} /\ Own(q.id)' => rows'[q.id] = rows[q.id] /\ Own(q.id)
        BY <2>2, <3>1 DEF RequestOK, Own
      <4> QED BY <2>1, <3>1, <4>1, <4>2 DEF LateOK, Going
    <3>2. \A i \in DOMAIN domQ : LateOK(domQ[i]) /\ RequestOK(domQ[i])
      BY DEF Following, LateRequests, Typed, QueueOK
    <3> QED BY <2>1, <3>1, <3>2, LateNext
  <2>5. Agreeing'
    <3> SUFFICES ASSUME NEW u \in Ids, Own(u)', nets'[u].there, ~Going(u)' PROVE Agrees(u)'
      BY DEF Agreeing
    <3>1. rows'[u] = rows[u] /\ Own(u) /\ ~Going(u) /\ nets[u].there
      BY <2>1, <2>2 DEF Own, Going
    <3>2. Agrees(u)
      BY <3>1 DEF Following, Agreeing
    <3>3. Changing(u) => Changing(u)'
      BY <2>1, <3>1 DEF Changing, Accepted
    <3>4. Open(u)' = Open(u) /\ Plain(u)' = Plain(u) /\ Target(u)' = Target(u)
      BY <2>1, <3>1 DEF Open, Plain, State, Target
    <3> QED BY <2>1, <3>1, <3>2, <3>3, <3>4 DEF Agrees, State
  <2>6. Answered'
    <3> SUFFICES ASSUME reply # "none", job.pc = "domain", Own(job.id)', nets[job.id].there
                 PROVE  IF reply \in {"active", "inactive"}
                        THEN nets[job.id].groups = Target(job.id)' /\ reply = State(nets[job.id])
                        ELSE Plain(job.id)'
      BY <2>1 DEF Answered, State
    <3>1. job.id \in Ids /\ rows'[job.id] = rows[job.id] /\ Own(job.id)
      BY <2>1, <2>2 DEF Typed, HandlerOK, Own
    <3> QED BY <2>1, <3>1 DEF Following, Answered, Target, Plain, State
  <2> QED BY <2>3, <2>4, <2>5, <2>6 DEF Following
<1>22. CASE ApiRequest
  BY <1>1, <1>2, <1>22
  DEF ApiRequest, ApiCreate, ApiDelete, ApiTurn, ApiAddGroup, ApiDelGroup, ApiAddTag, Operations
<1> QED
  BY <1>0, <1>3, <1>4, <1>5, <1>6, <1>7, <1>8, <1>9, <1>10, <1>11, <1>13, <1>15, <1>16, <1>19, <1>22
  DEF Next, HandlerStep, DomainStep, MonitorStep

\* As long as nothing has failed: what the handler, the queue and the domain know of
\* a change is one and the same.
LEMMA FollowingHolds == Spec => [](fails = 0 => Following)
<1>1. Init => Following
  <2> SUFFICES ASSUME Init PROVE Following
    OBVIOUS
  <2>1. domQ = <<>> /\ reply = "none" /\ job.op = "none" /\ \A u \in Ids : ~Own(u)
    BY DEF Init, NoJob, NoRow, Own
  <2> QED BY <2>1 DEF Following, CallsOK, LateRequests, Agreeing, Answered
<1>2. IInv /\ (fails = 0 => Following) /\ [Next]_vars => (fails = 0 => Following)'
  <2> SUFFICES ASSUME IInv, fails = 0 => Following, [Next]_vars, fails' = 0 PROVE Following'
    OBVIOUS
  <2> QED BY FailsCount, FollowingStep DEF IInv
<1> QED BY <1>1, <1>2, Invariance, PTL DEF Spec

\* When nothing is under way and nothing has failed, a row and its libvirt network
\* agree on port groups and state, for any number of crashes of the processes in the
\* middle of a change: a request that is made again finds the change made or makes it.
THEOREM RowsFollow == Spec => []RowsAgree
<1>1. (fails = 0 => Following) => RowsAgree
  <2> SUFFICES ASSUME Following, job = NoJob, NEW u \in Ids, Own(u), nets[u].there
               PROVE  Plain(u)
    BY DEF RowsAgree, Own, Plain
  <2>1. ~Going(u) /\ ~Changing(u)
    BY DEF Going, Changing, NoJob, Turns, Regroups
  <2> QED BY <2>1, Settled DEF Following
<1> QED BY <1>1, FollowingHolds, PTL

-----------------------------------------------------------------------------
(* A network keeps a port group *)

\* A deletion of a port group leaves one, in the row it was read from; a creation
\* stands ahead of all else that is asked of its network.
RegroupOK(r) ==
  /\ r.op = "add_group" => r.group \in Groups
  /\ r.op = "del_group" => Size(r.groups) > 1
CreationOK(i) ==
  domQ[i].op = "create" =>
    /\ \A j \in DOMAIN domQ : j < i => domQ[j].id # domQ[i].id
    /\ nets[domQ[i].id].there => i = 1 /\ nets[domQ[i].id].groups = domQ[i].groups
GroupsOK ==
  /\ job.op = "add_group" => job.group \in Groups
  /\ \A i \in DOMAIN domQ : RegroupOK(domQ[i]) /\ CreationOK(i)

LEMMA SizeOf ==
  ASSUME NEW groups \in PortGroups
  PROVE  /\ Size(groups) \in Nat
         /\ Size(groups) > 0 <=> \E g \in Groups : Has(groups, g)
<1> DEFINE S == {g \in Groups : Has(groups, g)}
<1>1. IsFiniteSet(S)
  BY FS_Subset, VirtualNetworkAssumption
<1>2. Cardinality(S) \in Nat /\ (Cardinality(S) = 0 <=> S = {})
  BY <1>1, FS_CardinalityType, FS_EmptySet
<1> QED BY <1>2 DEF Size

LEMMA SizeLess ==
  ASSUME NEW groups \in PortGroups, NEW less \in PortGroups, NEW x, Size(groups) > 1,
         \A g \in Groups : g # x => less[g] = groups[g]
  PROVE  Size(less) > 0
<1> DEFINE S == {g \in Groups : Has(groups, g)}
<1>1. IsFiniteSet(S) /\ Cardinality(S) > 1
  BY FS_Subset, VirtualNetworkAssumption DEF Size
<1>2. ASSUME NEW T, IsFiniteSet(T), Cardinality(T) > 1 PROVE T \ {x} # {}
  <2>1. /\ IsFiniteSet(T \ {x}) /\ Cardinality(T) \in Nat
        /\ Cardinality(T \ {x}) = IF x \in T THEN Cardinality(T) - 1 ELSE Cardinality(T)
    BY <1>2, FS_RemoveElement, FS_CardinalityType
  <2> QED BY <1>2, <2>1, FS_EmptySet
<1>3. S \ {x} # {}
  BY <1>1, <1>2
<1>4. \E g \in Groups : Has(less, g)
  BY <1>3 DEF Has
<1> QED BY <1>4, SizeOf

\* What the domain may do to a network with the request in hand.
NetsMove ==
  \/ UNCHANGED nets
  \/ Request.op # "exists" /\ ~Refused /\ nets' = [nets EXCEPT ![Request.id] = Effect]
  \/ Request.op = "delete" /\ nets' = [nets EXCEPT ![Request.id].active = FALSE]

LEMMA NetsKeepGroups ==
  ASSUME Typed, GroupsOK, domQ # <<>>, NetsMove, NEW u \in Ids
  PROVE  /\ nets[u].there /\ nets'[u].there /\ Size(nets[u].groups) > 0 => Size(nets'[u].groups) > 0
         /\ u # Request.id => nets'[u] = nets[u]
         /\ Request.op = "create" /\ nets'[Request.id].there => nets'[Request.id].groups = Request.groups
<1>1. /\ Request = domQ[1] /\ 1 \in DOMAIN domQ /\ Request \in Requests
      /\ Request.op # "exists" => Request.id \in Ids
  BY QueueType DEF Request, RequestOK, Typed, TypeOK
<1>2. RegroupOK(Request) /\ CreationOK(1)
  BY <1>1 DEF GroupsOK
<1>3. CASE UNCHANGED nets
  BY <1>1, <1>2, <1>3 DEF CreationOK
<1>4. CASE Request.op = "delete" /\ nets' = [nets EXCEPT ![Request.id].active = FALSE]
  BY <1>1, <1>4 DEF Typed, TypeOK, Nets
<1>5. CASE Request.op # "exists" /\ ~Refused /\ nets' = [nets EXCEPT ![Request.id] = Effect]
  <2>1. /\ nets'[Request.id] = Effect /\ \A v \in Ids \ {Request.id} : nets'[v] = nets[v]
        /\ Net = nets[Request.id] /\ Net \in Nets
    BY <1>1, <1>5 DEF Net, Typed, TypeOK
  <2>2. Request.groups \in PortGroups /\ Wanted \in PortGroups
    BY <1>1 DEF Requests, Wanted, PortGroups
  <2>3. CASE Request.op = "create"
    <3>1. Wanted = [g \in Groups |-> Request.groups[g]]
      BY <2>3 DEF Wanted
    <3>2. Effect.groups = Request.groups
      BY <2>2, <2>3, <3>1 DEF Effect, PortGroups
    <3> QED BY <1>1, <1>2, <2>1, <2>3, <3>2 DEF CreationOK
  <2>4. CASE Request.op \in {"on", "off"}
    <3>1. Effect.groups = Net.groups
      BY <2>1, <2>4 DEF Effect, Nets
    <3> QED BY <1>1, <2>1, <2>4, <3>1
  <2>5. CASE Request.op = "delete"
    BY <1>1, <2>1, <2>5 DEF Effect, NoNet
  <2>6. CASE Request.op \in {"add_group", "del_group", "add_tag"}
    <3>1. Effect = [Net EXCEPT !.groups = Wanted]
      BY <2>6 DEF Effect
    <3>2. Effect.groups = Wanted
      BY <2>1, <3>1 DEF Nets
    <3>3. CASE Request.op = "add_group"
      <4>1. Request.group \in Groups /\ Has(Wanted, Request.group)
        BY <1>2, <3>3 DEF RegroupOK, Wanted, Has
      <4> QED BY <1>1, <2>1, <2>2, <3>2, <3>3, <4>1, SizeOf
    <3>4. CASE Request.op = "del_group"
      <4>1. \A g \in Groups : g # Request.group => Wanted[g] = Request.groups[g]
        BY <3>4 DEF Wanted
      <4>2. Size(Wanted) > 0
        BY <1>2, <2>2, <3>4, <4>1, SizeLess DEF RegroupOK
      <4> QED BY <1>1, <2>1, <3>2, <3>4, <4>2
    <3>5. CASE Request.op = "add_tag"
      <4>1. Request.group \in Groups /\ Has(Wanted, Request.group)
        BY <1>5, <3>5, VirtualNetworkAssumption DEF Refused, Wanted, Has
      <4> QED BY <1>1, <2>1, <2>2, <3>2, <3>5, <4>1, SizeOf
    <3> QED BY <2>6, <3>3, <3>4, <3>5
  <2> QED BY <1>1, <1>5, <2>3, <2>4, <2>5, <2>6 DEF Requests, Operations
<1> QED BY <1>3, <1>4, <1>5 DEF NetsMove

\* What becomes of the queue while no network changes.
LEMMA GroupsOKSends ==
  ASSUME Typed, GroupsOK, NEW r \in Requests, RequestOK(r), Send(r), UNCHANGED nets, RegroupOK(r),
         r.op = "create" => ~nets[r.id].there /\ \A j \in DOMAIN domQ : domQ[j].id # r.id
  PROVE  \A i \in DOMAIN domQ' : RegroupOK(domQ'[i]) /\ CreationOK(i)'
<1>1. /\ Len(domQ) \in Nat /\ DOMAIN domQ = 1..Len(domQ) /\ DOMAIN domQ' = 1..(Len(domQ) + 1)
      /\ \A i \in DOMAIN domQ : domQ'[i] = domQ[i]
      /\ domQ'[Len(domQ) + 1] = r
  BY DEF Typed, TypeOK, Send
<1> SUFFICES ASSUME NEW i \in DOMAIN domQ' PROVE RegroupOK(domQ'[i]) /\ CreationOK(i)'
  OBVIOUS
<1>2. CASE i \in DOMAIN domQ
  <2>1. RegroupOK(domQ[i]) /\ CreationOK(i)
    BY <1>2 DEF GroupsOK
  <2>2. \A j \in DOMAIN domQ' : j < i => j \in DOMAIN domQ
    BY <1>1, <1>2
  <2> QED BY <1>1, <1>2, <2>1, <2>2 DEF CreationOK
<1>3. CASE i \notin DOMAIN domQ
  <2>1. domQ'[i] = r /\ \A j \in DOMAIN domQ' : j < i => j \in DOMAIN domQ
    BY <1>1, <1>3
  <2> QED BY <1>1, <1>3, <2>1 DEF CreationOK
<1> QED BY <1>2, <1>3

LEMMA GroupsOKServed ==
  ASSUME Typed, GroupsOK, domQ # <<>>, domQ' = domQ \/ domQ' = Tail(domQ), NetsMove
  PROVE  \A i \in DOMAIN domQ' : RegroupOK(domQ'[i]) /\ CreationOK(i)'
<1>1. /\ Len(domQ) \in Nat /\ DOMAIN domQ = 1..Len(domQ)
      /\ Request = domQ[1] /\ 1 \in DOMAIN domQ
      /\ \A i \in DOMAIN domQ : domQ[i] \in Requests /\ (domQ[i].op # "exists" => domQ[i].id \in Ids)
  BY DEF Typed, TypeOK, Request, QueueOK, RequestOK
<1>2. \A u \in Ids : u # Request.id => nets'[u] = nets[u]
  BY NetsKeepGroups
<1>3. Request.op = "create" /\ nets'[Request.id].there => nets'[Request.id].groups = Request.groups
  BY <1>1, NetsKeepGroups
<1>4. \A i \in DOMAIN domQ : RegroupOK(domQ[i]) /\ CreationOK(i)
  BY DEF GroupsOK
\* A creation further back finds its network as it was: absent.
<1>5. ASSUME NEW i \in DOMAIN domQ, i > 1, domQ[i].op = "create"
      PROVE  ~nets'[domQ[i].id].there /\ \A j \in DOMAIN domQ : j < i => domQ[j].id # domQ[i].id
  <2>1. \A j \in DOMAIN domQ : j < i => domQ[j].id # domQ[i].id
    BY <1>4, <1>5 DEF CreationOK
  <2>2. ~nets[domQ[i].id].there
    BY <1>1, <1>4, <1>5 DEF CreationOK
  <2> QED BY <1>1, <1>2, <1>5, <2>1, <2>2
<1>6. CASE domQ' = domQ
  <2> SUFFICES ASSUME NEW i \in DOMAIN domQ PROVE CreationOK(i)'
    BY <1>4, <1>6
  <2>1. CASE i > 1
    BY <1>5, <1>6, <2>1 DEF CreationOK
  <2>2. CASE i = 1
    BY <1>1, <1>3, <1>6, <2>2 DEF CreationOK
  <2> QED BY <1>1, <2>1, <2>2
<1>7. CASE domQ' = Tail(domQ)
  <2>1. /\ DOMAIN domQ' = 1..(Len(domQ) - 1)
        /\ \A i \in DOMAIN domQ' : i + 1 \in DOMAIN domQ /\ domQ'[i] = domQ[i + 1]
    BY <1>1, <1>7 DEF Typed, TypeOK
  <2> SUFFICES ASSUME NEW i \in DOMAIN domQ' PROVE RegroupOK(domQ'[i]) /\ CreationOK(i)'
    OBVIOUS
  <2>2. i + 1 \in DOMAIN domQ /\ i + 1 > 1 /\ domQ'[i] = domQ[i + 1]
    BY <2>1
  <2>3. \A j \in DOMAIN domQ' : j < i => j + 1 \in DOMAIN domQ /\ j + 1 < i + 1 /\ domQ'[j] = domQ[j + 1]
    BY <2>1
  <2>4. domQ[i + 1].op = "create" =>
          ~nets'[domQ[i + 1].id].there /\ \A j \in DOMAIN domQ : j < i + 1 => domQ[j].id # domQ[i + 1].id
    BY <1>5, <2>2
  <2> QED BY <1>4, <2>2, <2>3, <2>4 DEF CreationOK
<1> QED BY <1>6, <1>7

\* Which steps move the networks, and which the queue.
LEMMA NetsStep ==
  ASSUME Typed, [Next]_vars
  PROVE  \/ UNCHANGED nets
         \/ domQ # <<>> /\ (domQ' = domQ \/ domQ' = Tail(domQ)) /\ NetsMove
<1> USE DEF history
<1>1. ApiRequest \/ HandlerStep \/ MonitorStep \/ MonitorRaises => UNCHANGED nets
  BY DEF ApiRequest, ApiCreate, ApiDelete, ApiTurn, ApiAddGroup, ApiDelGroup, ApiAddTag, CreateNetwork,
         AskFor, HandlerStep, CreateCheck, CreateChecked, CreateInsert, CallDomain, DomainAnswered,
         DeleteCast, DeleteRow, MonitorStep, MonitorNames, MonitorListed, MonitorCollect, MonitorCommit,
         MonitorRaises
<1>2. DomainStep \/ DomainFails \/ DomainCrash =>
        domQ # <<>> /\ (domQ' = domQ \/ domQ' = Tail(domQ)) /\ NetsMove
  BY DEF DomainStep, DomainExists, DomainDoes, DomainFails, DomainCrash, Answer, NetsMove
<1>3. ServiceTimeout \/ ServiceCrash \/ UNCHANGED vars => UNCHANGED nets
  BY DEF ServiceTimeout, ServiceCrash, vars
<1> QED BY <1>1, <1>2, <1>3 DEF Next

LEMMA GroupsOKStep ==
  ASSUME Typed, GroupsOK, [Next]_vars
  PROVE  GroupsOK'
<1> USE DEF history
<1>a. job \in Jobs /\ domQ \in Seq(Requests)
  BY DEF Typed, TypeOK
\* Neither the queue nor libvirt changes.
<1>b. ASSUME UNCHANGED <<domQ, nets>>, job'.op = "add_group" => job'.group \in Groups
      PROVE  GroupsOK'
  BY <1>b DEF GroupsOK, RegroupOK, CreationOK
<1>c. ASSUME NEW r \in Requests, RequestOK(r), Send(r), UNCHANGED nets, RegroupOK(r),
             r.op = "create" => ~nets[r.id].there /\ \A j \in DOMAIN domQ : domQ[j].id # r.id,
             job'.op = "add_group" => job'.group \in Groups
      PROVE  GroupsOK'
  BY <1>c, GroupsOKSends DEF GroupsOK, RegroupOK
<1>d. ASSUME domQ # <<>>, domQ' = domQ \/ domQ' = Tail(domQ), NetsMove, UNCHANGED job
      PROVE  GroupsOK'
  BY <1>d, GroupsOKServed DEF GroupsOK, RegroupOK
<1>e. ASSUME domQ' = Disowned, UNCHANGED nets, job'.op = job.op, job'.group = job.group
      PROVE  GroupsOK'
  <2>1. DOMAIN domQ' = DOMAIN domQ
        /\ \A i \in DOMAIN domQ : /\ domQ'[i].op = domQ[i].op /\ domQ'[i].id = domQ[i].id
                                  /\ domQ'[i].groups = domQ[i].groups /\ domQ'[i].group = domQ[i].group
    <3>1. \A i \in DOMAIN domQ : domQ[i] \in Requests /\ domQ'[i] = [domQ[i] EXCEPT !.owner = "none"]
      BY <1>a, <1>e DEF Disowned
    <3>2. DOMAIN domQ' = DOMAIN domQ
      BY <1>e DEF Disowned
    <3> QED BY <3>1, <3>2 DEF Requests
  <2> QED BY <1>e, <2>1 DEF GroupsOK, RegroupOK, CreationOK
<1>1. CASE ApiRequest
  <2>1. ASSUME NEW n \in Names, NEW groups \in [Groups -> {"none", "plain"}], CreateNetwork(n, groups)
        PROVE  UNCHANGED <<domQ, nets>> /\ job'.op = "create"
    BY <2>1 DEF CreateNetwork, NoJob
  <2>2. ASSUME NEW u \in Ids, NEW op, NEW g, AskFor(op, u, g)
        PROVE  UNCHANGED <<domQ, nets>> /\ job'.op = op /\ job'.group = g
    BY <2>2 DEF AskFor, NoJob
  <2>3. UNCHANGED <<domQ, nets>> /\ (job'.op = "add_group" => job'.group \in Groups)
    BY <1>1, <2>1, <2>2 DEF ApiRequest, ApiCreate, ApiDelete, ApiTurn, ApiAddGroup, ApiDelGroup, ApiAddTag
  <2> QED BY <1>b, <2>3
<1>2. CASE CreateCheck
  <2>1. job'.op # "add_group"
    BY <1>2, <1>a DEF CreateCheck, At, Done, Goto, NoJob, Jobs
  <2>2. CASE InTable(job.name)
    BY <1>2, <1>b, <2>1, <2>2 DEF CreateCheck
  <2>3. CASE ~InTable(job.name)
    <3> DEFINE r == [op |-> "exists", id |-> NoId, name |-> job.name, groups |-> NoGroups,
                     group |-> NoGroup, owner |-> "svc"]
    <3>1. r \in Requests /\ RequestOK(r) /\ RegroupOK(r) /\ r.op # "create"
      BY <1>2, EmptyType DEF CreateCheck, At, Typed, HandlerOK, Requests, RequestOK, RegroupOK
    <3>2. Send(r) /\ UNCHANGED nets
      BY <1>2, <2>3 DEF CreateCheck
    <3> HIDE DEF r
    <3> QED BY <1>c, <2>1, <3>1, <3>2
  <2> QED BY <2>2, <2>3
<1>3. CASE CreateChecked \/ DomainAnswered \/ DeleteRow
  <2>1. job'.op # "add_group" /\ UNCHANGED <<domQ, nets>>
    BY <1>3, <1>a DEF CreateChecked, DomainAnswered, DeleteRow, At, Done, Goto, NoJob, Jobs
  <2> QED BY <1>b, <2>1
<1>4. CASE CreateInsert
  <2>1. PICK v \in Ids :
          /\ Fresh(v)
          /\ Send([op |-> "create", id |-> v, name |-> job.name, groups |-> job.groups,
                   group |-> NoGroup, owner |-> "svc"])
          /\ job' = [job EXCEPT !.id = v, !.pc = "domain"]
    BY <1>4 DEF CreateInsert
  <2> DEFINE r == [op |-> "create", id |-> v, name |-> job.name, groups |-> job.groups,
                   group |-> NoGroup, owner |-> "svc"]
  <2>2. r \in Requests /\ RequestOK(r) /\ RegroupOK(r) /\ r.op = "create" /\ r.id = v
    BY <1>4, <1>a DEF CreateInsert, At, Typed, HandlerOK, Jobs, Requests, Operations, RequestOK, RegroupOK
  <2>3. Send(r) /\ UNCHANGED nets /\ job'.op # "add_group"
    BY <1>4, <1>a, <2>1 DEF CreateInsert, At, Jobs
  <2> HIDE DEF r
  <2>4. ~nets[v].there /\ \A j \in DOMAIN domQ : domQ[j].id # v
    BY <2>1 DEF Fresh, Unseen
  <2> QED BY <1>c, <2>2, <2>3, <2>4
<1>5. CASE CallDomain
  <2>1. /\ job.id \in Ids /\ job.op \in Operations \ {"create", "delete"}
        /\ job.group \in Groups \cup {NoGroup} /\ UNCHANGED nets
        /\ job.op = "add_group" => job.group \in Groups
    BY <1>5 DEF CallDomain, Typed, TypeOK, HandlerOK, Jobs, Operations, GroupsOK
  <2>2. CASE Accepted
    <3>1. rows[job.id].there /\ (job.op = "del_group" => Size(rows[job.id].groups) > 1)
      BY <2>2 DEF Accepted
    <3> DEFINE r == ToDomain(job.op, job.id, job.group, "svc")
    <3>2. r \in Requests /\ RequestOK(r) /\ r.op = job.op /\ r.id = job.id
      BY <2>1, <3>1, RowRequest
    <3>3. r.group = job.group /\ r.groups = rows[job.id].groups
      BY DEF ToDomain
    <3>4. Send(r) /\ job' = [job EXCEPT !.pc = "domain"]
      BY <1>5, <2>2 DEF CallDomain, Goto
    <3> HIDE DEF r
    <3>5. RegroupOK(r)
      BY <2>1, <3>1, <3>2, <3>3 DEF RegroupOK
    <3>6. job'.op = job.op /\ job'.group = job.group
      BY <1>a, <3>4 DEF Jobs
    <3> QED BY <1>c, <2>1, <3>2, <3>4, <3>5, <3>6
  <2>3. CASE ~Accepted
    BY <1>5, <1>b, <2>3 DEF CallDomain, Done, NoJob
  <2> QED BY <2>2, <2>3
<1>6. CASE DeleteCast
  <2>1. job.id \in Ids /\ UNCHANGED nets /\ job'.op # "add_group"
    BY <1>6, <1>a DEF DeleteCast, At, Done, Goto, NoJob, Jobs, Typed, HandlerOK
  <2>2. CASE rows[job.id].there
    <3> DEFINE r == ToDomain("delete", job.id, NoGroup, "none")
    <3>1. r \in Requests /\ RequestOK(r) /\ r.op = "delete"
      BY <2>1, <2>2, RowRequest DEF Operations
    <3>2. Send(r)
      BY <1>6, <2>2 DEF DeleteCast
    <3> HIDE DEF r
    <3> QED BY <1>c, <2>1, <3>1, <3>2 DEF RegroupOK
  <2>3. CASE ~rows[job.id].there
    BY <1>6, <1>b, <2>1, <2>3 DEF DeleteCast
  <2> QED BY <2>2, <2>3
<1>7. CASE DomainStep \/ DomainFails \/ DomainCrash
  <2>1. domQ # <<>> /\ (domQ' = domQ \/ domQ' = Tail(domQ)) /\ NetsMove /\ UNCHANGED job
    BY <1>7 DEF DomainStep, DomainExists, DomainDoes, DomainFails, DomainCrash, Answer, NetsMove
  <2> QED BY <1>d, <2>1
<1>8. CASE ServiceTimeout \/ ServiceCrash
  BY <1>8, <1>a, <1>e DEF ServiceTimeout, ServiceCrash, Jobs
<1>9. CASE MonitorStep \/ MonitorRaises \/ UNCHANGED vars
  <2>1. UNCHANGED <<domQ, nets, job>>
    BY <1>9 DEF MonitorStep, MonitorNames, MonitorListed, MonitorCollect, MonitorCommit, MonitorRaises, vars
  <2> QED BY <1>b, <2>1 DEF GroupsOK
<1> QED
  BY <1>1, <1>2, <1>3, <1>4, <1>5, <1>6, <1>7, <1>8, <1>9 DEF Next, HandlerStep

\* A network that has port groups is never left without one, whatever fails, is late or
\* is done again.
THEOREM GroupKept == Spec => GroupsStay
<1>1. Init => GroupsOK
  <2> SUFFICES ASSUME Init PROVE GroupsOK
    OBVIOUS
  <2>1. domQ = <<>> /\ job.op = "none"
    BY DEF Init, NoJob
  <2> QED BY <2>1 DEF GroupsOK
<1>2. IInv /\ GroupsOK /\ [Next]_vars => GroupsOK'
  BY GroupsOKStep DEF IInv
<1>3. IInv /\ GroupsOK /\ [Next]_vars =>
        [\A u \in Ids : nets[u].there /\ nets'[u].there /\ Size(nets[u].groups) > 0
                          => Size(nets'[u].groups) > 0]_vars
  <2> SUFFICES ASSUME IInv, GroupsOK, [Next]_vars, NEW u \in Ids,
                      nets[u].there, nets'[u].there, Size(nets[u].groups) > 0
               PROVE  Size(nets'[u].groups) > 0
    OBVIOUS
  <2>1. CASE UNCHANGED nets
    BY <2>1
  <2>2. CASE domQ # <<>> /\ NetsMove
    BY <2>2, NetsKeepGroups DEF IInv
  <2> QED BY <2>1, <2>2, NetsStep DEF IInv
<1> QED BY <1>1, <1>2, <1>3, Invariance, PTL DEF Spec, GroupsStay
=============================================================================
