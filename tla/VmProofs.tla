------------------------------ MODULE VmProofs ------------------------------
(***************************************************************************)
(* Proofs about VmService: a machine and the services of its disks agree   *)
(* on what is attached, a machine that is on has its disks attached, and   *)
(* no machine is left between two power states; for any machines, disks    *)
(* and faults.                                                             *)
(***************************************************************************)
EXTENDS VmService, SequenceTheorems, FiniteSetTheorems, TLAPS

-----------------------------------------------------------------------------
(* The inductive invariant *)

StartOps == {"start_vm", "_start_vm"}
PowerOps == StartOps \cup {"shut_off_vm", "_shut_off_vm"}
ChangeOps == {"edit_vm", "_edit_shut_offed_vm", "delete_vm", "_delete_vm"}

\* Which handlers pass through which point.
OpsAt == [idle |-> {"none"}, cast |-> {"create_vm", "start_vm", "shut_off_vm"},
          commit |-> {"delete_vm", "edit_vm"}, start |-> CastOps, ack |-> CastOps,
          snapshots |-> {"_delete_vm"}, detach |-> {"_delete_vm", "_edit_shut_offed_vm"},
          make |-> {"_create_vm", "_edit_shut_offed_vm"},
          attach |-> {"_create_vm", "_edit_shut_offed_vm"},
          status |-> {"_create_vm", "_edit_shut_offed_vm"},
          domain |-> {"_start_vm", "_shut_off_vm"}]

\* A machine that is turned on or off has a row, and is started with the disks the
\* row has.
PowerJob(j) ==
  /\ j.op \in PowerOps => Exists(j.vm)
  /\ j.op \in StartOps => j.add = rows[j.vm].disks

\* Where the handler is, and what it knows of the disks there.
JobOK ==
  /\ job.op \in OpsAt[job.pc]
  /\ job.op = "none" => job = NoJob
  /\ job.op # "none" => job.vm \in VMs
  /\ job.pc \in {"cast", "start", "snapshots", "make"} => job.done = {}
  /\ job.pc = "attach" => Wanted \cap rows[job.vm].disks = {}
  /\ job.pc = "detach" =>
       /\ job.done \subseteq job.drop /\ job.drop \subseteq rows[job.vm].disks
       /\ job.op = "_delete_vm" => job.drop = rows[job.vm].disks
  /\ PowerJob(job)

\* One piece of work at a time: a cast waits only while no handler runs, or the one
\* that sent it.
CastsOK ==
  /\ casts # <<>> => job = NoJob \/ job.pc = "commit"
  /\ Len(casts) <= 1
  /\ \A i \in DOMAIN casts :
       /\ casts[i].op \in CastOps /\ casts[i].pc = "start"
       /\ casts[i].vm \in VMs /\ casts[i].done = {}
       /\ PowerJob(casts[i])

\* What the handler asked of the domain.
CallOf == [op |-> IF job.op = "_start_vm" THEN "start" ELSE "turn_off",
           vm |-> job.vm, disks |-> job.add, owner |-> "svc"]

\* As long as nothing timed out or died, a request in the domain queue is the one
\* the handler waits for.
CallsOK ==
  timeouts = 0 /\ crashes = 0 =>
    /\ reply # "timeout"
    /\ reply # "none" => job.pc = "domain" /\ domQ = <<>>
    /\ domQ # <<>> => job.pc = "domain" /\ reply = "none" /\ domQ = <<CallOf>>

\* A machine in between is the subject of a power operation that is not over.
InTransition(v) == rows[v].status \in {"starting", "shut_offing"}
TransitionsOK ==
  timeouts = 0 /\ crashes = 0 =>
    \A v \in VMs : InTransition(v) =>
      \/ job.vm = v /\ job.op \in PowerOps /\ job.pc # "ack"
      \/ \E i \in DOMAIN casts : casts[i].vm = v /\ casts[i].op \in PowerOps

GuestsOK == \A v \in VMs : ~On(v) => guests[v].disks = {}

\* Without faults and old listings, a machine that is on says so in its row, or is
\* about to; it is neither edited nor deleted; and it uses disks of its row.
JustStarted(v) == job.op = "_start_vm" /\ job.vm = v /\ job.pc = "domain" /\ reply = "ok"
Sound == failures = 0 /\ crashes = 0 /\ timeouts = 0 /\ ~stale
PowerOK ==
  Sound =>
    /\ \A v \in VMs : On(v) => rows[v].power = "running" \/ JustStarted(v)
    /\ \A v \in VMs : guests[v].disks \subseteq rows[v].disks
    /\ job.op \in ChangeOps => ~On(job.vm)
    /\ \A i \in DOMAIN casts : casts[i].op \in ChangeOps => ~On(casts[i].vm)
    /\ job.op = "_shut_off_vm" /\ reply = "ok" => ~On(job.vm)

IInv == TypeOK /\ JobOK /\ CastsOK /\ CallsOK /\ TransitionsOK /\ GuestsOK /\ AttachmentsAgree /\ PowerOK

-----------------------------------------------------------------------------
(* Handlers and their casts *)

LEMMA OpsAre ==
  /\ ApiOps = {"create_vm", "delete_vm", "start_vm", "shut_off_vm", "edit_vm"}
  /\ CastOps = {"_create_vm", "_delete_vm", "_start_vm", "_shut_off_vm", "_edit_shut_offed_vm"}
  /\ CastOf["create_vm"] = "_create_vm" /\ CastOf["start_vm"] = "_start_vm"
  /\ CastOf["shut_off_vm"] = "_shut_off_vm"
<1>1. ApiOps = {"create_vm", "delete_vm", "start_vm", "shut_off_vm", "edit_vm"}
  BY DEF ApiOps, CastOf
<1> QED BY <1>1 DEF CastOps, CastOf

LEMMA Bounds == MaxMake \in Nat /\ MaxFaults \in Nat /\ 0 \in 0..MaxMake /\ 0 \in 0..MaxFaults
BY VmAssumption

LEMMA IdleJob ==
  /\ NoJob \in Jobs /\ NoJob.op = "none" /\ NoJob.vm = NoVM /\ NoJob.done = {} /\ NoJob.add = {}
  /\ NoJob.pc = "idle"
BY Bounds DEF NoJob, Jobs

LEMMA NewJob ==
  ASSUME NEW op \in ApiOps \cup CastOps, NEW v \in VMs,
         NEW pc \in {"cast", "commit", "start"}
  PROVE  /\ Job(op, v, pc) \in Jobs
         /\ Job(op, v, pc).op = op /\ Job(op, v, pc).vm = v /\ Job(op, v, pc).pc = pc
         /\ Job(op, v, pc).done = {} /\ Job(op, v, pc).add = {}
BY IdleJob DEF Job, Jobs

\* A job with the disks of its request.
LEMMA WithDisks ==
  ASSUME NEW j \in Jobs, NEW add \in SUBSET Disks, NEW n \in 0..MaxMake, NEW drop \in SUBSET Disks
  PROVE  /\ [j EXCEPT !.add = add] \in Jobs
         /\ [j EXCEPT !.add = add, !.make = n] \in Jobs
         /\ [j EXCEPT !.add = add, !.make = n, !.drop = drop] \in Jobs
         /\ \A r \in {[j EXCEPT !.add = add], [j EXCEPT !.add = add, !.make = n],
                      [j EXCEPT !.add = add, !.make = n, !.drop = drop]} :
              r.op = j.op /\ r.vm = j.vm /\ r.pc = j.pc /\ r.done = j.done /\ r.add = add
BY DEF Jobs

LEMMA JobEnds ==
  ASSUME job \in Jobs
  PROVE  /\ Ended \in Jobs
         /\ job.op \notin CastOps => Ended = NoJob
         /\ job.op \in CastOps => Ended.pc = "ack" /\ Ended.op = job.op /\ Ended.vm = job.vm
         /\ Ended.pc \in {"ack", "idle"} /\ Ended.add \in {{}, job.add}
<1>1. CASE job.op \in CastOps
  <2>1. Ended = [job EXCEPT !.pc = "ack"]
    BY <1>1 DEF Ended
  <2>2. Ended \in Jobs /\ Ended.pc = "ack" /\ Ended.op = job.op /\ Ended.vm = job.vm
      /\ Ended.add = job.add
    BY <2>1 DEF Jobs
  <2> QED BY <1>1, <2>2
<1>2. CASE job.op \notin CastOps
  <2>1. Ended = NoJob
    BY <1>2 DEF Ended
  <2> QED BY <1>2, <2>1, IdleJob
<1> QED BY <1>1, <1>2

\* What the handlers do to the job they are.
LEMMA JobGoes ==
  ASSUME job \in Jobs, NEW pc \in {"start", "snapshots", "detach", "make", "attach", "status", "domain"},
         Goto(pc)
  PROVE  /\ job' \in Jobs /\ job'.pc = pc /\ job'.op = job.op /\ job'.vm = job.vm
         /\ job'.done = job.done /\ job'.add = job.add /\ job'.got = job.got /\ job'.drop = job.drop
BY DEF Goto, Jobs

\* The cast of a request that is published, and the one that is delivered again.
Published == [job EXCEPT !.op = CastOf[@], !.pc = "start"]
Restarted == [job EXCEPT !.pc = "start", !.tries = 0, !.got = {}, !.done = {}]

LEMMA JobPublished ==
  ASSUME job \in Jobs, job.op \in {"create_vm", "start_vm", "shut_off_vm"}
  PROVE  /\ Published \in Jobs /\ Published.op = CastOf[job.op] /\ Published.pc = "start"
         /\ Published.vm = job.vm /\ Published.done = job.done /\ Published.add = job.add
         /\ Published.op \in CastOps
<1>1. CastOf[job.op] \in CastOps
  BY OpsAre
<1>2. CastOf[job.op] \in ApiOps \cup CastOps \cup {"none"}
  BY <1>1
<1> QED BY <1>1, <1>2 DEF Published, Jobs

LEMMA JobRestarted ==
  ASSUME job \in Jobs
  PROVE  /\ Restarted \in Jobs /\ Restarted.op = job.op /\ Restarted.pc = "start"
         /\ Restarted.vm = job.vm /\ Restarted.done = {} /\ Restarted.add = job.add
BY Bounds DEF Restarted, Jobs

-----------------------------------------------------------------------------
(* Rows *)

\* What no step but those named does to a row.
RowKept(u) ==
  /\ rows'[u].disks = rows[u].disks \/ (job.vm = u /\ (AttachCommit \/ EditDetached \/ DeleteFinish))
  /\ Exists(u) => Exists(u)' \/ (job.vm = u /\ DeleteFinish)
  /\ rows'[u].power = rows[u].power \/ PowerFinish \/ MonitorWrite \/ DeleteFinish
  /\ InTransition(u)' => InTransition(u) \/ StartVm(u) \/ ShutOffVm(u)
RowsGo == rows' \in [VMs -> Rows] /\ \A u \in VMs : RowKept(u)

LEMMA StatusSet ==
  ASSUME rows \in [VMs -> Rows], NEW v \in VMs, NEW s \in VmStatus, SetStatus(v, s)
  PROVE  /\ rows' \in [VMs -> Rows]
         /\ \A u \in VMs : /\ rows'[u].disks = rows[u].disks /\ rows'[u].power = rows[u].power
                           /\ rows'[u].status = IF u = v THEN s ELSE rows[u].status
BY DEF SetStatus, Rows

\* A status that a handler writes and that is not the one of an operation under way.
LEMMA StatusGoes ==
  ASSUME rows \in [VMs -> Rows], NEW v \in VMs,
         NEW s \in VmStatus \ {"starting", "shut_offing"}, SetStatus(v, s)
  PROVE  RowsGo
<1>1. s \notin {"none", "deleted"}
  BY DEF VmStatus
<1> QED BY <1>1, StatusSet DEF RowsGo, RowKept, Exists, InTransition

LEMMA RowsUnchanged ==
  ASSUME rows \in [VMs -> Rows], UNCHANGED rows
  PROVE  RowsGo
BY DEF RowsGo, RowKept, Exists, InTransition

LEMMA RowInserted ==
  ASSUME rows \in [VMs -> Rows], NEW v \in VMs, NEW add, NEW n, CreateVm(v, add, n)
  PROVE  RowsGo
<1>1. SetStatus(v, "new")
  BY DEF CreateVm, SetStatus
<1> QED BY <1>1, StatusGoes DEF VmStatus

LEMMA RowAttached ==
  ASSUME rows \in [VMs -> Rows], job \in Jobs, job.vm \in VMs, AttachCommit
  PROVE  /\ RowsGo
         /\ \A u \in VMs : rows'[u].disks = IF u = job.vm THEN rows[u].disks \cup job.done ELSE rows[u].disks
<1>1. rows' = [rows EXCEPT ![job.vm].disks = @ \cup job.done] /\ job.done \subseteq Disks
  BY DEF AttachCommit, Jobs
<1>2. rows' \in [VMs -> Rows]
  BY <1>1 DEF Rows
<1>3. \A u \in VMs : /\ rows'[u].status = rows[u].status /\ rows'[u].power = rows[u].power
                     /\ rows'[u].disks = IF u = job.vm THEN rows[u].disks \cup job.done ELSE rows[u].disks
  BY <1>1 DEF Rows
<1> QED BY <1>2, <1>3 DEF RowsGo, RowKept, Exists, InTransition

LEMMA RowDetached ==
  ASSUME rows \in [VMs -> Rows], job \in Jobs, job.vm \in VMs, EditDetached
  PROVE  /\ RowsGo
         /\ \A u \in VMs : rows'[u].disks = IF u = job.vm THEN rows[u].disks \ job.drop ELSE rows[u].disks
<1>1. rows' = [rows EXCEPT ![job.vm].disks = @ \ job.drop]
  BY DEF EditDetached
<1>2. rows' \in [VMs -> Rows]
  BY <1>1 DEF Rows
<1>3. \A u \in VMs : /\ rows'[u].status = rows[u].status /\ rows'[u].power = rows[u].power
                     /\ rows'[u].disks = IF u = job.vm THEN rows[u].disks \ job.drop ELSE rows[u].disks
  BY <1>1 DEF Rows
<1> QED BY <1>2, <1>3 DEF RowsGo, RowKept, Exists, InTransition

LEMMA RowDeleted ==
  ASSUME rows \in [VMs -> Rows], job.vm \in VMs, DeleteFinish
  PROVE  /\ RowsGo
         /\ \A u \in VMs : u # job.vm => rows'[u] = rows[u]
         /\ rows'[job.vm].disks = {} /\ rows'[job.vm].status = "deleted"
<1> DEFINE r == [NoRow EXCEPT !.status = "deleted"]
<1>1. r \in Rows /\ r.disks = {} /\ r.status = "deleted"
  BY DEF NoRow, Rows, VmPowerState
<1>2. rows' = [rows EXCEPT ![job.vm] = r]
  BY DEF DeleteFinish
<1> HIDE DEF r
<1>3. /\ rows' \in [VMs -> Rows] /\ rows'[job.vm] = r
      /\ \A u \in VMs : u # job.vm => rows'[u] = rows[u]
  BY <1>1, <1>2
<1>4. ASSUME NEW u \in VMs PROVE RowKept(u)
  BY <1>1, <1>3 DEF RowKept, Exists, InTransition
<1> QED BY <1>1, <1>3, <1>4 DEF RowsGo

\* The end of a power operation: the row of a machine, if it is still there, says what
\* the domain answered.
LEMMA RowPowered ==
  ASSUME rows \in [VMs -> Rows], job.vm \in VMs, PowerFinish
  PROVE  /\ RowsGo
         /\ \A u \in VMs : u # job.vm => rows'[u] = rows[u]
         /\ rows'[job.vm].power =
              IF Exists(job.vm) /\ reply \notin {"timeout", "err"}
              THEN IF job.op = "_start_vm" THEN "running" ELSE "shut_off"
              ELSE rows[job.vm].power
         /\ reply # "timeout" /\ Exists(job.vm) => rows'[job.vm].status \in {"available", "error"}
<1>1. CASE ~Exists(job.vm) \/ reply = "timeout"
  <2>1. UNCHANGED rows
    BY <1>1 DEF PowerFinish
  <2> QED BY <1>1, <2>1, RowsUnchanged
<1>2. CASE Exists(job.vm) /\ reply = "err"
  <2>1. SetStatus(job.vm, "error")
    BY <1>2 DEF PowerFinish
  <2>2. RowsGo /\ "error" \in VmStatus
    BY <2>1, StatusGoes DEF VmStatus
  <2> QED BY <1>2, <2>1, <2>2, StatusSet DEF SetStatus
<1>3. CASE Exists(job.vm) /\ reply \notin {"timeout", "err"}
  <2> DEFINE p == IF job.op = "_start_vm" THEN "running" ELSE "shut_off"
  <2>1. rows' = [rows EXCEPT ![job.vm].status = "available", ![job.vm].power = p]
    BY <1>3 DEF PowerFinish
  <2>2. p \in VmPowerState /\ "available" \in VmStatus
    BY DEF VmPowerState, VmStatus
  <2> HIDE DEF p
  <2>3. rows' \in [VMs -> Rows]
    BY <2>1, <2>2 DEF Rows
  <2>4. /\ \A u \in VMs : u # job.vm => rows'[u] = rows[u]
        /\ rows'[job.vm].power = p /\ rows'[job.vm].status = "available"
        /\ rows'[job.vm].disks = rows[job.vm].disks
    BY <2>1, <2>2 DEF Rows
  <2>5. RowsGo
    BY <2>3, <2>4 DEF RowsGo, RowKept, Exists, InTransition
  <2> QED BY <1>3, <2>4, <2>5 DEF p
<1> QED BY <1>1, <1>2, <1>3

\* The monitoring writes a power state it listed, and no status but available.
LEMMA RowsMonitored ==
  ASSUME rows \in [VMs -> Rows], mon \in Monitors, MonitorWrite
  PROVE  /\ RowsGo
         /\ \A u \in VMs : \/ rows'[u].power = rows[u].power
                           \/ rows'[u].power = mon.list[u] /\ (~stale' => mon.list[u] = guests[u].state)
<1>1. CASE UNCHANGED rows
  BY <1>1, RowsUnchanged
<1>2. CASE \A v \in Touched : Exists(v)
  <2>1. /\ rows' = [v \in VMs |->
                 IF v \notin Touched THEN rows[v]
                 ELSE [rows[v] EXCEPT
                   !.power = IF Observed(v).power # mon.seen[v].power
                             THEN Observed(v).power ELSE @,
                   !.status = IF Observed(v).status # mon.seen[v].status
                              THEN Observed(v).status ELSE @]]
        /\ stale' = (stale \/ \E v \in Touched : mon.list[v] # guests[v].state)
    BY <1>2 DEF MonitorWrite
  <2>2. ASSUME NEW v \in VMs
        PROVE  /\ Observed(v).power = mon.list[v] /\ mon.list[v] \in VmPowerState
               /\ Observed(v).status # mon.seen[v].status => Observed(v).status = "available"
    BY DEF Observed, Monitors, Rows
  <2>3. ASSUME NEW v \in VMs
        PROVE  /\ rows'[v] \in Rows /\ rows'[v].disks = rows[v].disks
               /\ \/ rows'[v].power = rows[v].power
                  \/ rows'[v].power = mon.list[v] /\ v \in Touched
               /\ \/ rows'[v].status = rows[v].status
                  \/ rows'[v].status = "available"
    <3>1. CASE v \notin Touched
      <4>1. rows'[v] = rows[v]
        BY <2>1, <3>1
      <4> QED BY <4>1
    <3>2. CASE v \in Touched
      <4> DEFINE p == IF Observed(v).power # mon.seen[v].power
                      THEN Observed(v).power ELSE rows[v].power
                 s == IF Observed(v).status # mon.seen[v].status
                      THEN Observed(v).status ELSE rows[v].status
      <4>1. rows'[v] = [rows[v] EXCEPT !.power = p, !.status = s]
        BY <2>1, <3>2
      <4>2. rows[v] \in Rows /\ p \in {rows[v].power, mon.list[v]} /\ s \in {rows[v].status, "available"}
        BY <2>2
      <4>3. p \in VmPowerState /\ s \in VmStatus \cup {"none", "deleted"}
        BY <2>2, <4>2 DEF Rows, VmStatus
      <4> HIDE DEF p, s
      <4>4. rows'[v] \in Rows /\ rows'[v].disks = rows[v].disks /\ rows'[v].power = p /\ rows'[v].status = s
        BY <4>1, <4>2, <4>3 DEF Rows
      <4> QED BY <3>2, <4>2, <4>4
    <3> QED BY <3>1, <3>2
  <2>4. rows' \in [VMs -> Rows]
    <3>1. DOMAIN rows' = VMs /\ rows' = [v \in DOMAIN rows' |-> rows'[v]]
      BY <2>1
    <3> QED BY <2>3, <3>1
  <2>5. RowsGo
    BY <2>3, <2>4 DEF RowsGo, RowKept, Exists, InTransition
  <2> QED BY <2>1, <2>3, <2>5
<1> QED BY <1>1, <1>2 DEF MonitorWrite

LEMMA JobFacts ==
  ASSUME JobOK
  PROVE  /\ job.op \in OpsAt[job.pc]
         /\ job.op # "none" => job.vm \in VMs
         /\ job.pc \in {"cast", "commit", "start", "ack", "snapshots", "detach", "make", "attach",
                        "status", "domain"} => job.op # "none" /\ job.vm \in VMs
<1>1. job.pc \in {"cast", "commit", "start", "ack", "snapshots", "detach", "make", "attach",
                  "status", "domain"} => "none" \notin OpsAt[job.pc]
  BY OpsAre DEF OpsAt
<1> QED BY <1>1 DEF JobOK

LEMMA RowFrames ==
  ASSUME [Next]_vars
  PROVE  \/ UNCHANGED rows
         \/ MakeVolume \/ CheckDuplicates \/ AttachDisk \/ AttachCommit \/ StatusCommit \/ LateCommit
         \/ DeleteStart \/ DeleteSnapshots \/ DeleteFinish \/ PowerFinish \/ EditDetached
         \/ MonitorWrite
         \/ \E v \in VMs : DeleteVm(v) \/ StartVm(v) \/ ShutOffVm(v)
         \/ \E v \in VMs, add \in SUBSET OldDisks, n \in 0..MaxMake : CreateVm(v, add, n)
BY DEF Next, vars, ApiRequest, ApiCreate, ApiEdit, ApiPower, HandlerStep, MonitorStep, TakeCast,
       AckCast, PublishCast, CreateStart, EditVm, DetachDisk, PowerCall, EditStart, DomainExecute,
       DomainStartsHalf, DomainCrash, GuestStops, ServiceTimeout, ServiceCrash, MonitorList,
       MonitorLoad

LEMMA RowsStep ==
  ASSUME TypeOK, JobOK, [Next]_vars
  PROVE  RowsGo
<1>0. rows \in [VMs -> Rows] /\ job \in Jobs /\ mon \in Monitors
  BY DEF TypeOK
<1>1. {"available", "error", "deleting", "editing", "deleting_snapshots", "detaching_disks"}
        \subseteq VmStatus \ {"starting", "shut_offing"}
  BY DEF VmStatus
<1>2. CASE UNCHANGED rows
  BY <1>0, <1>2, RowsUnchanged
<1>3. CASE MakeVolume \/ CheckDuplicates \/ AttachDisk \/ StatusCommit
  <2>1. job.vm \in VMs
    BY <1>3, JobFacts DEF MakeVolume, CheckDuplicates, AttachDisk, StatusCommit
  <2>2. UNCHANGED rows \/ SetStatus(job.vm, "available")
    BY <1>3 DEF MakeVolume, CheckDuplicates, AttachDisk, StatusCommit
  <2> QED BY <1>0, <1>1, <2>1, <2>2, StatusGoes, RowsUnchanged
<1>4. CASE LateCommit \/ DeleteStart \/ DeleteSnapshots
  <2>1. job.vm \in VMs
    BY <1>4, JobFacts DEF LateCommit, DeleteStart, DeleteSnapshots, At
  <2>2. \/ UNCHANGED rows
        \/ \E s \in {"deleting", "editing", "deleting_snapshots", "detaching_disks"} : SetStatus(job.vm, s)
    BY <1>4 DEF LateCommit, DeleteStart, DeleteSnapshots
  <2> QED BY <1>0, <1>1, <2>1, <2>2, StatusGoes, RowsUnchanged
<1>5. CASE AttachCommit
  BY <1>0, <1>5, JobFacts, RowAttached DEF AttachCommit
<1>6. CASE EditDetached
  BY <1>0, <1>6, JobFacts, RowDetached DEF EditDetached, At
<1>7. CASE DeleteFinish
  BY <1>0, <1>7, JobFacts, RowDeleted DEF DeleteFinish, At
<1>8. CASE PowerFinish
  BY <1>0, <1>8, JobFacts, RowPowered DEF PowerFinish
<1>9. CASE MonitorWrite
  BY <1>0, <1>9, RowsMonitored
<1>10. ASSUME NEW v \in VMs, DeleteVm(v) PROVE RowsGo
  <2>1. UNCHANGED rows \/ SetStatus(v, "error")
    BY <1>10 DEF DeleteVm
  <2> QED BY <1>0, <1>1, <2>1, StatusGoes, RowsUnchanged
<1>11. ASSUME NEW v \in VMs, StartVm(v) \/ ShutOffVm(v) PROVE RowsGo
  <2>1. PICK s \in {"starting", "shut_offing"} : SetStatus(v, s)
    BY <1>11 DEF StartVm, ShutOffVm
  <2>2. s \in VmStatus /\ s \notin {"none", "deleted"}
    BY DEF VmStatus
  <2> QED BY <1>0, <1>11, <2>1, <2>2, StatusSet DEF RowsGo, RowKept, Exists, InTransition
<1>12. ASSUME NEW v \in VMs, NEW add \in SUBSET OldDisks, NEW n \in 0..MaxMake, CreateVm(v, add, n)
       PROVE RowsGo
  BY <1>0, <1>12, RowInserted
<1> QED BY <1>2, <1>3, <1>4, <1>5, <1>6, <1>7, <1>8, <1>9, <1>10, <1>11, <1>12, RowFrames

-----------------------------------------------------------------------------
(* Types *)

LEMMA JobFrames ==
  ASSUME [Next]_vars
  PROVE  \/ UNCHANGED <<job, casts>>
         \/ TakeCast \/ AckCast \/ PublishCast \/ LateCommit
         \/ CreateStart \/ MakeVolume \/ CheckDuplicates \/ AttachDisk \/ AttachCommit \/ StatusCommit
         \/ DeleteStart \/ DeleteSnapshots \/ DetachDisk \/ DeleteFinish
         \/ PowerCall \/ PowerFinish \/ EditStart \/ EditDetached \/ ServiceCrash
         \/ \E v \in VMs : DeleteVm(v) \/ StartVm(v) \/ ShutOffVm(v)
         \/ \E v \in VMs, add \in SUBSET OldDisks, n \in 0..MaxMake : CreateVm(v, add, n)
         \/ \E v \in VMs, add \in SUBSET OldDisks, n \in 0..MaxMake, drop \in SUBSET Disks :
              EditVm(v, add, n, drop)
BY DEF Next, vars, ApiRequest, ApiCreate, ApiEdit, ApiPower, HandlerStep, MonitorStep, DomainExecute,
       DomainStartsHalf, DomainCrash, GuestStops, ServiceTimeout, MonitorList, MonitorLoad,
       MonitorWrite

\* A handler that goes on, or ends.
Goes == \/ Done
        \/ \E pc \in {"snapshots", "detach", "make", "attach", "status", "domain"} : Goto(pc)

LEMMA GoesTyped ==
  ASSUME job \in Jobs, Goes
  PROVE  job' \in Jobs
BY JobEnds, JobGoes DEF Goes, Done

LEMMA MakeTyped ==
  ASSUME job \in Jobs, MakeVolume
  PROVE  /\ job' \in Jobs
         /\ \/ job' = Ended
            \/ /\ job'.op = job.op /\ job'.vm = job.vm /\ job'.pc = "make" /\ job'.done = job.done
               /\ job'.add = job.add
         /\ made' \subseteq made \cup NewDisks
<1>1. PICK outcome \in MakeOutcomes \cup {"refused"}, d \in NewDisks \ made :
        /\ made' = IF outcome = "refused" THEN made ELSE made \cup {d}
        /\ job' = CASE outcome = "available" -> [job EXCEPT !.tries = @ + 1, !.got = @ \cup {d}]
                    [] outcome \in {"slow", "refused"} -> [job EXCEPT !.tries = @ + 1]
                    [] outcome = "raised" -> Ended
  BY DEF MakeVolume
<1>2. job.tries + 1 \in 0..MaxMake /\ d \in Disks /\ job.pc = "make"
  BY Bounds DEF MakeVolume, Jobs, Disks
<1>3. CASE outcome = "available"
  <2>1. job' = [job EXCEPT !.tries = @ + 1, !.got = @ \cup {d}]
    BY <1>1, <1>3
  <2>2. job.got \cup {d} \in SUBSET Disks
    BY <1>2 DEF Jobs
  <2>3. PICK t \in 0..MaxMake, g \in SUBSET Disks : job' = [job EXCEPT !.tries = t, !.got = g]
    BY <1>2, <2>1, <2>2
  <2>4. /\ job' \in Jobs /\ job'.op = job.op /\ job'.vm = job.vm /\ job'.pc = job.pc
        /\ job'.done = job.done /\ job'.add = job.add
    BY <2>3 DEF Jobs
  <2> QED BY <1>1, <1>2, <2>4
<1>4. CASE outcome \in {"slow", "refused"}
  <2>1. job' = [job EXCEPT !.tries = @ + 1]
    BY <1>1, <1>4
  <2> QED BY <1>1, <1>2, <2>1 DEF Jobs
<1>5. CASE outcome = "raised"
  <2>1. job' = Ended
    BY <1>1, <1>5
  <2> QED BY <1>1, <2>1, JobEnds
<1> QED BY <1>3, <1>4, <1>5 DEF MakeOutcomes

\* One disk that is attached or detached, or the end of the handler.
LEMMA DisksTyped ==
  ASSUME job \in Jobs, attached \in [VMs -> [Disks -> Nat]], job.vm \in VMs,
         AttachDisk \/ DetachDisk
  PROVE  /\ \/ job' = Ended
            \/ /\ job'.op = job.op /\ job'.vm = job.vm /\ job'.pc = job.pc /\ job'.add = job.add
               /\ job'.got = job.got /\ job'.drop = job.drop
         /\ job' \in Jobs
         /\ attached' \in [VMs -> [Disks -> Nat]]
<1>1. PICK d \in Disks :
        /\ job' = [job EXCEPT !.done = @ \cup {d}] \/ job' = Ended
        /\ attached' \in {attached, Attached(job.vm, d), Detached(job.vm, d)}
  BY DEF AttachDisk, DetachDisk, Wanted, Done, Jobs
<1>2. attached' \in [VMs -> [Disks -> Nat]]
  <2>1. attached[job.vm][d] \in Nat
    OBVIOUS
  <2>2. attached[job.vm][d] + 1 \in Nat /\ attached[job.vm][d] \div 2 \in Nat
    BY ONLY <2>1
  <2>3. PICK n \in Nat : attached' = attached \/ attached' = [attached EXCEPT ![job.vm][d] = n]
    BY <1>1, <2>1, <2>2 DEF Attached, Detached
  <2> QED BY <2>3
<1>3. CASE job' = [job EXCEPT !.done = @ \cup {d}]
  <2>1. job.done \cup {d} \in SUBSET Disks
    BY DEF Jobs
  <2>2. PICK x \in SUBSET Disks : job' = [job EXCEPT !.done = x]
    BY <1>3, <2>1
  <2>3. /\ job' \in Jobs /\ job'.op = job.op /\ job'.vm = job.vm /\ job'.pc = job.pc
        /\ job'.add = job.add /\ job'.got = job.got /\ job'.drop = job.drop
    BY <2>2 DEF Jobs
  <2> QED BY <1>2, <2>3
<1>4. CASE job' = Ended
  BY <1>2, <1>4, JobEnds
<1> QED BY <1>1, <1>3, <1>4

LEMMA AddTail ==
  ASSUME NEW S, NEW q \in Seq(S), NEW e \in S
  PROVE  /\ Append(q, e) \in Seq(S)
         /\ q # <<>> => Tail(q) \in Seq(S) /\ Head(q) \in S
         /\ <<e>> \o q \in Seq(S)
OBVIOUS

\* What the handlers of the API start with.
LEMMA ApiTyped ==
  ASSUME TypeOK, NEW v \in VMs
  PROVE  /\ DeleteVm(v) \/ StartVm(v) \/ ShutOffVm(v) => job' \in Jobs /\ casts' \in Seq(Jobs)
         /\ \A add \in SUBSET OldDisks, n \in 0..MaxMake :
              CreateVm(v, add, n) => job' \in Jobs /\ casts' \in Seq(Jobs)
         /\ \A add \in SUBSET OldDisks, n \in 0..MaxMake, drop \in SUBSET Disks :
              EditVm(v, add, n, drop) => job' \in Jobs /\ casts' \in Seq(Jobs)
<1>0. casts \in Seq(Jobs) /\ job \in Jobs /\ rows[v].disks \in SUBSET Disks
  BY DEF TypeOK, Rows
<1>1. /\ Job("_delete_vm", v, "start") \in Jobs /\ Job("delete_vm", v, "commit") \in Jobs
      /\ Job("start_vm", v, "cast") \in Jobs /\ Job("shut_off_vm", v, "cast") \in Jobs
      /\ Job("create_vm", v, "cast") \in Jobs /\ Job("edit_vm", v, "commit") \in Jobs
      /\ Job("_edit_shut_offed_vm", v, "start") \in Jobs
  BY NewJob, OpsAre
<1>2. \A add \in SUBSET OldDisks : add \in SUBSET Disks
  BY DEF Disks
<1>3. [Job("start_vm", v, "cast") EXCEPT !.add = rows[v].disks] \in Jobs
  BY <1>0, <1>1, WithDisks, Bounds
<1>4. ASSUME NEW add \in SUBSET OldDisks, NEW n \in 0..MaxMake
      PROVE  CreateJob(v, add, n) \in Jobs
  BY <1>1, <1>2, WithDisks DEF CreateJob
<1>5. ASSUME NEW add \in SUBSET OldDisks, NEW n \in 0..MaxMake, NEW drop \in SUBSET Disks
      PROVE  EditJob(v, add, n, drop) \in Jobs
  BY <1>1, <1>2, WithDisks DEF EditJob
<1>6. DeleteVm(v) => job' \in Jobs /\ casts' \in Seq(Jobs)
  BY <1>0, <1>1, AddTail DEF DeleteVm
<1>7. StartVm(v) \/ ShutOffVm(v) => job' \in Jobs /\ casts' \in Seq(Jobs)
  BY <1>0, <1>1, <1>3 DEF StartVm, ShutOffVm
<1>8. \A add \in SUBSET OldDisks, n \in 0..MaxMake :
        CreateVm(v, add, n) => job' \in Jobs /\ casts' \in Seq(Jobs)
  BY <1>0, <1>4 DEF CreateVm
<1>9. \A add \in SUBSET OldDisks, n \in 0..MaxMake, drop \in SUBSET Disks :
        EditVm(v, add, n, drop) => job' \in Jobs /\ casts' \in Seq(Jobs)
  BY <1>0, <1>1, <1>5, AddTail DEF EditVm
<1> QED BY <1>6, <1>7, <1>8, <1>9

LEMMA JobTyped ==
  ASSUME TypeOK, JobOK, [Next]_vars
  PROVE  job' \in Jobs /\ casts' \in Seq(Jobs)
<1>0. /\ casts \in Seq(Jobs) /\ job \in Jobs /\ rows \in [VMs -> Rows]
      /\ attached \in [VMs -> [Disks -> Nat]]
  BY DEF TypeOK
<1>1. CASE UNCHANGED <<job, casts>>
  BY <1>0, <1>1
<1>2. CASE TakeCast \/ AckCast
  BY <1>0, <1>2, IdleJob, AddTail DEF TakeCast, AckCast
<1>3. CASE PublishCast
  <2>1. Published \in Jobs
    BY <1>0, <1>3, JobFacts, JobPublished DEF PublishCast, OpsAt
  <2> QED BY <1>0, <1>3, <2>1, IdleJob, AddTail DEF PublishCast, Published
<1>4. CASE \/ LateCommit \/ CreateStart \/ CheckDuplicates \/ StatusCommit \/ DeleteStart
           \/ DeleteFinish \/ PowerCall \/ PowerFinish \/ EditStart
  <2>1. UNCHANGED casts
    BY <1>4 DEF LateCommit, CreateStart, CheckDuplicates, StatusCommit, DeleteStart,
                DeleteFinish, PowerCall, PowerFinish, EditStart
  <2>2. Goes
    BY <1>4 DEF LateCommit, CreateStart, CheckDuplicates, StatusCommit, DeleteStart,
                DeleteFinish, PowerCall, PowerFinish, EditStart, Goes
  <2> QED BY <1>0, <2>1, <2>2, GoesTyped
<1>5. CASE MakeVolume
  BY <1>0, <1>5, MakeTyped DEF MakeVolume
<1>6. CASE AttachDisk \/ DetachDisk
  <2>1. job.vm \in VMs /\ UNCHANGED casts
    BY <1>6, JobFacts DEF AttachDisk, DetachDisk
  <2> QED BY <1>0, <1>6, <2>1, DisksTyped
<1>7. CASE AttachCommit \/ EditDetached
  <2>1. UNCHANGED casts /\ \E pc \in {"status", "make"} : job' = [job EXCEPT !.pc = pc, !.done = {}]
    BY <1>7 DEF AttachCommit, EditDetached
  <2> QED BY <1>0, <2>1 DEF Jobs
<1>8. CASE DeleteSnapshots
  <2>1. UNCHANGED casts /\ rows[job.vm].disks \in SUBSET Disks
    BY <1>0, <1>8, JobFacts DEF DeleteSnapshots, At, Rows
  <2>2. Done \/ job' = [job EXCEPT !.pc = "detach", !.drop = rows[job.vm].disks]
    BY <1>8 DEF DeleteSnapshots
  <2>3. CASE Done
    BY <1>0, <2>1, <2>3, JobEnds DEF Done
  <2>4. CASE job' = [job EXCEPT !.pc = "detach", !.drop = rows[job.vm].disks]
    BY <1>0, <2>1, <2>4 DEF Jobs
  <2> QED BY <2>2, <2>3, <2>4
<1>9. CASE ServiceCrash
  <2>1. Restarted \in Jobs
    BY <1>0, JobRestarted
  <2> QED BY <1>0, <1>9, <2>1, IdleJob, AddTail DEF ServiceCrash, Restarted
<1> QED BY <1>1, <1>2, <1>3, <1>4, <1>5, <1>6, <1>7, <1>8, <1>9, ApiTyped, JobFrames

\* The other variables.
LEMMA GuestSet ==
  ASSUME guests \in [VMs -> Guests], NEW v \in VMs, NEW g \in Guests, guests' = [guests EXCEPT ![v] = g]
  PROVE  guests' \in [VMs -> Guests]
OBVIOUS

LEMMA EffectOf ==
  ASSUME guests \in [VMs -> Guests], NEW r \in Requests
  PROVE  /\ Effect(r) \in [VMs -> Guests]
         /\ \A u \in VMs : u # r.vm => Effect(r)[u] = guests[u]
         /\ Effect(r)[r.vm] = IF r.op = "start" THEN [state |-> "running", disks |-> r.disks] ELSE Off
<1>1. [state |-> "running", disks |-> r.disks] \in Guests /\ Off \in Guests /\ r.vm \in VMs
  BY DEF Guests, Off, VmPowerState, Requests
<1> QED BY <1>1 DEF Effect

LEMMA DisownedTyped ==
  ASSUME domQ \in Seq(Requests)
  PROVE  /\ Disowned \in Seq(Requests) /\ Len(Disowned) = Len(domQ)
<1>1. \A i \in DOMAIN domQ : [domQ[i] EXCEPT !.owner = "none"] \in Requests
  <2>1. \A i \in DOMAIN domQ : domQ[i] \in Requests
    OBVIOUS
  <2>2. \A r \in Requests : [r EXCEPT !.owner = "none"] \in Requests
    BY DEF Requests
  <2> QED BY <2>1, <2>2
<1>2. DOMAIN domQ = 1..Len(domQ) /\ Len(domQ) \in Nat
  OBVIOUS
<1>3. Disowned = [i \in 1..Len(domQ) |-> [domQ[i] EXCEPT !.owner = "none"]]
  BY <1>2 DEF Disowned
<1> QED BY <1>1, <1>2, <1>3

LEMMA TypesStep ==
  ASSUME TypeOK, JobOK, [Next]_vars
  PROVE  TypeOK'
<1>0. /\ rows \in [VMs -> Rows] /\ attached \in [VMs -> [Disks -> Nat]] /\ made \subseteq NewDisks
      /\ guests \in [VMs -> Guests] /\ job \in Jobs /\ domQ \in Seq(Requests) /\ mon \in Monitors
  BY DEF TypeOK
<1>1. rows' \in [VMs -> Rows] /\ job' \in Jobs /\ casts' \in Seq(Jobs)
  BY RowsStep, JobTyped DEF RowsGo
<1>2. attached' \in [VMs -> [Disks -> Nat]]
  <2>1. UNCHANGED attached \/ AttachDisk \/ DetachDisk
    BY DEF Next, vars, ApiRequest, ApiCreate, ApiEdit, ApiPower, HandlerStep, MonitorStep, TakeCast,
       AckCast, PublishCast, LateCommit, CreateStart, MakeVolume, CheckDuplicates, AttachCommit,
       StatusCommit, DeleteStart, DeleteSnapshots, DeleteFinish, PowerCall, PowerFinish, EditStart,
       EditDetached, DomainExecute, DomainStartsHalf, DomainCrash, GuestStops, ServiceTimeout,
       ServiceCrash, MonitorList, MonitorLoad, MonitorWrite, CreateVm, EditVm, DeleteVm, StartVm,
       ShutOffVm, outside
  <2>2. AttachDisk \/ DetachDisk => job.vm \in VMs
    BY JobFacts DEF AttachDisk, DetachDisk
  <2> QED BY <1>0, <2>1, <2>2, DisksTyped
<1>3. made' \subseteq NewDisks
  <2>1. UNCHANGED made \/ MakeVolume
    BY DEF Next, vars, ApiRequest, ApiCreate, ApiEdit, ApiPower, HandlerStep, MonitorStep, TakeCast,
       AckCast, PublishCast, LateCommit, CreateStart, AttachDisk, DetachDisk, CheckDuplicates, AttachCommit,
       StatusCommit, DeleteStart, DeleteSnapshots, DeleteFinish, PowerCall, PowerFinish, EditStart,
       EditDetached, DomainExecute, DomainStartsHalf, DomainCrash, GuestStops, ServiceTimeout,
       ServiceCrash, MonitorList, MonitorLoad, MonitorWrite, CreateVm, EditVm, DeleteVm, StartVm,
       ShutOffVm, outside
  <2> QED BY <1>0, <2>1, MakeTyped
<1>4. guests' \in [VMs -> Guests]
  <2>1. \/ UNCHANGED guests
        \/ domQ # <<>> /\ guests' = Effect(Head(domQ))
        \/ \E v \in VMs : guests' = [guests EXCEPT ![v] = Off]
    BY DEF Next, vars, ApiRequest, ApiCreate, ApiEdit, ApiPower, HandlerStep, MonitorStep, TakeCast,
       AckCast, PublishCast, LateCommit, CreateStart, MakeVolume, AttachDisk, DetachDisk, CheckDuplicates,
       AttachCommit, StatusCommit, DeleteStart, DeleteSnapshots, DeleteFinish, PowerCall, PowerFinish,
       EditStart, EditDetached, DomainExecute, DomainStartsHalf, DomainCrash, GuestStops, ServiceTimeout,
       ServiceCrash, MonitorList, MonitorLoad, MonitorWrite, CreateVm, EditVm, DeleteVm, StartVm,
       ShutOffVm
  <2>2. Off \in Guests /\ (domQ # <<>> => Head(domQ) \in Requests)
    BY <1>0 DEF Off, Guests, VmPowerState
  <2> QED BY <1>0, <2>1, <2>2, EffectOf
<1>5. reply' \in {"none", "ok", "err", "timeout"} /\ stale' \in BOOLEAN
  BY DEF TypeOK, Next, vars, ApiRequest, ApiCreate, ApiEdit, ApiPower, HandlerStep, MonitorStep, TakeCast,
       AckCast, PublishCast, LateCommit, CreateStart, MakeVolume, AttachDisk, DetachDisk, CheckDuplicates,
       AttachCommit, StatusCommit, DeleteStart, DeleteSnapshots, DeleteFinish, PowerCall, PowerFinish,
       EditStart, EditDetached, DomainExecute, DomainStartsHalf, DomainCrash, GuestStops, ServiceTimeout,
       ServiceCrash, MonitorList, MonitorLoad, MonitorWrite, CreateVm, EditVm, DeleteVm, StartVm,
       ShutOffVm
<1>6. domQ' \in Seq(Requests)
  <2>1. \/ UNCHANGED domQ
        \/ domQ # <<>> /\ domQ' = Tail(domQ)
        \/ domQ' = Disowned
        \/ PowerCall
    BY DEF Next, vars, ApiRequest, ApiCreate, ApiEdit, ApiPower, HandlerStep, MonitorStep, TakeCast,
       AckCast, PublishCast, LateCommit, CreateStart, MakeVolume, AttachDisk, DetachDisk, CheckDuplicates,
       AttachCommit, StatusCommit, DeleteStart, DeleteSnapshots, DeleteFinish, PowerFinish,
       EditStart, EditDetached, DomainExecute, DomainStartsHalf, DomainCrash, GuestStops, ServiceTimeout,
       ServiceCrash, MonitorList, MonitorLoad, MonitorWrite, CreateVm, EditVm, DeleteVm, StartVm,
       ShutOffVm
  <2>2. PowerCall => CallOf \in Requests /\ domQ' = Append(domQ, CallOf)
    BY <1>0, JobFacts DEF PowerCall, CallOf, Requests, Jobs
  <2>3. CASE PowerCall
    BY <1>0, <2>2, <2>3, AddTail
  <2>4. CASE domQ # <<>> /\ domQ' = Tail(domQ)
    BY <1>0, <2>4, AddTail
  <2>5. CASE domQ' = Disowned
    BY <1>0, <2>5, DisownedTyped
  <2> QED BY <1>0, <2>1, <2>3, <2>4, <2>5
<1>7. mon' \in Monitors
  <2>1. UNCHANGED mon \/ MonitorList \/ MonitorLoad \/ MonitorWrite \/ ServiceCrash
    BY DEF Next, vars, ApiRequest, ApiCreate, ApiEdit, ApiPower, HandlerStep, MonitorStep, TakeCast,
       AckCast, PublishCast, LateCommit, CreateStart, MakeVolume, AttachDisk, DetachDisk, CheckDuplicates,
       AttachCommit, StatusCommit, DeleteStart, DeleteSnapshots, DeleteFinish, PowerCall, PowerFinish,
       EditStart, EditDetached, DomainExecute, DomainStartsHalf, DomainCrash, GuestStops, ServiceTimeout,
       CreateVm, EditVm, DeleteVm, StartVm, ShutOffVm
  <2>2. IdleMonitor \in Monitors /\ [IdleMonitor EXCEPT !.pc = "dead"] \in Monitors
    <3>1. NoRow \in Rows
      BY DEF NoRow, Rows, VmPowerState
    <3> QED BY <3>1 DEF IdleMonitor, Monitors, VmPowerState
  <2>3. MonitorList => mon' \in Monitors
    <3> DEFINE l == [v \in VMs |-> guests[v].state]
    <3>1. l \in [VMs -> VmPowerState]
      BY <1>0 DEF Guests
    <3>2. MonitorList => mon' = [mon EXCEPT !.pc = "listed", !.list = l]
      BY DEF MonitorList
    <3> HIDE DEF l
    <3> QED BY <1>0, <3>1, <3>2 DEF Monitors
  <2>4. MonitorLoad => mon' \in Monitors
    <3> DEFINE l == [v \in VMs |-> [rows[v] EXCEPT !.disks = {}]]
    <3>1. l \in [VMs -> Rows]
      BY <1>0 DEF Rows
    <3>2. MonitorLoad => mon' = [mon EXCEPT !.pc = "loaded", !.seen = l]
      BY DEF MonitorLoad
    <3> HIDE DEF l
    <3> QED BY <1>0, <3>1, <3>2 DEF Monitors
  <2> QED BY <1>0, <2>1, <2>2, <2>3, <2>4 DEF MonitorWrite, ServiceCrash
<1>8. {failures', timeouts', crashes'} \subseteq 0..MaxFaults
  <2>1. /\ failures' = failures \/ (MayFail /\ failures' = failures + 1)
        /\ timeouts' = timeouts \/ (MayFail /\ timeouts' = timeouts + 1)
        /\ crashes' = crashes \/ (MayFail /\ crashes' = crashes + 1)
    BY DEF Next, vars, ApiRequest, ApiCreate, ApiEdit, ApiPower, HandlerStep, MonitorStep, TakeCast,
       AckCast, PublishCast, LateCommit, CreateStart, MakeVolume, AttachDisk, DetachDisk, CheckDuplicates,
       AttachCommit, StatusCommit, DeleteStart, DeleteSnapshots, DeleteFinish, PowerCall, PowerFinish,
       EditStart, EditDetached, DomainExecute, DomainStartsHalf, DomainCrash, GuestStops, ServiceTimeout,
       ServiceCrash, MonitorList, MonitorLoad, MonitorWrite, CreateVm, EditVm, DeleteVm, StartVm,
       ShutOffVm, outside, faults
  <2>2. failures \in 0..MaxFaults /\ timeouts \in 0..MaxFaults /\ crashes \in 0..MaxFaults
    BY DEF TypeOK
  <2>3. MayFail => failures + 1 \in 0..MaxFaults /\ timeouts + 1 \in 0..MaxFaults /\ crashes + 1 \in 0..MaxFaults
    BY <2>2, Bounds DEF MayFail
  <2> QED BY <2>1, <2>2, <2>3
<1> QED BY <1>1, <1>2, <1>3, <1>4, <1>5, <1>6, <1>7, <1>8 DEF TypeOK

-----------------------------------------------------------------------------
(* The handler and the casts *)

LEMMA OpsFacts ==
  /\ OpsAt["idle"] = {"none"} /\ OpsAt["cast"] = {"create_vm", "start_vm", "shut_off_vm"}
  /\ OpsAt["commit"] = {"delete_vm", "edit_vm"} /\ OpsAt["snapshots"] = {"_delete_vm"}
  /\ OpsAt["start"] = CastOps /\ OpsAt["ack"] = CastOps
  /\ OpsAt["detach"] = {"_delete_vm", "_edit_shut_offed_vm"}
  /\ OpsAt["make"] = {"_create_vm", "_edit_shut_offed_vm"}
  /\ OpsAt["attach"] = {"_create_vm", "_edit_shut_offed_vm"}
  /\ OpsAt["status"] = {"_create_vm", "_edit_shut_offed_vm"}
  /\ OpsAt["domain"] = {"_start_vm", "_shut_off_vm"}
BY DEF OpsAt

\* The row of a power operation keeps its disks while the operation is under way.
LEMMA PowerStays ==
  ASSUME TypeOK, JobOK, CastsOK, [Next]_vars,
         NEW j \in Jobs, PowerJob(j), j = job \/ \E i \in DOMAIN casts : j = casts[i]
  PROVE  PowerJob(j)'
<1> SUFFICES ASSUME j.op \in PowerOps PROVE PowerJob(j)'
  BY DEF PowerJob, PowerOps
<1>1. Exists(j.vm) /\ (j.op \in StartOps => j.add = rows[j.vm].disks)
  BY DEF PowerJob
<1>2. j.vm \in VMs
  BY DEF JobOK, CastsOK, PowerOps, StartOps
<1>3. ASSUME AttachCommit \/ EditDetached \/ DeleteFinish PROVE FALSE
  <2>1. job.pc \in {"attach", "detach"}
    BY <1>3 DEF AttachCommit, EditDetached, DeleteFinish, At
  <2>2. job.op \in {"_create_vm", "_edit_shut_offed_vm", "_delete_vm"}
    BY <2>1, OpsFacts DEF JobOK
  <2>3. casts = <<>>
    BY <2>1, IdleJob DEF CastsOK
  <2> QED BY <2>2, <2>3 DEF PowerOps, StartOps
<1>4. RowKept(j.vm)
  BY <1>2, RowsStep DEF RowsGo
<1> QED BY <1>1, <1>3, <1>4 DEF RowKept, PowerJob

LEMMA JobEndsOK ==
  ASSUME TypeOK, JobOK, CastsOK, [Next]_vars, job' \in {Ended, NoJob}
  PROVE  JobOK'
<1>1. CASE job' = NoJob
  BY <1>1, IdleJob, OpsFacts DEF JobOK, PowerJob, PowerOps, StartOps
<1>2. CASE job' = Ended /\ job.op \in CastOps
  <2>1. job' \in Jobs /\ job'.pc = "ack" /\ job'.op = job.op /\ job'.vm = job.vm /\ job'.add \in {{}, job.add}
    BY <1>2, JobEnds DEF TypeOK
  <2>2. PICK j \in Jobs : j = job
    BY DEF TypeOK
  <2>3. PowerJob(j)'
    BY <2>2, PowerStays DEF JobOK
  <2>4. job'.add = job.add
    BY <1>2 DEF Ended, TypeOK, Jobs
  <2>5. PowerJob(job)'
    BY <2>1, <2>2, <2>3, <2>4 DEF PowerJob
  <2>6. job'.op # "none" /\ job.vm \in VMs
    BY <1>2, <2>1, OpsAre DEF JobOK
  <2> QED BY <1>2, <2>1, <2>5, <2>6, OpsFacts DEF JobOK
<1>3. CASE job' = Ended /\ job.op \notin CastOps
  BY <1>1, <1>3, JobEnds DEF TypeOK
<1> QED BY <1>1, <1>2, <1>3

LEMMA JobStaysOK ==
  ASSUME TypeOK, JobOK, CastsOK, [Next]_vars, UNCHANGED job
  PROVE  JobOK'
<1>1. PICK j \in Jobs : j = job
  BY DEF TypeOK
<1>2. PowerJob(j)'
  BY <1>1, PowerStays DEF JobOK
<1>3. PowerJob(job)'
  BY <1>1, <1>2 DEF PowerJob
<1>4. job.op # "none" => rows'[job.vm].disks = rows[job.vm].disks
  <2>1. ~AttachCommit /\ ~EditDetached /\ ~DeleteFinish
    <3>1. AttachCommit => job'.pc = "status" /\ job.pc = "attach"
      BY DEF AttachCommit, TypeOK, Jobs
    <3>2. EditDetached => job'.pc = "make" /\ job.pc = "detach"
      BY DEF EditDetached, TypeOK, Jobs, At
    <3>3. DeleteFinish => job'.pc \in {"ack", "idle"} /\ job.pc = "detach"
      BY JobEnds DEF DeleteFinish, TypeOK, At, Done
    <3> QED BY <3>1, <3>2, <3>3
  <2> QED BY <2>1, RowsStep DEF RowsGo, RowKept, JobOK
<1>5. job.pc \in {"attach", "detach"} => job.op # "none"
  BY JobFacts
<1> QED BY <1>3, <1>4, <1>5 DEF JobOK, Wanted

\* A handler that goes on keeps what a power operation knows.
LEMMA JobGoesOK ==
  ASSUME TypeOK, JobOK, CastsOK, [Next]_vars, job' \in Jobs,
         job'.op = job.op, job'.vm = job.vm, job'.add = job.add,
         job.pc # "idle", job'.pc # "idle", job'.op \in OpsAt[job'.pc],
         job'.pc \in {"cast", "start", "snapshots", "make"} => job'.done = {},
         job'.pc = "attach" => Wanted' \cap rows'[job.vm].disks = {},
         job'.pc = "detach" =>
           /\ job'.done \subseteq job'.drop /\ job'.drop \subseteq rows'[job.vm].disks
           /\ job.op = "_delete_vm" => job'.drop = rows'[job.vm].disks
  PROVE  JobOK'
<1>1. PICK j \in Jobs : j = job
  BY DEF TypeOK
<1>2. PowerJob(j)'
  BY <1>1, PowerStays DEF JobOK
<1>3. PowerJob(job)'
  BY <1>1, <1>2 DEF PowerJob
<1>4. job.op # "none" /\ job.vm \in VMs
  BY JobFacts DEF TypeOK, Jobs
<1> QED BY <1>3, <1>4 DEF JobOK

LEMMA JobStep ==
  ASSUME TypeOK, JobOK, CastsOK, [Next]_vars
  PROVE  JobOK'
<1>0. /\ job \in Jobs /\ rows \in [VMs -> Rows] /\ job' \in Jobs /\ casts \in Seq(Jobs)
      /\ attached \in [VMs -> [Disks -> Nat]]
  BY JobTyped DEF TypeOK
<1>1. CASE UNCHANGED job
  BY <1>1, JobStaysOK
<1>2. CASE job' \in {NoJob, Ended}
  BY <1>2, JobEndsOK
<1>3. CASE TakeCast
  <2>1. job' = casts[1] /\ 1 \in DOMAIN casts /\ UNCHANGED rows
    BY <1>0, <1>3 DEF TakeCast
  <2>2. /\ job'.op \in CastOps /\ job'.pc = "start" /\ job'.vm \in VMs /\ job'.done = {}
        /\ PowerJob(job)'
    BY <2>1 DEF CastsOK, PowerJob, Exists
  <2>3. job'.op # "none"
    BY <2>2, OpsAre
  <2> QED BY <2>2, <2>3, OpsFacts DEF JobOK
<1>4. CASE CreateStart /\ Goto("make")
  <2>1. job.pc = "start" /\ job.op = "_create_vm"
    BY <1>4 DEF CreateStart, At
  <2> QED BY <1>0, <1>4, <2>1, JobGoes, JobGoesOK, OpsFacts DEF JobOK
<1>5. CASE DeleteStart /\ Goto("snapshots")
  <2>1. job.pc = "start" /\ job.op = "_delete_vm"
    BY <1>5 DEF DeleteStart, At
  <2> QED BY <1>0, <1>5, <2>1, JobGoes, JobGoesOK, OpsFacts DEF JobOK
<1>6. CASE EditStart /\ Goto("detach")
  <2>1. job.pc = "start" /\ job.op = "_edit_shut_offed_vm" /\ UNCHANGED rows
    BY <1>6 DEF EditStart, At
  <2>2. job.drop \subseteq rows[job.vm].disks
    <3>1. CASE Exists(job.vm) /\ job.drop \subseteq rows[job.vm].disks
      BY <3>1
    <3>2. CASE ~(Exists(job.vm) /\ job.drop \subseteq rows[job.vm].disks)
      <4>1. job' = Ended
        BY <1>6, <3>2 DEF EditStart, Done
      <4> QED BY <1>0, <1>6, <4>1, JobEnds, JobGoes
    <3> QED BY <3>1, <3>2
  <2> QED BY <1>0, <1>6, <2>1, <2>2, JobGoes, JobGoesOK, OpsFacts DEF JobOK
<1>7. CASE CheckDuplicates /\ Goto("attach") /\ Wanted \cap rows[job.vm].disks = {}
  <2>1. job.pc = "make" /\ UNCHANGED rows
    BY <1>7 DEF CheckDuplicates
  <2>2. job.op \in OpsAt["attach"]
    BY <2>1, OpsFacts DEF JobOK
  <2>3. /\ job'.pc = "attach" /\ job'.op = job.op /\ job'.vm = job.vm /\ job'.add = job.add
        /\ job'.got = job.got
    BY <1>0, <1>7, JobGoes
  <2>4. Wanted' = Wanted
    BY <2>3 DEF Wanted
  <2> QED BY <1>0, <1>7, <2>1, <2>2, <2>3, <2>4, JobGoesOK
<1>8. CASE PowerCall
  <2>1. job.pc = "start" /\ job.op \in OpsAt["domain"]
    BY <1>8, OpsFacts DEF PowerCall
  <2> QED BY <1>0, <1>8, <2>1, JobGoes, JobGoesOK DEF PowerCall
<1>9. CASE MakeVolume
  <2>1. job.pc = "make" /\ job.done = {} /\ job.op \in OpsAt["make"]
    BY <1>9 DEF MakeVolume, JobOK
  <2> QED BY <1>0, <1>2, <1>9, <2>1, MakeTyped, JobGoesOK
<1>10. CASE AttachDisk
  <2>1. job.pc = "attach" /\ job.vm \in VMs /\ job.op \in OpsAt["attach"]
    BY <1>10, JobFacts DEF AttachDisk
  <2>2. CASE job' = Ended
    BY <1>2, <2>2
  <2>3. CASE job' # Ended
    <3>1. /\ job'.op = job.op /\ job'.vm = job.vm /\ job'.pc = job.pc /\ job'.add = job.add
          /\ job'.got = job.got
      BY <1>0, <1>10, <2>1, <2>3, DisksTyped
    <3>2. UNCHANGED rows
      BY <1>10, <2>3 DEF AttachDisk, Done
    <3>3. Wanted' = Wanted /\ Wanted \cap rows[job.vm].disks = {}
      BY <2>1, <3>1 DEF Wanted, JobOK
    <3> QED BY <1>0, <2>1, <3>1, <3>2, <3>3, JobGoesOK
  <2> QED BY <2>2, <2>3
<1>11. CASE DetachDisk
  <2>1. job.pc = "detach" /\ job.vm \in VMs /\ job.op \in OpsAt["detach"] /\ UNCHANGED rows
    BY <1>11, JobFacts DEF DetachDisk
  <2>2. PICK d \in job.drop : job' = [job EXCEPT !.done = @ \cup {d}] \/ job' = Ended
    BY <1>11 DEF DetachDisk, Done
  <2>3. CASE job' = Ended
    BY <1>2, <2>3
  <2>4. CASE job' = [job EXCEPT !.done = @ \cup {d}]
    <3>1. /\ job'.op = job.op /\ job'.vm = job.vm /\ job'.pc = job.pc /\ job'.add = job.add
          /\ job'.drop = job.drop /\ job'.done = job.done \cup {d}
      BY <1>0, <2>4 DEF Jobs
    <3> QED BY <1>0, <2>1, <3>1, JobGoesOK DEF JobOK
  <2> QED BY <2>2, <2>3, <2>4
<1>12. CASE AttachCommit \/ EditDetached
  <2>1. PICK pc \in {"status", "make"} : job' = [job EXCEPT !.pc = pc, !.done = {}]
    BY <1>12 DEF AttachCommit, EditDetached
  <2>2. /\ job'.op = job.op /\ job'.vm = job.vm /\ job'.pc = pc /\ job'.add = job.add
        /\ job'.done = {}
    BY <1>0, <2>1 DEF Jobs
  <2>3. job.op \in {"_create_vm", "_edit_shut_offed_vm"} /\ job.pc \in {"attach", "detach"}
    BY <1>12, OpsFacts DEF AttachCommit, EditDetached, At, JobOK
  <2>4. job.op \in OpsAt[pc]
    BY <2>3, OpsFacts
  <2> QED BY <1>0, <2>2, <2>3, <2>4, JobGoesOK
<1>13. CASE DeleteSnapshots
  <2>1. job.pc = "snapshots" /\ job.op = "_delete_vm" /\ job.done = {} /\ job.vm \in VMs
    BY <1>13, JobFacts DEF DeleteSnapshots, At, JobOK
  <2>2. CASE job' = Ended
    BY <1>2, <2>2
  <2>3. CASE job' # Ended
    <3>1. /\ SetStatus(job.vm, "detaching_disks")
          /\ job' = [job EXCEPT !.pc = "detach", !.drop = rows[job.vm].disks]
      BY <1>13, <2>3 DEF DeleteSnapshots, Done
    <3>2. /\ job'.op = job.op /\ job'.vm = job.vm /\ job'.pc = "detach" /\ job'.add = job.add
          /\ job'.drop = rows[job.vm].disks /\ job'.done = {}
      BY <1>0, <2>1, <3>1 DEF Jobs
    <3>3. rows'[job.vm].disks = rows[job.vm].disks
      BY <1>0, <2>1, <3>1, StatusSet DEF VmStatus
    <3> QED BY <1>0, <2>1, <3>2, <3>3, JobGoesOK, OpsFacts
  <2> QED BY <2>2, <2>3
<1>14. ASSUME NEW v \in VMs, DeleteVm(v) \/ ShutOffVm(v) PROVE JobOK'
  <2>1. CASE UNCHANGED job
    BY <1>1, <2>1
  <2>2. CASE job' = Job("delete_vm", v, "commit")
    <3>1. /\ job'.op = "delete_vm" /\ job'.vm = v /\ job'.pc = "commit"
      BY <2>2, NewJob, OpsAre
    <3> QED BY <3>1, OpsFacts DEF JobOK, PowerJob, PowerOps, StartOps
  <2>3. CASE ShutOffVm(v)
    <3>1. /\ job'.op = "shut_off_vm" /\ job'.vm = v /\ job'.pc = "cast" /\ job'.done = {}
      BY <2>3, NewJob, OpsAre DEF ShutOffVm
    <3>2. Exists(v)
      BY <2>3 DEF ShutOffVm, Settled, Exists
    <3>3. SetStatus(v, "shut_offing")
      BY <2>3 DEF ShutOffVm
    <3>4. Exists(v)'
      BY <1>0, <3>3, StatusSet DEF Exists, VmStatus
    <3> QED BY <3>1, <3>4, OpsFacts DEF JobOK, PowerJob, PowerOps, StartOps
  <2> QED BY <1>14, <2>1, <2>2, <2>3 DEF DeleteVm
<1>15. ASSUME NEW v \in VMs, StartVm(v) PROVE JobOK'
  <2>1. job' = [Job("start_vm", v, "cast") EXCEPT !.add = rows[v].disks] /\ rows[v].disks \in SUBSET Disks
    BY <1>0, <1>15 DEF StartVm, Rows
  <2>2. /\ Job("start_vm", v, "cast") \in Jobs /\ Job("start_vm", v, "cast").op = "start_vm"
        /\ Job("start_vm", v, "cast").vm = v /\ Job("start_vm", v, "cast").pc = "cast"
        /\ Job("start_vm", v, "cast").done = {}
    BY NewJob, OpsAre
  <2>3. /\ job'.op = "start_vm" /\ job'.vm = v /\ job'.pc = "cast" /\ job'.done = {}
        /\ job'.add = rows[v].disks
    <3> DEFINE j == Job("start_vm", v, "cast")
    <3> HIDE DEF j
    <3>1. /\ [j EXCEPT !.add = rows[v].disks].op = j.op /\ [j EXCEPT !.add = rows[v].disks].vm = j.vm
          /\ [j EXCEPT !.add = rows[v].disks].pc = j.pc /\ [j EXCEPT !.add = rows[v].disks].done = j.done
          /\ [j EXCEPT !.add = rows[v].disks].add = rows[v].disks
      <4>1. j \in Jobs
        BY <2>2 DEF j
      <4> QED BY <4>1 DEF Jobs
    <3> QED BY <2>1, <2>2, <3>1 DEF j
  <2>4. SetStatus(v, "starting")
    BY <1>15 DEF StartVm
  <2>5. Exists(v)' /\ rows'[v].disks = rows[v].disks
    BY <1>0, <2>4, StatusSet DEF Exists, VmStatus
  <2> QED BY <2>3, <2>5, OpsFacts DEF JobOK, PowerJob, PowerOps, StartOps
<1>16. ASSUME NEW v \in VMs, NEW add \in SUBSET OldDisks, NEW n \in 0..MaxMake, CreateVm(v, add, n)
       PROVE  JobOK'
  <2>1. job' = CreateJob(v, add, n) /\ add \in SUBSET Disks
    BY <1>16 DEF CreateVm, Disks
  <2>2. /\ Job("create_vm", v, "cast") \in Jobs /\ Job("create_vm", v, "cast").op = "create_vm"
        /\ Job("create_vm", v, "cast").vm = v /\ Job("create_vm", v, "cast").pc = "cast"
        /\ Job("create_vm", v, "cast").done = {}
    BY NewJob, OpsAre
  <2>3. job'.op = "create_vm" /\ job'.vm = v /\ job'.pc = "cast" /\ job'.done = {}
    <3>1. PICK j \in Jobs : j = Job("create_vm", v, "cast")
      BY <2>2
    <3>2. job' = [j EXCEPT !.add = add, !.make = n]
      BY <2>1, <3>1 DEF CreateJob
    <3> QED BY <2>1, <2>2, <3>1, <3>2 DEF Jobs
  <2> QED BY <2>3, OpsFacts DEF JobOK, PowerJob, PowerOps, StartOps
<1>17. ASSUME NEW v \in VMs, NEW add, NEW n, NEW drop, EditVm(v, add, n, drop) PROVE JobOK'
  <2>1. job'.op = "edit_vm" /\ job'.vm = v /\ job'.pc = "commit"
    BY <1>17, NewJob, OpsAre DEF EditVm
  <2> QED BY <2>1, OpsFacts DEF JobOK, PowerJob, PowerOps, StartOps
<1>18. \/ AckCast \/ PublishCast \/ LateCommit \/ StatusCommit \/ DeleteFinish \/ PowerFinish \/ ServiceCrash
       => job' \in {NoJob, Ended}
  BY DEF AckCast, PublishCast, LateCommit, StatusCommit, DeleteFinish, PowerFinish, ServiceCrash, Done
<1>19. CreateStart \/ DeleteStart \/ EditStart =>
         job' = Ended \/ (CreateStart /\ Goto("make")) \/ (DeleteStart /\ Goto("snapshots"))
         \/ (EditStart /\ Goto("detach"))
  BY DEF CreateStart, DeleteStart, EditStart, Done
<1>20. CheckDuplicates =>
         job' = Ended \/ (CheckDuplicates /\ Goto("attach") /\ Wanted \cap rows[job.vm].disks = {})
  BY DEF CheckDuplicates, Done
<1> QED BY <1>1, <1>2, <1>3, <1>4, <1>5, <1>6, <1>7, <1>8, <1>9, <1>10, <1>11, <1>12, <1>13, <1>14,
           <1>15, <1>16, <1>17, <1>18, <1>19, <1>20, JobFrames

LEMMA OneCast ==
  ASSUME NEW x
  PROVE  /\ Append(<<>>, x) = <<x>> /\ <<x>> \o <<>> = <<x>> /\ Len(<<x>>) = 1
         /\ DOMAIN <<x>> = {1} /\ <<x>>[1] = x
OBVIOUS

\* The only cast is one that is as it should be.
LEMMA NewCastOK ==
  ASSUME NEW x, casts' = <<x>>, x.op \in CastOps, x.pc = "start", x.vm \in VMs, x.done = {},
         \E j : j = x /\ PowerJob(j)', job' = NoJob \/ job'.pc = "commit"
  PROVE  CastsOK'
<1>1. Len(casts') = 1 /\ DOMAIN casts' = {1} /\ casts'[1] = x
  BY OneCast
<1>2. \A i \in DOMAIN casts' : PowerJob(casts[i])'
  BY <1>1 DEF PowerJob
<1> QED BY <1>1, <1>2 DEF CastsOK

LEMMA NoCastOK ==
  ASSUME casts' = <<>>
  PROVE  CastsOK'
BY DEF CastsOK

LEMMA CastsStayOK ==
  ASSUME TypeOK, JobOK, CastsOK, [Next]_vars, UNCHANGED casts,
         casts # <<>> => job' = NoJob \/ job'.pc = "commit"
  PROVE  CastsOK'
<1>1. ASSUME NEW i \in DOMAIN casts PROVE PowerJob(casts[i])'
  <2>1. casts \in Seq(Jobs)
    BY DEF TypeOK
  <2>2. PICK j \in Jobs : j = casts[i]
    BY <2>1
  <2>3. PowerJob(j)
    BY <2>2 DEF CastsOK
  <2>4. PowerJob(j)'
    BY <2>2, <2>3, PowerStays
  <2> QED BY <2>2, <2>4 DEF PowerJob
<1> QED BY <1>1 DEF CastsOK

LEMMA CastsStep ==
  ASSUME TypeOK, JobOK, CastsOK, [Next]_vars
  PROVE  CastsOK'
<1>0. /\ job \in Jobs /\ casts \in Seq(Jobs)
      /\ casts # <<>> => job = NoJob \/ job.pc = "commit"
  BY DEF TypeOK, CastsOK
<1>1. CASE UNCHANGED <<job, casts>>
  BY <1>0, <1>1, CastsStayOK
<1>2. CASE TakeCast
  <2>1. Len(casts) = 1
    <3>1. PICK q \in Seq(Jobs) : q = casts
      BY <1>0
    <3>2. q # <<>> /\ Len(q) <= 1
      BY <1>2, <3>1 DEF TakeCast, CastsOK
    <3>3. Len(q) \in Nat /\ Len(q) # 0
      BY ONLY <3>1, <3>2, EmptySeq, LenProperties
    <3>4. \A n \in Nat : n <= 1 /\ n # 0 => n = 1
      OBVIOUS
    <3> QED BY <3>1, <3>2, <3>3, <3>4
  <2>2. Tail(casts) = <<>>
    <3>1. Tail(casts) \in Seq(Jobs) /\ Len(Tail(casts)) = 0
      BY <1>0, <2>1
    <3> QED BY ONLY <3>1, EmptySeq
  <2> QED BY <1>2, <2>2, NoCastOK DEF TakeCast
<1>3. CASE PublishCast
  <2>1. job.pc = "cast" /\ casts = <<>>
    BY <1>0, <1>3, IdleJob DEF PublishCast
  <2>2. job.op \in {"create_vm", "start_vm", "shut_off_vm"} /\ job.vm \in VMs /\ job.done = {}
    BY <2>1, JobFacts, OpsFacts DEF JobOK
  <2>3. /\ Published \in Jobs /\ Published.op = CastOf[job.op] /\ Published.pc = "start"
        /\ Published.vm = job.vm /\ Published.done = job.done /\ Published.add = job.add
        /\ Published.op \in CastOps
    BY <1>0, <2>2, JobPublished
  <2>4. casts' = <<Published>> /\ job' = NoJob
    BY <1>3, <2>1, OneCast DEF PublishCast, Published
  <2>5. PICK x : x = Published
    OBVIOUS
  <2>6. x.op \in PowerOps => job.op \in PowerOps
    BY <2>2, <2>3, <2>5, OpsAre DEF PowerOps, StartOps
  <2>7. x.op \in StartOps => job.op \in StartOps
    BY <2>2, <2>3, <2>5, OpsAre DEF PowerOps, StartOps
  <2>8. PowerJob(x)
    BY <2>3, <2>5, <2>6, <2>7 DEF JobOK, PowerJob
  <2>9. PowerJob(x)'
    BY <1>3, <2>8 DEF PublishCast, PowerJob, Exists
  <2>10. casts' = <<x>> /\ x.op \in CastOps /\ x.pc = "start" /\ x.vm \in VMs /\ x.done = {}
    BY <2>2, <2>3, <2>4, <2>5
  <2> QED BY <2>4, <2>9, <2>10, NewCastOK
<1>4. CASE ServiceCrash /\ job.op \in CastOps
  <2>1. job # NoJob /\ job.pc # "commit" /\ job.vm \in VMs
    BY <1>4, IdleJob, OpsAre, OpsFacts DEF JobOK
  <2>2. casts = <<>>
    BY <1>0, <2>1
  <2>3. casts' = <<Restarted>> /\ job' = NoJob
    BY <1>4, <2>2, OneCast DEF ServiceCrash, Restarted
  <2>4. /\ Restarted.op = job.op /\ Restarted.pc = "start" /\ Restarted.vm = job.vm
        /\ Restarted.done = {} /\ Restarted.add = job.add
    BY <1>0, JobRestarted
  <2>5. PICK x : x = Restarted
    OBVIOUS
  <2>6. PowerJob(x)
    BY <2>4, <2>5 DEF JobOK, PowerJob
  <2>7. PowerJob(x)'
    BY <1>4, <2>6 DEF ServiceCrash, PowerJob, Exists
  <2>8. casts' = <<x>> /\ x.op \in CastOps /\ x.pc = "start" /\ x.vm \in VMs /\ x.done = {}
    BY <1>4, <2>1, <2>3, <2>4, <2>5
  <2> QED BY <2>3, <2>7, <2>8, NewCastOK
<1>5. CASE ServiceCrash /\ job.op \notin CastOps
  <2>1. UNCHANGED casts /\ job' = NoJob
    BY <1>5 DEF ServiceCrash
  <2> QED BY <2>1, CastsStayOK
<1>6. CASE LateCommit
  <2>1. job.op \in {"delete_vm", "edit_vm"}
    BY <1>6, OpsFacts DEF LateCommit, JobOK
  <2>2. job' = NoJob /\ UNCHANGED casts
    BY <1>0, <1>6, <2>1, JobEnds, OpsAre DEF LateCommit, Done
  <2> QED BY <2>2, CastsStayOK
<1>7. CASE \/ AckCast \/ CreateStart \/ MakeVolume \/ CheckDuplicates \/ AttachDisk \/ AttachCommit
           \/ StatusCommit \/ DeleteStart \/ DeleteSnapshots \/ DetachDisk \/ DeleteFinish
           \/ PowerCall \/ PowerFinish \/ EditStart \/ EditDetached
  <2>1. UNCHANGED casts /\ job.pc \notin {"idle", "commit"}
    BY <1>7 DEF AckCast, CreateStart, MakeVolume, CheckDuplicates, AttachDisk, AttachCommit,
                StatusCommit, DeleteStart, DeleteSnapshots, DetachDisk, DeleteFinish,
                PowerCall, PowerFinish, EditStart, EditDetached, At
  <2>2. casts = <<>>
    BY <1>0, <2>1, IdleJob
  <2> QED BY <2>1, <2>2, NoCastOK
<1>8. ASSUME NEW v \in VMs, DeleteVm(v) PROVE CastsOK'
  <2>1. CASE UNCHANGED <<job, casts>>
    BY <1>1, <2>1
  <2>2. CASE casts' = Append(casts, Job("_delete_vm", v, "start")) /\ job' = Job("delete_vm", v, "commit")
    <3>1. PICK x : x = Job("_delete_vm", v, "start")
      OBVIOUS
    <3>2. x.op = "_delete_vm" /\ x.vm = v /\ x.pc = "start" /\ x.done = {}
      BY <3>1, NewJob, OpsAre
    <3>3. casts' = <<x>>
      BY <1>8, <2>2, <3>1, OneCast DEF DeleteVm, Free
    <3>4. PowerJob(x)'
      BY <3>2 DEF PowerJob, PowerOps, StartOps
    <3>5. job'.pc = "commit"
      BY <2>2, NewJob, OpsAre
    <3> QED BY <3>2, <3>3, <3>4, <3>5, NewCastOK, OpsAre
  <2> QED BY <1>8, <2>1, <2>2 DEF DeleteVm
<1>9. ASSUME NEW v \in VMs, NEW add \in SUBSET OldDisks, NEW n \in 0..MaxMake, NEW drop \in SUBSET Disks,
             EditVm(v, add, n, drop)
      PROVE  CastsOK'
  <2>1. PICK x : x = EditJob(v, add, n, drop)
    OBVIOUS
  <2>2. PICK j \in Jobs : j = Job("_edit_shut_offed_vm", v, "start")
    BY NewJob, OpsAre
  <2>3. j.op = "_edit_shut_offed_vm" /\ j.vm = v /\ j.pc = "start" /\ j.done = {}
    BY <2>2, NewJob, OpsAre
  <2>4. x = [j EXCEPT !.add = add, !.make = n, !.drop = drop] /\ add \in SUBSET Disks
    BY <2>1, <2>2 DEF EditJob, Disks
  <2>5. x.op = "_edit_shut_offed_vm" /\ x.vm = v /\ x.pc = "start" /\ x.done = {}
    BY <2>3, <2>4 DEF Jobs
  <2>6. casts' = <<x>>
    BY <1>9, <2>1, OneCast DEF EditVm, Free
  <2>7. PowerJob(x)'
    BY <2>5 DEF PowerJob, PowerOps, StartOps
  <2>8. job'.pc = "commit"
    BY <1>9, NewJob, OpsAre DEF EditVm
  <2> QED BY <2>5, <2>6, <2>7, <2>8, NewCastOK, OpsAre
<1>10. ASSUME NEW v \in VMs,
              \/ StartVm(v) \/ ShutOffVm(v)
              \/ \E add \in SUBSET OldDisks, n \in 0..MaxMake : CreateVm(v, add, n)
       PROVE CastsOK'
  BY <1>10, NoCastOK DEF StartVm, ShutOffVm, CreateVm, Free
<1> QED BY <1>1, <1>2, <1>3, <1>4, <1>5, <1>6, <1>7, <1>8, <1>9, <1>10, JobFrames

-----------------------------------------------------------------------------
(* The domain call *)

\* Nothing that counts as a fault is ever forgotten.
LEMMA FaultsStay ==
  ASSUME TypeOK, [Next]_vars
  PROVE  /\ failures' = 0 => failures = 0
         /\ timeouts' = 0 => timeouts = 0
         /\ crashes' = 0 => crashes = 0
         /\ ~stale' => ~stale
<1>1. /\ failures' = failures \/ failures' = failures + 1
      /\ timeouts' = timeouts \/ timeouts' = timeouts + 1
      /\ crashes' = crashes \/ crashes' = crashes + 1
    BY DEF Next, vars, ApiRequest, ApiCreate, ApiEdit, ApiPower, HandlerStep, MonitorStep, TakeCast,
       AckCast, PublishCast, LateCommit, CreateStart, MakeVolume, AttachDisk, DetachDisk, CheckDuplicates,
       AttachCommit, StatusCommit, DeleteStart, DeleteSnapshots, DeleteFinish, PowerCall, PowerFinish,
       EditStart, EditDetached, DomainExecute, DomainStartsHalf, DomainCrash, GuestStops, ServiceTimeout,
       ServiceCrash, MonitorList, MonitorLoad, MonitorWrite, CreateVm, EditVm, DeleteVm, StartVm,
       ShutOffVm, outside, faults
<1>2. failures \in Nat /\ timeouts \in Nat /\ crashes \in Nat
  BY DEF TypeOK
<1>3. UNCHANGED stale \/ MonitorWrite
    BY DEF Next, vars, ApiRequest, ApiCreate, ApiEdit, ApiPower, HandlerStep, MonitorStep, TakeCast,
       AckCast, PublishCast, LateCommit, CreateStart, MakeVolume, AttachDisk, DetachDisk, CheckDuplicates,
       AttachCommit, StatusCommit, DeleteStart, DeleteSnapshots, DeleteFinish, PowerCall, PowerFinish,
       EditStart, EditDetached, DomainExecute, DomainStartsHalf, DomainCrash, GuestStops, ServiceTimeout,
       ServiceCrash, MonitorList, MonitorLoad, CreateVm, EditVm, DeleteVm, StartVm,
       ShutOffVm
<1>4. MonitorWrite => UNCHANGED stale \/ (stale' = (stale \/ \E v \in Touched : mon.list[v] # guests[v].state))
  BY DEF MonitorWrite
<1>5. ~stale' => ~stale
  BY <1>3, <1>4, Zenon
<1> QED BY <1>1, <1>2, <1>5

\* Handlers change their job only at their own points.
LEMMA JobWaits ==
  ASSUME [Next]_vars, job.pc = "domain"
  PROVE  UNCHANGED <<job, casts>> \/ PowerFinish \/ ServiceCrash
<1>1. job # NoJob
  BY IdleJob
<1> QED BY <1>1, JobFrames
     DEF TakeCast, AckCast, PublishCast, LateCommit, CreateStart, MakeVolume, AttachDisk, DetachDisk,
         CheckDuplicates, AttachCommit, StatusCommit, DeleteStart, DeleteSnapshots, DeleteFinish,
         PowerCall, EditStart, EditDetached, CreateVm, EditVm, DeleteVm, StartVm, ShutOffVm, Free, At

LEMMA CallFrames ==
  ASSUME [Next]_vars
  PROVE  \/ UNCHANGED <<reply, domQ>>
         \/ PowerCall \/ PowerFinish \/ DomainExecute \/ DomainStartsHalf \/ ServiceTimeout \/ ServiceCrash
BY DEF Next, vars, ApiRequest, ApiCreate, ApiEdit, ApiPower, HandlerStep, MonitorStep, TakeCast,
       AckCast, PublishCast, LateCommit, CreateStart, MakeVolume, AttachDisk, DetachDisk, CheckDuplicates,
       AttachCommit, StatusCommit, DeleteStart, DeleteSnapshots, DeleteFinish,
       EditStart, EditDetached, DomainCrash, GuestStops, MonitorList, MonitorLoad, MonitorWrite,
       CreateVm, EditVm, DeleteVm, StartVm, ShutOffVm

\* While nothing timed out or died, what the domain executes is the handler's call.
OnTime == timeouts = 0 /\ crashes = 0
LEMMA Executed ==
  ASSUME TypeOK, CallsOK, OnTime, domQ # <<>>
  PROVE  /\ job.pc = "domain" /\ reply = "none"
         /\ Head(domQ) = CallOf /\ Tail(domQ) = <<>> /\ CallOf.owner = "svc"
<1>1. job.pc = "domain" /\ reply = "none" /\ domQ = <<CallOf>>
  BY DEF CallsOK, OnTime
<1>2. \A x : Head(<<x>>) = x /\ Tail(<<x>>) = <<>>
  OBVIOUS
<1> QED BY <1>1, <1>2 DEF CallOf

LEMMA CallsStep ==
  ASSUME TypeOK, JobOK, CallsOK, [Next]_vars
  PROVE  CallsOK'
<1> SUFFICES ASSUME timeouts' = 0, crashes' = 0 PROVE CallsOK'
  BY DEF CallsOK
<1>1. timeouts = 0 /\ crashes = 0 /\ OnTime
  BY FaultsStay DEF OnTime
<1>2. /\ reply # "timeout"
      /\ reply # "none" => job.pc = "domain" /\ domQ = <<>>
      /\ domQ # <<>> => job.pc = "domain" /\ reply = "none" /\ domQ = <<CallOf>>
  BY <1>1 DEF CallsOK
<1>3. ~ServiceTimeout /\ ~ServiceCrash
  <2>1. timeouts + 1 # 0 /\ crashes + 1 # 0
    BY DEF TypeOK
  <2> QED BY <2>1 DEF ServiceTimeout, ServiceCrash
<1>4. CASE UNCHANGED <<reply, domQ>>
  <2>1. CASE reply = "none" /\ domQ = <<>>
    BY <1>4, <2>1 DEF CallsOK
  <2>2. CASE ~(reply = "none" /\ domQ = <<>>)
    <3>1. job.pc = "domain"
      BY <1>2, <2>2
    <3>2. UNCHANGED job \/ PowerFinish
      BY <1>3, <3>1, JobWaits
    <3>3. CASE UNCHANGED job
      <4>1. CallOf' = CallOf
        BY <3>3 DEF CallOf
      <4> QED BY <1>2, <1>4, <3>3, <4>1 DEF CallsOK
    <3>4. CASE PowerFinish
      BY <1>4, <3>4 DEF PowerFinish
    <3> QED BY <3>2, <3>3, <3>4
  <2> QED BY <2>1, <2>2
<1>5. CASE PowerCall
  <2>1. job.pc = "start" /\ Goto("domain") /\ UNCHANGED reply
    BY <1>5 DEF PowerCall
  <2>2. domQ = <<>> /\ reply = "none"
    BY <1>2, <2>1
  <2>3. domQ' = Append(domQ, CallOf)
    BY <1>5 DEF PowerCall, CallOf
  <2>4. job'.pc = "domain" /\ job'.op = job.op /\ job'.vm = job.vm /\ job'.add = job.add
    BY <2>1, JobGoes DEF TypeOK
  <2>5. CallOf' = CallOf
    BY <2>4 DEF CallOf
  <2>6. domQ' = <<CallOf>>
    BY <2>2, <2>3, OneCast
  <2> QED BY <2>1, <2>2, <2>4, <2>5, <2>6 DEF CallsOK
<1>6. CASE PowerFinish
  BY <1>2, <1>6 DEF PowerFinish, CallsOK
<1>7. CASE DomainExecute \/ DomainStartsHalf
  <2>1. domQ # <<>> /\ domQ' = Tail(domQ) /\ UNCHANGED job
    BY <1>7 DEF DomainExecute, DomainStartsHalf
  <2>2. /\ job.pc = "domain" /\ Head(domQ).owner = "svc" /\ Tail(domQ) = <<>>
    BY <1>1, <2>1, Executed
  <2>3. reply' \in {"ok", "err"}
    BY <1>7, <2>2 DEF DomainExecute, DomainStartsHalf
  <2> QED BY <2>1, <2>2, <2>3 DEF CallsOK
<1> QED BY <1>3, <1>4, <1>5, <1>6, <1>7, CallFrames

-----------------------------------------------------------------------------
(* No machine is left in between *)

\* The work on a machine that is turned on or off.
Working(v) ==
  \/ job.vm = v /\ job.op \in PowerOps /\ job.pc # "ack"
  \/ \E i \in DOMAIN casts : casts[i].vm = v /\ casts[i].op \in PowerOps

LEMMA TransitionsStep ==
  ASSUME TypeOK, JobOK, CastsOK, CallsOK, TransitionsOK, [Next]_vars
  PROVE  TransitionsOK'
<1> SUFFICES ASSUME timeouts' = 0, crashes' = 0, NEW v \in VMs, InTransition(v)' PROVE Working(v)'
  BY DEF TransitionsOK, Working
<1>0. /\ job \in Jobs /\ casts \in Seq(Jobs) /\ rows \in [VMs -> Rows]
      /\ timeouts = 0 /\ crashes = 0 /\ crashes + 1 # 0
  BY FaultsStay DEF TypeOK
<1>1. CASE StartVm(v) \/ ShutOffVm(v)
  <2>1. Job("start_vm", v, "cast") \in Jobs /\ rows[v].disks \in SUBSET Disks
    BY <1>0, NewJob, OpsAre DEF Rows
  <2>2. /\ Job("start_vm", v, "cast").op = "start_vm" /\ Job("start_vm", v, "cast").vm = v
        /\ Job("start_vm", v, "cast").pc = "cast"
        /\ Job("shut_off_vm", v, "cast").op = "shut_off_vm" /\ Job("shut_off_vm", v, "cast").vm = v
        /\ Job("shut_off_vm", v, "cast").pc = "cast"
    BY NewJob, OpsAre
  <2>3. job'.vm = v /\ job'.op \in {"start_vm", "shut_off_vm"} /\ job'.pc = "cast"
    <3>1. PICK j \in Jobs : j = Job("start_vm", v, "cast")
      BY <2>1
    <3>2. StartVm(v) => job' = [j EXCEPT !.add = rows[v].disks]
      BY <3>1 DEF StartVm
    <3>3. StartVm(v) => job'.vm = v /\ job'.op = "start_vm" /\ job'.pc = "cast"
      BY <2>1, <2>2, <3>1, <3>2 DEF Jobs
    <3> QED BY <1>1, <2>2, <3>3 DEF ShutOffVm
  <2> QED BY <2>3 DEF Working, PowerOps, StartOps
<1>2. CASE ~(StartVm(v) \/ ShutOffVm(v))
  <2>1. InTransition(v)
    BY <1>2, RowsStep DEF RowsGo, RowKept
  <2>2. Working(v)
    BY <1>0, <2>1 DEF TransitionsOK, Working
  <2>3. CASE UNCHANGED <<job, casts>>
    BY <2>2, <2>3 DEF Working
  <2>4. CASE \E i \in DOMAIN casts : casts[i].vm = v /\ casts[i].op \in PowerOps
    <3>1. PICK i \in DOMAIN casts : casts[i].vm = v /\ casts[i].op \in PowerOps
      BY <2>4
    <3>2. i = 1 /\ Len(casts) = 1 /\ casts # <<>>
      <4>1. PICK q \in Seq(Jobs) : q = casts
        BY <1>0
      <4>2. i \in 1..Len(q) /\ Len(q) <= 1 /\ Len(q) \in Nat
        BY <3>1, <4>1, LenProperties DEF CastsOK
      <4>3. \A n \in Nat : n <= 1 /\ i \in 1..n => i = 1 /\ n = 1
        OBVIOUS
      <4>4. i = 1 /\ Len(q) = 1
        BY <4>2, <4>3
      <4>5. q # <<>>
        BY <4>4
      <4> QED BY <4>1, <4>4, <4>5
    <3>3. job = NoJob \/ job.pc = "commit"
      BY <3>2 DEF CastsOK
    <3>4. CASE TakeCast
      <4>1. job' = casts[1] /\ casts[1].pc = "start"
        BY <1>0, <3>1, <3>2, <3>4 DEF TakeCast, CastsOK
      <4> QED BY <3>1, <3>2, <4>1 DEF Working
    <3>5. CASE UNCHANGED casts
      BY <3>1, <3>5 DEF Working
    <3>6. TakeCast \/ UNCHANGED casts
      BY <1>0, <3>2, <3>3, IdleJob, JobFrames
         DEF TakeCast, AckCast, PublishCast, LateCommit, CreateStart, MakeVolume, AttachDisk, DetachDisk,
         CheckDuplicates, AttachCommit, StatusCommit, DeleteStart, DeleteSnapshots, DeleteFinish,
         PowerCall, PowerFinish, EditStart, EditDetached, CreateVm, EditVm, DeleteVm, StartVm, ShutOffVm,
         Free, At, ServiceCrash
    <3> QED BY <3>4, <3>5, <3>6
  <2>5. CASE job.vm = v /\ job.op \in PowerOps /\ job.pc # "ack"
    <3>1. job.pc \in {"cast", "start", "domain"} /\ job # NoJob
      BY <2>5, IdleJob, OpsFacts DEF JobOK, PowerOps, StartOps, Jobs, TypeOK
    <3>2. PublishCast \/ PowerCall \/ PowerFinish \/ UNCHANGED <<job, casts>>
      BY <1>0, <2>5, <3>1, JobFrames
         DEF TakeCast, AckCast, LateCommit, CreateStart, MakeVolume, AttachDisk, DetachDisk,
         CheckDuplicates, AttachCommit, StatusCommit, DeleteStart, DeleteSnapshots, DeleteFinish,
         EditStart, EditDetached, CreateVm, EditVm, DeleteVm, StartVm, ShutOffVm,
         Free, At, ServiceCrash, PowerOps, StartOps
    <3>3. CASE PublishCast
      <4>1. job.pc = "cast"
        BY <3>3 DEF PublishCast
      <4>2. job.op \in {"start_vm", "shut_off_vm"}
        BY <2>5, <4>1, OpsFacts DEF JobOK, PowerOps, StartOps
      <4>3. Published \in Jobs /\ Published.op \in {"_start_vm", "_shut_off_vm"} /\ Published.vm = v
        BY <1>0, <2>5, <4>2, JobPublished, OpsAre
      <4>4. casts' = Append(casts, Published)
        BY <3>3 DEF PublishCast, Published
      <4>5. PICK x \in Jobs : x = Published
        BY <4>3
      <4>6. PICK q \in Seq(Jobs) : q = casts
        BY <1>0
      <4>7. Len(q) + 1 \in DOMAIN Append(q, x) /\ Append(q, x)[Len(q) + 1] = x
        OBVIOUS
      <4>8. \E i \in DOMAIN casts' : casts'[i] = x
        BY <4>4, <4>5, <4>6, <4>7
      <4> QED BY <4>3, <4>5, <4>8 DEF Working, PowerOps, StartOps
    <3>4. CASE PowerCall
      <4>1. job'.op = job.op /\ job'.vm = job.vm /\ job'.pc = "domain"
        BY <1>0, <3>4, JobGoes DEF PowerCall
      <4> QED BY <2>5, <4>1 DEF Working
    <3>5. CASE PowerFinish
      <4>1. reply # "timeout" /\ Exists(v)
        BY <1>0, <2>1 DEF CallsOK, Exists, InTransition
      <4>2. rows'[v].status \in {"available", "error"}
        BY <1>0, <2>5, <3>5, <4>1, RowPowered
      <4> QED BY <4>2 DEF InTransition
    <3> QED BY <2>3, <3>2, <3>3, <3>4, <3>5
  <2> QED BY <2>2, <2>4, <2>5 DEF Working
<1> QED BY <1>1, <1>2

-----------------------------------------------------------------------------
(* Attachments *)

\* The disks whose services hold an attachment to the machine.
Held(v) == (rows[v].disks \cup InHand(v)) \ LetGo(v)

LEMMA AttachedFrames ==
  ASSUME [Next]_vars
  PROVE  UNCHANGED attached \/ AttachDisk \/ DetachDisk
BY DEF Next, vars, ApiRequest, ApiCreate, ApiEdit, ApiPower, HandlerStep, MonitorStep, TakeCast,
       AckCast, PublishCast, LateCommit, CreateStart, MakeVolume, CheckDuplicates, AttachCommit,
       StatusCommit, DeleteStart, DeleteSnapshots, DeleteFinish, PowerCall, PowerFinish, EditStart,
       EditDetached, DomainExecute, DomainStartsHalf, DomainCrash, GuestStops, ServiceTimeout,
       ServiceCrash, MonitorList, MonitorLoad, MonitorWrite, CreateVm, EditVm, DeleteVm, StartVm,
       ShutOffVm, outside

\* A handler reaches its disks with none of them done.
LEMMA HandsEmpty ==
  ASSUME TypeOK, JobOK, CastsOK, [Next]_vars,
         ~AttachDisk, ~DetachDisk, ~AttachCommit, ~EditDetached, ~DeleteFinish, ~ServiceCrash
  PROVE  \/ UNCHANGED job
         \/ /\ job.pc \notin {"attach", "detach"}
            /\ job'.pc \in {"attach", "detach"} => job'.done = {}
<1>0. job \in Jobs /\ casts \in Seq(Jobs)
  BY DEF TypeOK
<1>1. job.pc \in {"attach", "detach"} => UNCHANGED job
  BY IdleJob, JobFrames
     DEF TakeCast, AckCast, PublishCast, LateCommit, CreateStart, MakeVolume,
         CheckDuplicates, StatusCommit, DeleteStart, DeleteSnapshots,
         PowerCall, PowerFinish, EditStart, CreateVm, EditVm, DeleteVm, StartVm, ShutOffVm, Free, At
<1> SUFFICES ASSUME job.pc \notin {"attach", "detach"}, job'.pc \in {"attach", "detach"}, job' # job
             PROVE  job'.done = {}
  BY <1>1
<1>2. ASSUME job' \in {NoJob, Ended} PROVE FALSE
  BY <1>0, <1>2, IdleJob, JobEnds
<1>3. CASE TakeCast
  BY <1>0, <1>3 DEF TakeCast, CastsOK
<1>4. CASE EditStart \/ CreateStart \/ DeleteStart
  <2>1. job.pc = "start" /\ \E pc \in {"detach", "make", "snapshots"} : Goto(pc)
    BY <1>2, <1>4 DEF EditStart, CreateStart, DeleteStart, At, Done
  <2> QED BY <1>0, <2>1, JobGoes DEF JobOK
<1>5. CASE CheckDuplicates
  <2>1. job.pc = "make" /\ Goto("attach")
    BY <1>2, <1>5 DEF CheckDuplicates, Done
  <2> QED BY <1>0, <2>1, JobGoes DEF JobOK
<1>6. CASE PowerCall
  BY <1>0, <1>6, JobGoes DEF PowerCall
<1>7. CASE MakeVolume
  BY <1>0, <1>2, <1>7, MakeTyped
<1>8. CASE DeleteSnapshots
  <2>1. job.pc = "snapshots" /\ job' = [job EXCEPT !.pc = "detach", !.drop = rows[job.vm].disks]
    BY <1>2, <1>8 DEF DeleteSnapshots, At, Done
  <2> QED BY <1>0, <2>1 DEF JobOK, Jobs
<1>9. ~AckCast /\ ~PublishCast /\ ~LateCommit /\ ~StatusCommit /\ ~PowerFinish
  BY <1>2 DEF AckCast, PublishCast, LateCommit, StatusCommit, PowerFinish, Done
<1>10. ASSUME NEW v \in VMs, DeleteVm(v) \/ ShutOffVm(v) PROVE FALSE
  <2>1. job' \in {Job("delete_vm", v, "commit"), Job("shut_off_vm", v, "cast")}
    BY <1>10 DEF DeleteVm, ShutOffVm
  <2> QED BY <2>1, NewJob, OpsAre
<1>11. ASSUME NEW v \in VMs, StartVm(v) PROVE FALSE
  <2>1. PICK j \in Jobs : j = Job("start_vm", v, "cast")
    BY NewJob, OpsAre
  <2>2. j.pc = "cast" /\ job' = [j EXCEPT !.add = rows[v].disks]
    BY <1>11, <2>1, NewJob, OpsAre DEF StartVm
  <2> QED BY <2>1, <2>2 DEF Jobs
<1>12. ASSUME NEW v \in VMs, NEW add, NEW n, CreateVm(v, add, n) PROVE FALSE
  <2>1. PICK j \in Jobs : j = Job("create_vm", v, "cast")
    BY NewJob, OpsAre
  <2>2. j.pc = "cast" /\ job' = [j EXCEPT !.add = add, !.make = n]
    BY <1>12, <2>1, NewJob, OpsAre DEF CreateVm, CreateJob
  <2> QED BY <2>1, <2>2 DEF Jobs
<1>13. ASSUME NEW v \in VMs, NEW add, NEW n, NEW drop, EditVm(v, add, n, drop) PROVE FALSE
  BY <1>13, NewJob, OpsAre DEF EditVm
<1> QED BY <1>3, <1>4, <1>5, <1>6, <1>7, <1>8, <1>9, <1>10, <1>11, <1>12, <1>13, JobFrames

\* A step that changes neither attachments nor what is held.
LEMMA HeldStays ==
  ASSUME TypeOK, JobOK, CastsOK, [Next]_vars, NEW v \in VMs,
         ~AttachDisk, ~DetachDisk, ~AttachCommit, ~EditDetached, ~DeleteFinish, ~ServiceCrash
  PROVE  Held(v)' = Held(v) /\ UNCHANGED attached
<1>1. rows'[v].disks = rows[v].disks
  BY RowsStep DEF RowsGo, RowKept
<1>2. InHand(v)' = InHand(v) /\ LetGo(v)' = LetGo(v)
  BY HandsEmpty DEF InHand, LetGo
<1> QED BY <1>1, <1>2, AttachedFrames DEF Held

LEMMA AttachmentsStep ==
  ASSUME TypeOK, JobOK, CastsOK, AttachmentsAgree, [Next]_vars
  PROVE  AttachmentsAgree'
<1> SUFFICES ASSUME failures' = 0, crashes' = 0, NEW v \in VMs, NEW d \in Disks
             PROVE  attached'[v][d] = IF d \in Held(v)' THEN 1 ELSE 0
  BY DEF AttachmentsAgree, Held
<1>0. /\ job \in Jobs /\ rows \in [VMs -> Rows] /\ attached \in [VMs -> [Disks -> Nat]]
      /\ failures = 0 /\ crashes = 0 /\ failures + 1 # 0 /\ crashes + 1 # 0
  BY FaultsStay DEF TypeOK
<1>1. attached[v][d] = IF d \in Held(v) THEN 1 ELSE 0
  BY <1>0 DEF AttachmentsAgree, Held
<1>2. ~ServiceCrash
  BY <1>0 DEF ServiceCrash
<1>3. CASE AttachDisk
  <2>1. PICK e \in Wanted \ job.done :
          /\ attached' = Attached(job.vm, e) /\ job' = [job EXCEPT !.done = @ \cup {e}]
          /\ UNCHANGED rows
    BY <1>0, <1>3 DEF AttachDisk
  <2>2. job.pc = "attach" /\ job.vm \in VMs /\ e \in Disks
    BY <1>0, <1>3, <2>1, JobFacts DEF AttachDisk, Wanted, Jobs
  <2>3. job'.pc = "attach" /\ job'.vm = job.vm /\ job'.done = job.done \cup {e}
    BY <1>0, <2>1, <2>2 DEF Jobs
  <2>4. Held(v)' = IF v = job.vm THEN Held(v) \cup {e} ELSE Held(v)
    BY <2>1, <2>2, <2>3 DEF Held, InHand, LetGo
  <2>5. e \notin rows[job.vm].disks
    BY <2>1, <2>2 DEF JobOK
  <2>6. v = job.vm => e \notin Held(v)
    BY <2>1, <2>2, <2>5 DEF Held, InHand
  <2>7. attached'[v][d] = IF v = job.vm /\ d = e THEN attached[v][d] + 1 ELSE attached[v][d]
    BY <1>0, <2>1, <2>2 DEF Attached
  <2> QED BY <1>1, <2>4, <2>6, <2>7
<1>4. CASE DetachDisk
  <2>1. PICK e \in job.drop \ job.done :
          attached' = Detached(job.vm, e) /\ job' = [job EXCEPT !.done = @ \cup {e}]
    BY <1>0, <1>4 DEF DetachDisk
  <2>2. job.pc = "detach" /\ job.vm \in VMs /\ e \in Disks /\ UNCHANGED rows
    BY <1>0, <1>4, <2>1, JobFacts DEF DetachDisk, Jobs
  <2>3. job'.pc = "detach" /\ job'.vm = job.vm /\ job'.done = job.done \cup {e}
    BY <1>0, <2>1, <2>2 DEF Jobs
  <2>4. Held(v)' = IF v = job.vm THEN Held(v) \ {e} ELSE Held(v)
    BY <2>1, <2>2, <2>3 DEF Held, InHand, LetGo
  <2>5. e \in rows[job.vm].disks
    BY <2>1, <2>2 DEF JobOK
  <2>6. v = job.vm => e \in Held(v)
    BY <2>1, <2>2, <2>5 DEF Held, LetGo
  <2>7. attached'[v][d] = IF v = job.vm /\ d = e THEN attached[v][d] \div 2 ELSE attached[v][d]
    BY <1>0, <2>1, <2>2 DEF Detached
  <2>8. 1 \div 2 = 0
    OBVIOUS
  <2> QED BY <1>1, <2>4, <2>6, <2>7, <2>8
<1>5. CASE AttachCommit
  <2>1. job.pc = "attach" /\ job.vm \in VMs /\ UNCHANGED attached
    BY <1>5, JobFacts DEF AttachCommit, outside
  <2>2. job'.pc = "status"
    BY <1>0, <1>5 DEF AttachCommit, Jobs
  <2>3. rows'[v].disks = IF v = job.vm THEN rows[v].disks \cup job.done ELSE rows[v].disks
    BY <1>0, <1>5, <2>1, RowAttached
  <2>4. Held(v)' = Held(v)
    BY <2>1, <2>2, <2>3 DEF Held, InHand, LetGo
  <2> QED BY <1>1, <2>1, <2>4
<1>6. CASE EditDetached
  <2>1. job.pc = "detach" /\ job.vm \in VMs /\ UNCHANGED attached /\ job.done = job.drop
    BY <1>6, JobFacts DEF EditDetached, At, outside, JobOK
  <2>2. job'.pc = "make"
    BY <1>0, <1>6 DEF EditDetached, Jobs
  <2>3. rows'[v].disks = IF v = job.vm THEN rows[v].disks \ job.drop ELSE rows[v].disks
    BY <1>0, <1>6, <2>1, RowDetached
  <2>4. Held(v)' = Held(v)
    BY <2>1, <2>2, <2>3 DEF Held, InHand, LetGo
  <2> QED BY <1>1, <2>1, <2>4
<1>7. CASE DeleteFinish
  <2>1. /\ job.pc = "detach" /\ job.op = "_delete_vm" /\ job.vm \in VMs /\ UNCHANGED attached
        /\ job.done = rows[job.vm].disks
    BY <1>7, JobFacts DEF DeleteFinish, At, outside, JobOK
  <2>2. job'.pc \in {"ack", "idle"}
    BY <1>0, <1>7, JobEnds DEF DeleteFinish, Done
  <2>3. rows'[v].disks = IF v = job.vm THEN {} ELSE rows[v].disks
    BY <1>0, <1>7, <2>1, RowDeleted
  <2>4. Held(v)' = Held(v)
    BY <2>1, <2>2, <2>3 DEF Held, InHand, LetGo
  <2> QED BY <1>1, <2>1, <2>4
<1>8. CASE ~AttachDisk /\ ~DetachDisk /\ ~AttachCommit /\ ~EditDetached /\ ~DeleteFinish
  BY <1>1, <1>2, <1>8, HeldStays
<1> QED BY <1>3, <1>4, <1>5, <1>6, <1>7, <1>8

-----------------------------------------------------------------------------
(* Power states *)

LEMMA GuestFrames ==
  ASSUME [Next]_vars
  PROVE  \/ UNCHANGED guests
         \/ DomainExecute \/ DomainStartsHalf \/ DomainCrash \/ \E v \in VMs : GuestStops(v)
BY DEF Next, vars, ApiRequest, ApiCreate, ApiEdit, ApiPower, HandlerStep, MonitorStep, TakeCast,
       AckCast, PublishCast, LateCommit, CreateStart, MakeVolume, AttachDisk, DetachDisk, CheckDuplicates,
       AttachCommit, StatusCommit, DeleteStart, DeleteSnapshots, DeleteFinish, PowerCall, PowerFinish,
       EditStart, EditDetached, ServiceTimeout, ServiceCrash, MonitorList, MonitorLoad, MonitorWrite,
       CreateVm, EditVm, DeleteVm, StartVm, ShutOffVm

LEMMA GuestsStep ==
  ASSUME TypeOK, GuestsOK, [Next]_vars
  PROVE  GuestsOK'
<1>0. guests \in [VMs -> Guests] /\ domQ \in Seq(Requests)
  BY DEF TypeOK
<1>1. CASE UNCHANGED guests
  BY <1>1 DEF GuestsOK, On
<1>2. CASE guests' = Effect(Head(domQ)) /\ domQ # <<>>
  <2>1. PICK r \in Requests : r = Head(domQ)
    BY <1>0, <1>2, AddTail
  <2>2. ASSUME NEW u \in VMs PROVE ~On(u)' => guests'[u].disks = {}
    <3>1. CASE u # r.vm
      <4>1. guests'[u] = guests[u]
        BY <1>0, <1>2, <2>1, <3>1, EffectOf
      <4> QED BY <4>1 DEF GuestsOK, On
    <3>2. CASE u = r.vm
      <4>1. guests'[u] = [state |-> "running", disks |-> r.disks] \/ guests'[u] = Off
        BY <1>0, <1>2, <2>1, <3>2, EffectOf
      <4> QED BY <4>1 DEF On, Off
    <3> QED BY <3>1, <3>2
  <2> QED BY <2>2 DEF GuestsOK
<1>3. ASSUME NEW v \in VMs, GuestStops(v) PROVE GuestsOK'
  BY <1>0, <1>3 DEF GuestStops, GuestsOK, On, Off
<1>4. DomainExecute \/ DomainStartsHalf \/ DomainCrash =>
        UNCHANGED guests \/ (guests' = Effect(Head(domQ)) /\ domQ # <<>>)
  BY DEF DomainExecute, DomainStartsHalf, DomainCrash
<1> QED BY <1>1, <1>2, <1>3, <1>4, GuestFrames

\* Where the handler of the next moment comes from.
LEMMA JobOrigin ==
  ASSUME TypeOK, JobOK, [Next]_vars
  PROVE  \/ job'.op = job.op /\ job'.vm = job.vm
         \/ job' = NoJob
         \/ TakeCast
         \/ \E v \in VMs : \/ DeleteVm(v) /\ Settled(v, "shut_off") /\ job'.vm = v
                           \/ StartVm(v) \/ ShutOffVm(v)
         \/ \E v \in VMs, add \in SUBSET OldDisks, n \in 0..MaxMake : CreateVm(v, add, n)
         \/ \E v \in VMs, add \in SUBSET OldDisks, n \in 0..MaxMake, drop \in SUBSET Disks :
              EditVm(v, add, n, drop)
<1> DEFINE Kept == job'.op = job.op /\ job'.vm = job.vm
<1>0. job \in Jobs
  BY DEF TypeOK
<1>1. ASSUME job' = Ended PROVE Kept \/ job' = NoJob
  BY <1>0, <1>1, JobEnds
<1>2. ASSUME Goes PROVE Kept \/ job' = NoJob
  BY <1>0, <1>1, <1>2, JobGoes DEF Goes, Done
<1>3. ASSUME AttachDisk \/ DetachDisk PROVE Kept \/ job' = NoJob
  <2>1. job.vm \in VMs /\ attached \in [VMs -> [Disks -> Nat]]
    BY <1>3, JobFacts DEF AttachDisk, DetachDisk, TypeOK
  <2> QED BY <1>0, <1>1, <1>3, <2>1, DisksTyped
<1>4. ASSUME MakeVolume PROVE Kept \/ job' = NoJob
  BY <1>0, <1>1, <1>4, MakeTyped
<1>5. ASSUME AttachCommit \/ EditDetached PROVE Kept \/ job' = NoJob
  <2>1. \E pc \in {"status", "make"} : job' = [job EXCEPT !.pc = pc, !.done = {}]
    BY <1>5 DEF AttachCommit, EditDetached
  <2> QED BY <1>0, <2>1 DEF Jobs
<1>6. ASSUME DeleteSnapshots PROVE Kept \/ job' = NoJob
  <2>1. Done \/ job' = [job EXCEPT !.pc = "detach", !.drop = rows[job.vm].disks]
    BY <1>6 DEF DeleteSnapshots
  <2> QED BY <1>0, <1>1, <2>1 DEF Jobs, Done
<1>7. (\/ LateCommit \/ CreateStart \/ CheckDuplicates \/ StatusCommit \/ DeleteStart
       \/ DeleteFinish \/ PowerCall \/ PowerFinish \/ EditStart) => Goes
  BY DEF LateCommit, CreateStart, CheckDuplicates, StatusCommit, DeleteStart,
         DeleteFinish, PowerCall, PowerFinish, EditStart, Goes
<1>8. AckCast \/ PublishCast \/ ServiceCrash => job' = NoJob
  BY DEF AckCast, PublishCast, ServiceCrash
<1>9. ASSUME NEW v \in VMs, DeleteVm(v)
      PROVE  Kept \/ (Settled(v, "shut_off") /\ job'.vm = v)
  BY <1>9, NewJob, OpsAre DEF DeleteVm
<1>10. UNCHANGED <<job, casts>> => Kept
  OBVIOUS
<1>11. ASSUME NEW v \in VMs, DeleteVm(v) \/ StartVm(v) \/ ShutOffVm(v)
       PROVE  \/ Kept
              \/ \E u \in VMs : \/ DeleteVm(u) /\ Settled(u, "shut_off") /\ job'.vm = u
                                \/ StartVm(u) \/ ShutOffVm(u)
  BY <1>9, <1>11
<1> DEFINE Asked ==
      \/ \E v \in VMs : DeleteVm(v) \/ StartVm(v) \/ ShutOffVm(v)
      \/ \E v \in VMs, add \in SUBSET OldDisks, n \in 0..MaxMake : CreateVm(v, add, n)
      \/ \E v \in VMs, add \in SUBSET OldDisks, n \in 0..MaxMake, drop \in SUBSET Disks :
           EditVm(v, add, n, drop)
<1>12. \/ UNCHANGED <<job, casts>> \/ TakeCast \/ AckCast \/ PublishCast \/ LateCommit
       \/ CreateStart \/ MakeVolume \/ CheckDuplicates \/ AttachDisk \/ AttachCommit \/ StatusCommit
       \/ DeleteStart \/ DeleteSnapshots \/ DetachDisk \/ DeleteFinish
       \/ PowerCall \/ PowerFinish \/ EditStart \/ EditDetached \/ ServiceCrash \/ Asked
  BY JobFrames
<1>13. Asked => \/ \E v \in VMs : DeleteVm(v) \/ StartVm(v) \/ ShutOffVm(v)
                \/ \E v \in VMs, add \in SUBSET OldDisks, n \in 0..MaxMake : CreateVm(v, add, n)
                \/ \E v \in VMs, add \in SUBSET OldDisks, n \in 0..MaxMake, drop \in SUBSET Disks :
                     EditVm(v, add, n, drop)
  OBVIOUS
<1> HIDE DEF Kept, Asked
<1>14. Kept \/ job' = NoJob \/ TakeCast \/ Asked
  BY <1>2, <1>3, <1>4, <1>5, <1>6, <1>7, <1>8, <1>10, <1>12
<1>15. Kept => job'.op = job.op /\ job'.vm = job.vm
  BY DEF Kept
<1> QED BY <1>11, <1>15, <1>13, <1>14

\* What a cast of the next moment is about.
LEMMA CastOrigin ==
  ASSUME TypeOK, JobOK, CastsOK, [Next]_vars, crashes = 0, crashes' = 0, NEW i \in DOMAIN casts',
         casts'[i].op \in ChangeOps
  PROVE  \/ \E k \in DOMAIN casts : casts[k] = casts'[i]
         \/ \E v \in VMs : job = NoJob /\ Settled(v, "shut_off") /\ casts'[i].vm = v
<1>0. job \in Jobs /\ casts \in Seq(Jobs) /\ crashes + 1 # 0
  BY DEF TypeOK
<1>1. CASE UNCHANGED casts
  BY <1>1
<1>2. CASE TakeCast
  <2>1. PICK q \in Seq(Jobs) : q = casts
    BY <1>0
  <2>2. \A k \in DOMAIN Tail(q) : q # <<>> => k + 1 \in DOMAIN q /\ Tail(q)[k] = q[k + 1]
    OBVIOUS
  <2> QED BY <1>2, <2>1, <2>2 DEF TakeCast
<1>3. CASE PublishCast
  <2>1. job.pc = "cast" /\ casts = <<>>
    BY <1>0, <1>3, IdleJob DEF PublishCast, CastsOK
  <2>2. Published.op \in {"_create_vm", "_start_vm", "_shut_off_vm"}
    <3>1. job.op \in {"create_vm", "start_vm", "shut_off_vm"}
      BY <2>1, OpsFacts DEF JobOK
    <3> QED BY <1>0, <3>1, JobPublished, OpsAre
  <2>3. casts' = <<Published>>
    BY <1>3, <2>1, OneCast DEF PublishCast, Published
  <2>4. casts'[i] = Published
    BY <2>3, OneCast
  <2> QED BY <2>2, <2>4 DEF ChangeOps
<1>4. ASSUME NEW v \in VMs, DeleteVm(v), ~UNCHANGED casts
      PROVE  job = NoJob /\ Settled(v, "shut_off") /\ casts'[i].vm = v
  <2>1. PICK x : x = Job("_delete_vm", v, "start")
    OBVIOUS
  <2>2. casts' = <<x>> /\ x.vm = v
    BY <1>4, <2>1, OneCast, NewJob, OpsAre DEF DeleteVm, Free
  <2>3. casts'[i] = x
    BY <2>2, OneCast
  <2> QED BY <1>4, <2>2, <2>3 DEF DeleteVm, Free
<1>5. ASSUME NEW v \in VMs, NEW add \in SUBSET OldDisks, NEW n \in 0..MaxMake, NEW drop \in SUBSET Disks,
             EditVm(v, add, n, drop)
      PROVE  job = NoJob /\ Settled(v, "shut_off") /\ casts'[i].vm = v
  <2>1. PICK j \in Jobs : j = Job("_edit_shut_offed_vm", v, "start")
    BY NewJob, OpsAre
  <2>2. PICK x : x = EditJob(v, add, n, drop)
    OBVIOUS
  <2>3. x = [j EXCEPT !.add = add, !.make = n, !.drop = drop] /\ j.vm = v
    BY <2>1, <2>2, NewJob, OpsAre DEF EditJob
  <2>4. x.vm = v
    BY <2>3 DEF Jobs
  <2>5. casts' = <<x>>
    BY <1>5, <2>2, OneCast DEF EditVm, Free
  <2>6. casts'[i] = x
    BY <2>5, OneCast
  <2> QED BY <1>5, <2>4, <2>6 DEF EditVm, Free
<1>6. ~ServiceCrash
  BY <1>0 DEF ServiceCrash
<1>7. \/ UNCHANGED casts \/ TakeCast \/ PublishCast
      \/ \E v \in VMs : DeleteVm(v)
      \/ \E v \in VMs, add \in SUBSET OldDisks, n \in 0..MaxMake, drop \in SUBSET Disks :
           EditVm(v, add, n, drop)
  BY <1>6, JobFrames
     DEF AckCast, LateCommit, CreateStart, MakeVolume, AttachDisk, DetachDisk, CheckDuplicates,
         AttachCommit, StatusCommit, DeleteStart, DeleteSnapshots, DeleteFinish, PowerCall, PowerFinish,
         EditStart, EditDetached, CreateVm, StartVm, ShutOffVm
<1> QED BY <1>1, <1>2, <1>3, <1>4, <1>5, <1>7

\* A machine is settled and off only when libvirt says so too.
LEMMA SettledOff ==
  ASSUME PowerOK, Sound, NEW v \in VMs, job = NoJob, Settled(v, "shut_off")
  PROVE  ~On(v)
BY IdleJob DEF PowerOK, Settled, JustStarted

\* The domain executes the call of the handler.
LEMMA PowerExecute ==
  ASSUME TypeOK, JobOK, CastsOK, CallsOK, GuestsOK, PowerOK, Sound, Sound', DomainExecute
  PROVE  PowerOK'
<1>0. /\ job \in Jobs /\ rows \in [VMs -> Rows] /\ guests \in [VMs -> Guests]
      /\ UNCHANGED <<rows, job, casts>> /\ domQ # <<>> /\ OnTime
  BY DEF TypeOK, DomainExecute, Sound, OnTime
<1>1. /\ job.pc = "domain" /\ reply = "none" /\ Head(domQ) = CallOf /\ CallOf.owner = "svc"
      /\ CallOf.vm = job.vm /\ CallOf.disks = job.add
      /\ CallOf.op = IF job.op = "_start_vm" THEN "start" ELSE "turn_off"
  BY <1>0, Executed DEF CallOf
<1>2. job.op \in {"_start_vm", "_shut_off_vm"} /\ job.vm \in VMs
  BY <1>1, JobFacts, OpsFacts
<1>3. casts = <<>>
  BY <1>1, IdleJob DEF CastsOK
<1>4. /\ \A u \in VMs : On(u) => rows[u].power = "running"
      /\ \A u \in VMs : guests[u].disks \subseteq rows[u].disks
  BY <1>1 DEF PowerOK, JustStarted
<1>5. \/ guests' = Effect(CallOf) /\ reply' = "ok"
      \/ UNCHANGED guests /\ reply' = "err"
  BY <1>1 DEF DomainExecute
<1>6. CASE UNCHANGED guests /\ reply' = "err"
  BY <1>0, <1>2, <1>3, <1>4, <1>6 DEF PowerOK, On, ChangeOps
<1>7. CASE guests' = Effect(CallOf) /\ reply' = "ok"
  <2>1. PICK r \in Requests : r = CallOf
    <3>1. domQ \in Seq(Requests)
      BY DEF TypeOK
    <3> QED BY <1>0, <1>1, <3>1, AddTail
  <2>2. /\ \A u \in VMs : u # job.vm => guests'[u] = guests[u]
        /\ guests'[job.vm] = IF job.op = "_start_vm" THEN [state |-> "running", disks |-> job.add] ELSE Off
    BY <1>0, <1>1, <1>7, <2>1, EffectOf
  <2>3. CASE job.op = "_start_vm"
    <3>1. guests'[job.vm].disks = rows[job.vm].disks
      BY <2>2, <2>3 DEF JobOK, PowerJob, StartOps
    <3>2. \A u \in VMs : On(u)' => rows'[u].power = "running" \/ JustStarted(u)'
      BY <1>0, <1>1, <1>4, <1>7, <2>2, <2>3 DEF On, JustStarted
    <3>3. \A u \in VMs : guests'[u].disks \subseteq rows'[u].disks
      BY <1>0, <1>4, <2>2, <3>1
    <3> QED BY <1>0, <1>3, <2>3, <3>2, <3>3 DEF PowerOK, ChangeOps
  <2>4. CASE job.op = "_shut_off_vm"
    <3>1. ~On(job.vm)' /\ guests'[job.vm].disks = {}
      BY <1>0, <2>2, <2>4 DEF On, Off
    <3>2. \A u \in VMs : On(u)' => rows'[u].power = "running"
      BY <1>0, <1>4, <2>2, <3>1 DEF On
    <3>3. \A u \in VMs : guests'[u].disks \subseteq rows'[u].disks
      BY <1>0, <1>4, <2>2, <3>1
    <3> QED BY <1>0, <1>3, <2>4, <3>1, <3>2, <3>3 DEF PowerOK, ChangeOps, On
  <2> QED BY <1>2, <2>3, <2>4
<1> QED BY <1>5, <1>6, <1>7

\* The guests stay, and a machine that is on is running in its row, or the answer
\* that will say so has come.
LEMMA RunningStays ==
  ASSUME TypeOK, JobOK, CastsOK, CallsOK, PowerOK, Sound, Sound', [Next]_vars, UNCHANGED guests,
         ~DomainExecute, ~DomainStartsHalf, NEW v \in VMs, On(v)
  PROVE  rows'[v].power = "running" \/ JustStarted(v)'
<1>0. /\ rows \in [VMs -> Rows] /\ mon \in Monitors /\ OnTime
      /\ timeouts + 1 # 0 /\ crashes + 1 # 0 /\ guests[v].state = "running"
  BY DEF TypeOK, Sound, OnTime, On, Guests, VmPowerState
<1>1. rows[v].power = "running" \/ JustStarted(v)
  BY DEF PowerOK
<1>2. CASE PowerFinish
  <2>1. job.pc = "domain" /\ job.vm \in VMs /\ reply \notin {"none", "timeout"}
    BY <1>0, <1>2, JobFacts DEF PowerFinish, CallsOK, OnTime
  <2>2. job.op \in {"_start_vm", "_shut_off_vm"}
    BY <2>1, OpsFacts DEF JobOK
  <2>3. CASE v # job.vm
    BY <1>0, <1>1, <1>2, <2>1, <2>3, RowPowered DEF JustStarted
  <2>4. CASE v = job.vm /\ reply = "err"
    BY <1>0, <1>1, <1>2, <2>1, <2>4, RowPowered DEF JustStarted
  <2>5. CASE v = job.vm /\ reply = "ok"
    <3>1. job.op = "_start_vm"
      BY <2>2, <2>5 DEF PowerOK
    <3>2. Exists(job.vm)
      BY <3>1 DEF JobOK, PowerJob, PowerOps, StartOps
    <3> QED BY <1>0, <1>2, <2>1, <2>5, <3>1, <3>2, RowPowered
  <2>6. reply \in {"ok", "err"}
    BY <2>1 DEF TypeOK
  <2> QED BY <2>3, <2>4, <2>5, <2>6
<1>3. CASE MonitorWrite
  <2>1. rows'[v].power = rows[v].power \/ rows'[v].power = guests[v].state
    BY <1>0, <1>3, RowsMonitored DEF Sound
  <2>2. JustStarted(v)' = JustStarted(v)
    BY <1>3 DEF MonitorWrite, JustStarted
  <2> QED BY <1>0, <1>1, <2>1, <2>2
<1>4. CASE DeleteFinish
  <2>1. job.op = "_delete_vm" /\ job.vm \in VMs /\ job.pc = "detach"
    BY <1>4, JobFacts DEF DeleteFinish, At
  <2>2. v # job.vm
    BY <2>1 DEF PowerOK, ChangeOps
  <2>3. rows'[v] = rows[v] /\ rows[v].power = "running"
    BY <1>0, <1>1, <1>4, <2>1, <2>2, RowDeleted DEF JustStarted
  <2> QED BY <2>3
<1>5. CASE ~PowerFinish /\ ~MonitorWrite /\ ~DeleteFinish
  <2>1. rows'[v].power = rows[v].power
    BY <1>5, RowsStep DEF RowsGo, RowKept
  <2>2. CASE JustStarted(v)
    <3>1. job.pc = "domain" /\ reply = "ok" /\ domQ = <<>>
      BY <1>0, <2>2 DEF JustStarted, CallsOK, OnTime
    <3>2. ~ServiceCrash /\ ~ServiceTimeout /\ ~PowerCall
      BY <1>0, <3>1 DEF ServiceCrash, ServiceTimeout, PowerCall, Sound
    <3>3. UNCHANGED <<job, reply>>
      BY <1>5, <3>1, <3>2, JobWaits, CallFrames
    <3> QED BY <2>2, <3>3 DEF JustStarted
  <2> QED BY <1>1, <2>1, <2>2
<1> QED BY <1>2, <1>3, <1>4, <1>5

LEMMA PowerStep ==
  ASSUME TypeOK, JobOK, CastsOK, CallsOK, GuestsOK, PowerOK, [Next]_vars
  PROVE  PowerOK'
<1> SUFFICES ASSUME Sound' PROVE PowerOK'
  BY DEF PowerOK
<1>0. Sound /\ OnTime
  BY FaultsStay DEF Sound, OnTime
<1>1. /\ job \in Jobs /\ rows \in [VMs -> Rows] /\ guests \in [VMs -> Guests] /\ casts \in Seq(Jobs)
      /\ failures + 1 # 0 /\ timeouts + 1 # 0 /\ crashes + 1 # 0
  BY DEF TypeOK
<1>2. ~DomainStartsHalf /\ ~DomainCrash /\ ~ServiceCrash /\ ~ServiceTimeout
  BY <1>0, <1>1 DEF DomainStartsHalf, DomainCrash, ServiceCrash, ServiceTimeout, Sound
<1>3. CASE DomainExecute
  BY <1>0, <1>3, PowerExecute
<1>4. ASSUME NEW v \in VMs, GuestStops(v) PROVE PowerOK'
  <2>1. UNCHANGED <<rows, job, casts, reply>> /\ guests' = [guests EXCEPT ![v] = Off]
    BY <1>4 DEF GuestStops
  <2>2. \A u \in VMs : guests'[u] = guests[u] \/ guests'[u] = Off
    BY <1>1, <2>1
  <2>3. ASSUME NEW u \in VMs PROVE (On(u)' => On(u)) /\ guests'[u].disks \subseteq guests[u].disks
    BY <2>2 DEF On, Off
  <2>4. \A i \in DOMAIN casts : casts[i].vm \in VMs
    BY DEF CastsOK
  <2>5. job.op \in ChangeOps \cup {"_shut_off_vm"} => job.vm \in VMs
    BY DEF JobOK, ChangeOps
  <2>6. /\ \A u \in VMs : On(u)' => rows'[u].power = "running" \/ JustStarted(u)'
        /\ \A u \in VMs : guests'[u].disks \subseteq rows'[u].disks
    BY <1>0, <2>1, <2>3 DEF PowerOK, JustStarted
  <2>7. job.op \in ChangeOps => guests'[job.vm].state = "shut_off"
    BY <1>0, <2>3, <2>5 DEF PowerOK, On
  <2>8. job.op = "_shut_off_vm" /\ reply = "ok" => guests'[job.vm].state = "shut_off"
    BY <1>0, <2>3, <2>5 DEF PowerOK, On
  <2>9. ASSUME NEW i \in DOMAIN casts, casts[i].op \in ChangeOps
        PROVE  guests'[casts[i].vm].state = "shut_off"
    BY <1>0, <2>3, <2>4, <2>9 DEF PowerOK, On
  <2> QED BY <2>1, <2>6, <2>7, <2>8, <2>9 DEF PowerOK, On
<1>5. CASE UNCHANGED guests /\ ~DomainExecute
  <2>0. \A u : On(u)' = On(u)
    BY <1>5 DEF On
  <2>1. \A u \in VMs : On(u)' => rows'[u].power = "running" \/ JustStarted(u)'
    BY <1>0, <1>2, <1>5, <2>0, RunningStays
  <2>2. ASSUME NEW u \in VMs PROVE guests'[u].disks \subseteq rows'[u].disks
    <3>1. guests[u].disks \subseteq rows[u].disks
      BY <1>0 DEF PowerOK
    <3>2. CASE EditDetached \/ DeleteFinish
      <4>1. job.vm \in VMs /\ job.op \in ChangeOps
        BY <3>2, JobFacts DEF EditDetached, DeleteFinish, At, ChangeOps
      <4>2. ~On(job.vm) /\ guests[job.vm].disks = {}
        BY <1>0, <4>1 DEF PowerOK, GuestsOK
      <4>3. u # job.vm => rows'[u].disks = rows[u].disks
        BY RowsStep DEF RowsGo, RowKept
      <4> QED BY <1>5, <3>1, <4>2, <4>3
    <3>3. CASE AttachCommit
      BY <1>1, <1>5, <3>1, <3>3, RowAttached, JobFacts DEF AttachCommit
    <3>4. CASE ~EditDetached /\ ~DeleteFinish /\ ~AttachCommit
      BY <1>5, <3>1, <3>4, RowsStep DEF RowsGo, RowKept
    <3> QED BY <3>2, <3>3, <3>4
  <2>3. job'.op \in ChangeOps => ~On(job'.vm)
    <3>1. CASE job'.op = job.op /\ job'.vm = job.vm
      BY <1>0, <3>1 DEF PowerOK
    <3>2. CASE job' = NoJob
      BY <3>2, IdleJob DEF ChangeOps
    <3>3. CASE TakeCast
      <4>1. job' = casts[1] /\ 1 \in DOMAIN casts
        BY <1>1, <3>3 DEF TakeCast
      <4> QED BY <1>0, <4>1 DEF PowerOK
    <3>4. ASSUME NEW v \in VMs, DeleteVm(v), Settled(v, "shut_off"), job'.vm = v PROVE ~On(job'.vm)
      BY <1>0, <3>4, SettledOff DEF DeleteVm, Free
    <3>5. ASSUME NEW v \in VMs, StartVm(v) \/ ShutOffVm(v) PROVE job'.op \notin ChangeOps
      <4>1. PICK j \in Jobs : j = Job("start_vm", v, "cast")
        BY NewJob, OpsAre
      <4>2. j.op = "start_vm" /\ (StartVm(v) => job' = [j EXCEPT !.add = rows[v].disks])
        BY <4>1, NewJob, OpsAre DEF StartVm
      <4>3. StartVm(v) => job'.op = "start_vm"
        BY <4>1, <4>2 DEF Jobs
      <4>4. ShutOffVm(v) => job'.op = "shut_off_vm"
        BY NewJob, OpsAre DEF ShutOffVm
      <4> QED BY <3>5, <4>3, <4>4 DEF ChangeOps
    <3>6. ASSUME NEW v \in VMs, NEW add, NEW n, CreateVm(v, add, n) PROVE job'.op \notin ChangeOps
      <4>1. PICK j \in Jobs : j = Job("create_vm", v, "cast")
        BY NewJob, OpsAre
      <4>2. j.op = "create_vm" /\ job' = [j EXCEPT !.add = add, !.make = n]
        BY <3>6, <4>1, NewJob, OpsAre DEF CreateVm, CreateJob
      <4>3. job'.op = "create_vm"
        BY <4>1, <4>2 DEF Jobs
      <4> QED BY <4>3 DEF ChangeOps
    <3>7. ASSUME NEW v \in VMs, NEW add, NEW n, NEW drop, EditVm(v, add, n, drop) PROVE ~On(job'.vm)
      <4>1. job'.vm = v /\ ~On(v)
        BY <1>0, <3>7, SettledOff, NewJob, OpsAre DEF EditVm, Free
      <4> QED BY <4>1
    <3> QED BY <3>1, <3>2, <3>3, <3>4, <3>5, <3>6, <3>7, JobOrigin
  <2>4. ASSUME NEW i \in DOMAIN casts', casts'[i].op \in ChangeOps PROVE ~On(casts'[i].vm)
    <3>1. crashes = 0 /\ crashes' = 0
      BY <1>0 DEF Sound
    <3>2. CASE \E k \in DOMAIN casts : casts[k] = casts'[i]
      BY <1>0, <2>4, <3>2 DEF PowerOK
    <3>3. ASSUME NEW v \in VMs, job = NoJob, Settled(v, "shut_off"), casts'[i].vm = v PROVE ~On(casts'[i].vm)
      BY <1>0, <3>3, SettledOff
    <3> QED BY <2>4, <3>1, <3>2, <3>3, CastOrigin
  <2>5. ASSUME job'.op = "_shut_off_vm", reply' = "ok" PROVE ~On(job'.vm)
    <3>1. UNCHANGED reply
      BY <1>2, <1>5, <2>5, CallFrames DEF PowerCall, PowerFinish
    <3>2. job.pc = "domain" /\ ~PowerFinish
      BY <1>0, <2>5, <3>1 DEF CallsOK, OnTime, PowerFinish
    <3>3. UNCHANGED job
      BY <1>2, <3>2, JobWaits
    <3> QED BY <1>0, <2>5, <3>1, <3>3 DEF PowerOK
  <2> QED BY <2>0, <2>1, <2>2, <2>3, <2>4, <2>5 DEF PowerOK, On
<1> QED BY <1>2, <1>3, <1>4, <1>5, GuestFrames

-----------------------------------------------------------------------------
(* The theorems *)

LEMMA InitIInv == Init => IInv
<1> SUFFICES ASSUME Init PROVE IInv
  OBVIOUS
<1>1. NoRow \in Rows /\ Off \in Guests
  BY DEF NoRow, Rows, Off, Guests, VmPowerState
<1>2. IdleMonitor \in Monitors
  BY <1>1 DEF IdleMonitor, Monitors, VmPowerState
<1>3. TypeOK
  <2>1. rows \in [VMs -> Rows] /\ guests \in [VMs -> Guests]
    BY <1>1 DEF Init
  <2>2. attached \in [VMs -> [Disks -> Nat]] /\ made \subseteq NewDisks
    BY DEF Init
  <2>3. casts \in Seq(Jobs) /\ domQ \in Seq(Requests) /\ job \in Jobs
    BY EmptySeq, IdleJob DEF Init
  <2>4. {failures, timeouts, crashes} \subseteq 0..MaxFaults
    BY Bounds DEF Init
  <2>5. mon \in Monitors /\ stale \in BOOLEAN /\ reply \in {"none", "ok", "err", "timeout"}
    BY <1>2 DEF Init
  <2> QED BY <2>1, <2>2, <2>3, <2>4, <2>5 DEF TypeOK
<1>4. JobOK
  BY IdleJob, OpsFacts DEF Init, JobOK, PowerJob, PowerOps, StartOps
<1>5. CastsOK /\ CallsOK /\ TransitionsOK
  BY DEF Init, CastsOK, CallsOK, TransitionsOK, InTransition, NoRow
<1>6. GuestsOK /\ PowerOK
  BY IdleJob DEF Init, GuestsOK, PowerOK, Off, On, ChangeOps
<1>7. AttachmentsAgree
  BY IdleJob DEF Init, AttachmentsAgree, InHand, LetGo, NoRow
<1> QED BY <1>3, <1>4, <1>5, <1>6, <1>7 DEF IInv

LEMMA NextIInv == IInv /\ [Next]_vars => IInv'
<1> SUFFICES ASSUME IInv, [Next]_vars PROVE IInv'
  OBVIOUS
<1> QED BY TypesStep, JobStep, CastsStep, CallsStep, TransitionsStep, GuestsStep, AttachmentsStep,
           PowerStep DEF IInv

THEOREM Invariance == Spec => []IInv
BY InitIInv, NextIInv, PTL DEF Spec

\* The state of the machines, their services and libvirt has its types.
THEOREM TypeCorrect == Spec => []TypeOK
BY Invariance, PTL DEF IInv

\* A machine's row and the services of its disks agree on what is attached, as long
\* as no call to these services failed and no process died.
THEOREM DisksAgree == Spec => []AttachmentsAgree
BY Invariance, PTL DEF IInv

\* A machine that is on has its disks attached.
THEOREM DisksHeld == Spec => []OpenDisksAttached
<1>1. IInv => OpenDisksAttached
  <2> SUFFICES ASSUME IInv, failures = 0, crashes = 0, timeouts = 0, ~stale,
                      NEW v \in VMs, NEW d \in guests[v].disks
               PROVE  attached[v][d] = 1
    BY DEF OpenDisksAttached
  <2>1. Sound /\ d \in rows[v].disks /\ d \in Disks
    BY DEF IInv, PowerOK, Sound, TypeOK, Guests
  <2>2. d \notin LetGo(v)
    <3>1. CASE job.vm = v /\ job.pc = "detach"
      <4>1. job.op \in ChangeOps
        BY <3>1, OpsFacts DEF IInv, JobOK, ChangeOps
      <4>2. ~On(v)
        BY <2>1, <3>1, <4>1 DEF IInv, PowerOK
      <4> QED BY <4>2 DEF IInv, GuestsOK
    <3>2. CASE ~(job.vm = v /\ job.pc = "detach")
      BY <3>2 DEF LetGo
    <3> QED BY <3>1, <3>2
  <2> QED BY <2>1, <2>2 DEF IInv, AttachmentsAgree
<1> QED BY <1>1, Invariance, PTL

\* A machine whose row says that it is being turned on or off has a handler that
\* will write the end of it.
THEOREM TransitionsEnd == Spec => []TransitionHasWork
<1>1. IInv => TransitionHasWork
  BY DEF IInv, TransitionsOK, InTransition, TransitionHasWork
<1> QED BY <1>1, Invariance, PTL
=============================================================================
