----------------------------- MODULE VmService -----------------------------
(***************************************************************************)
(* The life cycle of virtual machines: the service layer of the            *)
(* virtual_machines module, its domain process (libvirt), the monitoring   *)
(* thread, and the attachments the volume and image services keep for the  *)
(* disks of a machine.                                                     *)
(*                                                                         *)
(* A machine is spread over three places nobody updates together: its row  *)
(* with the disks it owns, the attachments recorded at the services that   *)
(* own the disks, and the libvirt domain that uses them.  libvirt domains  *)
(* are transient: one exists only while the machine is on.                 *)
(* Snapshots are the subject of VmSnapshots.                               *)
(***************************************************************************)
EXTENDS Integers, Sequences, FiniteSets, SequencesExt

CONSTANTS
  VMs,          \* ids a behaviour may use, each once
  OldDisks,     \* volumes and images that exist
  NewDisks,     \* ids of volumes that are created for a machine
  NoVM,
  MaxMake,      \* bound of the model: auto-created volumes of one request
  MaxFaults     \* bound of the model: failures, timeouts and crashes together

ASSUME VmAssumption ==
  /\ NoVM \notin VMs
  /\ OldDisks \cap NewDisks = {}
  /\ {MaxMake, MaxFaults} \subseteq Nat

Disks == OldDisks \cup NewDisks

VARIABLES
  rows,      \* the virtual_machines table with the disks of each row
  attached,  \* vm -> disk -> attachments recorded at the disk's own service
  made,      \* the volumes that were created for machines
  guests,    \* libvirt: state of the domain and the disks it has open
  casts,     \* casts waiting in the service queue, oldest first
  job,       \* the handler the service layer is in
  reply,     \* the outcome of its domain call
  domQ,      \* the domain queue, oldest first
  mon,       \* the monitoring thread
  stale,     \* history: the monitoring wrote a power state libvirt had left
  failures,  \* calls to other services, and starts, that failed half way
  timeouts,  \* domain calls that timed out
  crashes    \* deaths of the two processes

vars == <<rows, attached, made, guests, casts, job, reply, domQ, mon, stale,
          failures, timeouts, crashes>>

outside == <<attached, made, failures>>
faults == <<timeouts, crashes>>

\* VmStatus, and "none" before the insert, "deleted" after the delete.
VmStatus == {"new", "available", "error", "detaching_disks", "deleting", "starting",
             "shut_offing", "editing", "deleting_snapshots"}
VmPowerState == {"running", "shut_off"}

Rows == [status : VmStatus \cup {"none", "deleted"}, power : VmPowerState,
         disks : SUBSET Disks]
NoRow == [status |-> "none", power |-> "shut_off", disks |-> {}]

Guests == [state : VmPowerState, disks : SUBSET Disks]
Off == [state |-> "shut_off", disks |-> {}]

\* The handler that goes on with what an API handler decided.
CastOf == [create_vm |-> "_create_vm", delete_vm |-> "_delete_vm", start_vm |-> "_start_vm",
           shut_off_vm |-> "_shut_off_vm", edit_vm |-> "_edit_shut_offed_vm"]
ApiOps == DOMAIN CastOf
CastOps == {CastOf[op] : op \in ApiOps}

\* make, add, drop: the request (volumes to create, disks to attach and to
\* detach; add is what _start_vm hands to libvirt).  tries, got, done: how far
\* the handler is (volumes tried, volumes made, disks of this transaction).
Jobs == [op : ApiOps \cup CastOps \cup {"none"}, vm : VMs \cup {NoVM},
         make : 0..MaxMake, add : SUBSET Disks, drop : SUBSET Disks,
         tries : 0..MaxMake, got : SUBSET Disks, done : SUBSET Disks,
         pc : {"idle", "cast", "commit", "start", "snapshots", "detach", "make", "attach",
               "status", "domain", "ack"}]

NoJob == [op |-> "none", vm |-> NoVM, make |-> 0, add |-> {}, drop |-> {},
          tries |-> 0, got |-> {}, done |-> {}, pc |-> "idle"]
Job(op, v, pc) == [NoJob EXCEPT !.op = op, !.vm = v, !.pc = pc]

Requests == [op : {"start", "turn_off"}, vm : VMs, disks : SUBSET Disks,
             owner : {"svc", "none"}]

\* list: libvirt's answer, seen: the rows as loaded.
Monitors == [pc : {"idle", "listed", "loaded", "dead"}, list : [VMs -> VmPowerState],
             seen : [VMs -> Rows]]  \* without the disks
IdleMonitor == [pc |-> "idle", list |-> [v \in VMs |-> "shut_off"],
                seen |-> [v \in VMs |-> NoRow]]

TypeOK ==
  /\ rows \in [VMs -> Rows]
  /\ attached \in [VMs -> [Disks -> Nat]]
  /\ made \subseteq NewDisks
  /\ guests \in [VMs -> Guests]
  /\ casts \in Seq(Jobs) /\ job \in Jobs
  /\ reply \in {"none", "ok", "err", "timeout"}
  /\ domQ \in Seq(Requests)
  /\ mon \in Monitors
  /\ stale \in BOOLEAN
  /\ {failures, timeouts, crashes} \subseteq 0..MaxFaults

Init ==
  /\ rows = [v \in VMs |-> NoRow]
  /\ attached = [v \in VMs |-> [d \in Disks |-> 0]]
  /\ made = {}
  /\ guests = [v \in VMs |-> Off]
  /\ casts = <<>> /\ job = NoJob /\ reply = "none" /\ domQ = <<>>
  /\ mon = IdleMonitor
  /\ stale = FALSE
  /\ failures = 0 /\ timeouts = 0 /\ crashes = 0

-----------------------------------------------------------------------------
(* The pieces of the handlers. *)

Exists(v) == rows[v].status \notin {"none", "deleted"}
On(v) == guests[v].state # "shut_off"

\* Mutant of Free: casts have no priority over API requests.
Free_IgnoresCasts == job = NoJob

\* An API request is taken when the consumer is free and no cast waits: casts
\* have priority 10, calls priority 1.
Free == job = NoJob /\ casts = <<>>

SetStatus(v, s) == rows' = [rows EXCEPT ![v].status = s]

\* Mutant of Settled: the power state is not looked at.
Settled_AnyPower(v, power) == rows[v].status \in {"available", "error"}

\* _check_vm_status and _check_vm_power_state
Settled(v, power) ==
  rows[v].status \in {"available", "error"} /\ rows[v].power = power

\* The handler ends.  A cast is still to be acknowledged.
Ended == IF job.op \in CastOps THEN [job EXCEPT !.pc = "ack"] ELSE NoJob
Done == job' = Ended

Goto(pc) == job' = [job EXCEPT !.pc = pc]

At(op, pc) == job.op = op /\ job.pc = pc

MayFail == failures + timeouts + crashes < MaxFaults

TakeCast ==
  /\ job = NoJob /\ casts # <<>>
  /\ job' = Head(casts)
  /\ casts' = Tail(casts)
  /\ UNCHANGED <<rows, outside, guests, reply, domQ, mon, stale, faults>>

AckCast ==
  /\ job.pc = "ack"
  /\ job' = NoJob
  /\ UNCHANGED <<rows, outside, guests, casts, reply, domQ, mon, stale, faults>>

\* The second half of a handler that commits first and casts afterwards.
PublishCast ==
  /\ job.pc = "cast"
  /\ casts' = Append(casts, [job EXCEPT !.op = CastOf[@], !.pc = "start"])
  /\ job' = NoJob
  /\ UNCHANGED <<rows, outside, guests, reply, domQ, mon, stale, faults>>

-----------------------------------------------------------------------------
(* create_vm *)

\* _prepare_create_vm_info: the request by kind of disk; a disk named twice
\* refuses it.
CreateJob(v, add, n) == [Job("create_vm", v, "cast") EXCEPT !.add = add, !.make = n]

\* _insert_vm_into_db commits the row without disks.
CreateVm(v, add, n) ==
  /\ Free
  /\ rows[v].status = "none"
  /\ rows' = [rows EXCEPT ![v].status = "new"]
  /\ job' = CreateJob(v, add, n)
  /\ UNCHANGED <<outside, guests, casts, reply, domQ, mon, stale, faults>>

CreateStart ==
  /\ At("_create_vm", "start")
  /\ IF Exists(job.vm) THEN Goto("make") ELSE Done
  /\ UNCHANGED <<rows, outside, guests, casts, reply, domQ, mon, stale, faults>>

\* _expect_volume_availability: the volume becomes available within the attempts,
\* or goes to error or is too slow, or a call fails where nothing handles it.
MakeOutcomes == {"available", "slow", "raised"}

\* _create_volumes, one volume: a refused or slow one is skipped, a failure that
\* is not handled ends the handler.
MakeVolume ==
  /\ job.pc = "make" /\ job.tries < job.make
  /\ \E outcome \in MakeOutcomes \cup {"refused"}, d \in NewDisks \ made :
       /\ outcome # "available" => MayFail
       /\ failures' = IF outcome = "available" THEN failures ELSE failures + 1
       /\ made' = IF outcome = "refused" THEN made ELSE made \cup {d}
       /\ job' = CASE outcome = "available" ->
                        [job EXCEPT !.tries = @ + 1, !.got = @ \cup {d}]
                   [] outcome \in {"slow", "refused"} -> [job EXCEPT !.tries = @ + 1]
                   [] outcome = "raised" -> Ended
       \* edit_vm commits status available in `finally`
       /\ IF outcome = "raised" /\ job.op = "_edit_shut_offed_vm"
          THEN SetStatus(job.vm, "available") ELSE UNCHANGED rows
  /\ UNCHANGED <<attached, guests, casts, reply, domQ, mon, stale, faults>>

\* The disks the handler attaches: those named and those made.
Wanted == job.add \cup job.got

\* The first loop of _add_disks_to_vm: DuplicateDiskException, which only
\* _edit_shut_offed_vm handles.
CheckDuplicates ==
  /\ job.pc = "make" /\ job.tries = job.make
  /\ IF Wanted \cap rows[job.vm].disks = {} THEN Goto("attach") /\ UNCHANGED rows
     ELSE /\ Done
          /\ IF job.op = "_edit_shut_offed_vm" THEN SetStatus(job.vm, "available")
             ELSE UNCHANGED rows
  /\ UNCHANGED <<outside, guests, casts, reply, domQ, mon, stale, faults>>

\* _attach_disk_to_vm: attach_volume or attach_image at the disk's service.
Attached(v, d) == [attached EXCEPT ![v][d] = @ + 1]

\* The second loop, one disk.  A call that fails ends the handler without a
\* commit, also when the service has recorded the attachment (its answer was an
\* error or came too late).
AttachDisk ==
  /\ job.pc = "attach"
  /\ \E d \in Wanted \ job.done :
       \/ /\ attached' = Attached(job.vm, d)
          /\ job' = [job EXCEPT !.done = @ \cup {d}]
          /\ UNCHANGED <<rows, failures>>
       \/ /\ MayFail
          /\ failures' = failures + 1
          /\ \/ UNCHANGED attached
             \/ attached' = Attached(job.vm, d)
          /\ IF job.op = "_edit_shut_offed_vm" THEN SetStatus(job.vm, "available")
             ELSE UNCHANGED rows
          /\ Done
  /\ UNCHANGED <<made, guests, casts, reply, domQ, mon, stale, faults>>

AttachCommit ==
  /\ job.pc = "attach" /\ Wanted \subseteq job.done
  /\ rows' = [rows EXCEPT ![job.vm].disks = @ \cup job.done]
  /\ job' = [job EXCEPT !.pc = "status", !.done = {}]
  /\ UNCHANGED <<outside, guests, casts, reply, domQ, mon, stale, faults>>

\* The last transaction of _create_vm and of _edit_shut_offed_vm.
StatusCommit ==
  /\ job.pc = "status"
  /\ SetStatus(job.vm, "available")
  /\ Done
  /\ UNCHANGED <<outside, guests, casts, reply, domQ, mon, stale, faults>>

-----------------------------------------------------------------------------
(* delete_vm *)

\* The checks; a refused deletion leaves status error.  The cast is published
\* before the commit.
DeleteVm(v) ==
  /\ Free
  /\ Exists(v)
  /\ IF Settled(v, "shut_off")
     THEN /\ casts' = Append(casts, Job("_delete_vm", v, "start"))
          /\ job' = Job("delete_vm", v, "commit")
          /\ UNCHANGED rows
     ELSE SetStatus(v, "error") /\ UNCHANGED <<casts, job>>
  /\ UNCHANGED <<outside, guests, reply, domQ, mon, stale, faults>>

\* The commit of delete_vm and of edit_vm, after their cast.
LateCommit ==
  /\ job.pc = "commit"
  /\ SetStatus(job.vm, IF job.op = "delete_vm" THEN "deleting" ELSE "editing")
  /\ Done
  /\ UNCHANGED <<outside, guests, casts, reply, domQ, mon, stale, faults>>

\* _delete_all_vm_snapshots up to its commit; get_or_fail ends a redelivered
\* cast whose row is gone.
DeleteStart ==
  /\ At("_delete_vm", "start")
  /\ IF Exists(job.vm)
     THEN SetStatus(job.vm, "deleting_snapshots") /\ Goto("snapshots")
     ELSE Done /\ UNCHANGED rows
  /\ UNCHANGED <<outside, guests, casts, reply, domQ, mon, stale, faults>>

\* The snapshots are deleted and detaching_disks is committed, or the deletion
\* of one of them times out and nothing handles that.
DeleteSnapshots ==
  /\ At("_delete_vm", "snapshots")
  /\ \/ /\ SetStatus(job.vm, "detaching_disks")
        /\ job' = [job EXCEPT !.pc = "detach", !.drop = rows[job.vm].disks]
        /\ UNCHANGED timeouts
     \/ /\ MayFail
        /\ timeouts' = timeouts + 1
        /\ Done
        /\ UNCHANGED rows
  /\ UNCHANGED <<outside, guests, casts, reply, domQ, mon, stale, crashes>>

\* detach_volume at the disk's service: it removes attachments from the list it
\* iterates over, so every other one of several stays.
Detached(v, d) == [attached EXCEPT ![v][d] = @ \div 2]

\* _detach_disk_from_vm, one disk.  A failed call ends _delete_vm with the row
\* as it is, and _detach_disks_from_vm with a rollback.
DetachDisk ==
  /\ job.pc = "detach"
  /\ \E d \in job.drop \ job.done :
       \/ /\ attached' = Detached(job.vm, d)
          /\ job' = [job EXCEPT !.done = @ \cup {d}]
          /\ UNCHANGED failures
       \/ /\ MayFail
          /\ failures' = failures + 1
          /\ attached' \in {attached, Detached(job.vm, d)}
          /\ Done
  /\ UNCHANGED <<rows, made, guests, casts, reply, domQ, mon, stale, faults>>

\* Mutant of DeleteFinish: the row is deleted without waiting for the disks.
DeleteFinish_Early ==
  /\ At("_delete_vm", "detach")
  /\ rows' = [rows EXCEPT ![job.vm] = [NoRow EXCEPT !.status = "deleted"]]
  /\ Done
  /\ UNCHANGED <<outside, guests, casts, reply, domQ, mon, stale, faults>>

DeleteFinish ==
  /\ At("_delete_vm", "detach") /\ job.drop \subseteq job.done
  /\ rows' = [rows EXCEPT ![job.vm] = [NoRow EXCEPT !.status = "deleted"]]
  /\ Done
  /\ UNCHANGED <<outside, guests, casts, reply, domQ, mon, stale, faults>>

-----------------------------------------------------------------------------
(* start_vm, shut_off_vm *)

\* Refused without a change, or committed with the disks of the moment.
StartVm(v) ==
  /\ Free
  /\ Settled(v, "shut_off")
  /\ SetStatus(v, "starting")
  /\ job' = [Job("start_vm", v, "cast") EXCEPT !.add = rows[v].disks]
  /\ UNCHANGED <<outside, guests, casts, reply, domQ, mon, stale, faults>>

ShutOffVm(v) ==
  /\ Free
  /\ Settled(v, "running")
  /\ SetStatus(v, "shut_offing")
  /\ job' = Job("shut_off_vm", v, "cast")
  /\ UNCHANGED <<outside, guests, casts, reply, domQ, mon, stale, faults>>

\* _start_vm and _shut_off_vm call the domain without a look at the row.
PowerCall ==
  /\ job.op \in {"_start_vm", "_shut_off_vm"} /\ job.pc = "start"
  /\ domQ' = Append(domQ, [op |-> IF job.op = "_start_vm" THEN "start" ELSE "turn_off",
                           vm |-> job.vm, disks |-> job.add, owner |-> "svc"])
  /\ Goto("domain")
  /\ UNCHANGED <<rows, outside, guests, casts, reply, mon, stale, faults>>

\* Mutant of PowerFinish: a failed call is not handled.
PowerFinish_NoHandler ==
  /\ job.pc = "domain" /\ reply # "none"
  /\ IF Exists(job.vm) /\ reply = "ok"
     THEN rows' = [rows EXCEPT ![job.vm].status = "available",
                     ![job.vm].power = IF job.op = "_start_vm" THEN "running" ELSE "shut_off"]
     ELSE UNCHANGED rows
  /\ reply' = "none"
  /\ Done
  /\ UNCHANGED <<outside, guests, casts, domQ, mon, stale, faults>>

\* A timeout is not among the exceptions they handle.
PowerFinish ==
  /\ job.pc = "domain" /\ reply # "none"
  /\ IF ~Exists(job.vm) \/ reply = "timeout" THEN UNCHANGED rows
     ELSE IF reply = "err" THEN SetStatus(job.vm, "error")
     ELSE rows' = [rows EXCEPT ![job.vm].status = "available",
                     ![job.vm].power = IF job.op = "_start_vm" THEN "running" ELSE "shut_off"]
  /\ reply' = "none"
  /\ Done
  /\ UNCHANGED <<outside, guests, casts, domQ, mon, stale, faults>>

-----------------------------------------------------------------------------
(* edit_vm *)

\* _prepare_vm_info_for_edit
EditJob(v, add, n, drop) ==
  [Job("_edit_shut_offed_vm", v, "start") EXCEPT !.add = add, !.make = n, !.drop = drop]

\* Refused with no change of the status, or as DeleteVm.
EditVm(v, add, n, drop) ==
  /\ Free
  /\ Settled(v, "shut_off")
  /\ drop \subseteq rows[v].disks
  /\ casts' = Append(casts, EditJob(v, add, n, drop))
  /\ job' = Job("edit_vm", v, "commit")
  /\ UNCHANGED <<rows, outside, guests, reply, domQ, mon, stale, faults>>

\* _update_db_vm_info and the edits of disks and interfaces, whose columns are
\* left out; get_disk_by_id ends the handler when a disk is no longer there.
EditStart ==
  /\ At("_edit_shut_offed_vm", "start")
  /\ IF Exists(job.vm) /\ job.drop \subseteq rows[job.vm].disks THEN Goto("detach") ELSE Done
  /\ UNCHANGED <<rows, outside, guests, casts, reply, domQ, mon, stale, faults>>

\* The commit of _detach_disks_from_vm.
EditDetached ==
  /\ At("_edit_shut_offed_vm", "detach") /\ job.drop \subseteq job.done
  /\ rows' = [rows EXCEPT ![job.vm].disks = @ \ job.drop]
  /\ job' = [job EXCEPT !.pc = "make", !.done = {}]
  /\ UNCHANGED <<outside, guests, casts, reply, domQ, mon, stale, faults>>

-----------------------------------------------------------------------------
(* The domain process and libvirt. *)

\* LibvirtDriver.start and turn_off, the step that libvirt takes: createXML
\* refuses a domain that exists, lookupByName one that does not.
Effect(r) ==
  [guests EXCEPT ![r.vm] =
     IF r.op = "start" THEN [state |-> "running", disks |-> r.disks] ELSE Off]
CanSucceed(r) == On(r.vm) <=> r.op = "turn_off"

\* One request is executed and answered to whoever still waits.
DomainExecute ==
  /\ domQ # <<>>
  /\ LET r == Head(domQ) IN \E ok \in BOOLEAN :
       /\ ok => CanSucceed(r)
       /\ guests' = IF ok THEN Effect(r) ELSE guests
       /\ reply' = IF r.owner # "svc" THEN reply ELSE IF ok THEN "ok" ELSE "err"
  /\ domQ' = Tail(domQ)
  /\ UNCHANGED <<rows, outside, casts, job, mon, stale, faults>>

\* start fails after createXML, at the graphics device or the snapshots: the
\* machine is on and the answer is an error.
DomainStartsHalf ==
  /\ domQ # <<>> /\ Head(domQ).op = "start" /\ CanSucceed(Head(domQ))
  /\ MayFail
  /\ failures' = failures + 1
  /\ guests' = Effect(Head(domQ))
  /\ reply' = IF Head(domQ).owner = "svc" THEN "err" ELSE reply
  /\ domQ' = Tail(domQ)
  /\ UNCHANGED <<rows, attached, made, casts, job, mon, stale, faults>>

\* The process dies after the command and before the acknowledgement.
DomainCrash ==
  /\ domQ # <<>> /\ CanSucceed(Head(domQ))
  /\ MayFail
  /\ crashes' = crashes + 1
  /\ guests' = Effect(Head(domQ))
  /\ UNCHANGED <<rows, outside, casts, job, reply, domQ, mon, stale, timeouts>>

\* The guest powers off on its own.
GuestStops(v) ==
  /\ On(v)
  /\ guests' = [guests EXCEPT ![v] = Off]
  /\ UNCHANGED <<rows, outside, casts, job, reply, domQ, mon, stale, faults>>

Disowned == [i \in DOMAIN domQ |-> [domQ[i] EXCEPT !.owner = "none"]]

\* The wait ends without an answer; the request stays in the domain queue.
ServiceTimeout ==
  /\ job.pc = "domain" /\ reply = "none"
  /\ MayFail
  /\ timeouts' = timeouts + 1
  /\ reply' = "timeout"
  /\ domQ' = Disowned
  /\ UNCHANGED <<rows, outside, guests, casts, job, mon, stale, crashes>>

\* The service process dies: the unacknowledged cast goes back to its place and
\* starts over, a new monitoring thread starts.
ServiceCrash ==
  /\ MayFail
  /\ job # NoJob
  /\ crashes' = crashes + 1
  /\ casts' = IF job.op \in CastOps
              THEN <<[job EXCEPT !.pc = "start", !.tries = 0, !.got = {}, !.done = {}]>> \o casts
              ELSE casts
  /\ job' = NoJob
  /\ reply' = "none"
  /\ domQ' = Disowned
  /\ mon' = IdleMonitor
  /\ UNCHANGED <<rows, outside, guests, stale, timeouts>>

-----------------------------------------------------------------------------
(* monitoring, every 10 seconds in its own thread *)

\* get_vms_state
MonitorList ==
  /\ mon.pc = "idle"
  /\ mon' = [mon EXCEPT !.pc = "listed", !.list = [v \in VMs |-> guests[v].state]]
  /\ UNCHANGED <<rows, outside, guests, casts, job, reply, domQ, stale, faults>>

\* virtual_machines.get_all
MonitorLoad ==
  /\ mon.pc = "listed"
  /\ mon' = [mon EXCEPT !.pc = "loaded", !.seen = [v \in VMs |-> [rows[v] EXCEPT !.disks = {}]]]
  /\ UNCHANGED <<rows, outside, guests, casts, job, reply, domQ, stale, faults>>

\* Mutant of Observed: a machine that is not in the list is left as it is.
Observed_OnlyListed(v) ==
  IF mon.list[v] = "running"
  THEN [mon.seen[v] EXCEPT !.power = "running", !.status = "available"] ELSE mon.seen[v]

\* What the loop makes of a loaded row.
Observed(v) ==
  [mon.seen[v] EXCEPT !.power = mon.list[v],
                      !.status = IF mon.list[v] = "running" THEN "available" ELSE @]

Loaded == {v \in VMs : mon.seen[v].status \notin {"none", "deleted"}}

\* The rows the session writes: only columns that differ from what it loaded.
Touched == {v \in Loaded : Observed(v) # mon.seen[v]}

\* The write of a row that is gone raises StaleDataError and ends the thread.
MonitorWrite ==
  /\ mon.pc = "loaded"
  /\ IF \A v \in Touched : Exists(v)
     THEN /\ rows' = [v \in VMs |->
               IF v \notin Touched THEN rows[v]
               ELSE [rows[v] EXCEPT
                 !.power = IF Observed(v).power # mon.seen[v].power
                           THEN Observed(v).power ELSE @,
                 !.status = IF Observed(v).status # mon.seen[v].status
                            THEN Observed(v).status ELSE @]]
          /\ stale' = (stale \/ \E v \in Touched : mon.list[v] # guests[v].state)
          /\ mon' = IdleMonitor
     ELSE mon' = [IdleMonitor EXCEPT !.pc = "dead"] /\ UNCHANGED <<rows, stale>>
  /\ UNCHANGED <<outside, guests, casts, job, reply, domQ, faults>>

-----------------------------------------------------------------------------
ApiCreate(v) == \E add \in SUBSET OldDisks, n \in 0..MaxMake : CreateVm(v, add, n)
ApiEdit(v) ==
  \E add \in SUBSET OldDisks, n \in 0..MaxMake, drop \in SUBSET Disks : EditVm(v, add, n, drop)
ApiPower(v) == StartVm(v) \/ ShutOffVm(v)
ApiRequest == \E v \in VMs : ApiCreate(v) \/ ApiEdit(v) \/ DeleteVm(v) \/ ApiPower(v)

HandlerStep ==
  \/ TakeCast \/ AckCast \/ PublishCast \/ LateCommit
  \/ CreateStart \/ MakeVolume \/ CheckDuplicates \/ AttachDisk \/ AttachCommit \/ StatusCommit
  \/ DeleteStart \/ DeleteSnapshots \/ DetachDisk \/ DeleteFinish
  \/ PowerCall \/ PowerFinish
  \/ EditStart \/ EditDetached

MonitorStep == MonitorList \/ MonitorLoad \/ MonitorWrite

Next ==
  \/ ApiRequest \/ HandlerStep \/ MonitorStep \/ (\E v \in VMs : GuestStops(v))
  \/ DomainExecute \/ DomainStartsHalf \/ DomainCrash \/ ServiceTimeout \/ ServiceCrash

Spec == Init /\ [][Next]_vars

\* The thread runs every 10 seconds.
FairSpec == Spec /\ WF_vars(MonitorStep)

-----------------------------------------------------------------------------
(* Properties *)

\* What the running handler has attached and not yet committed, and detached.
InHand(v) == IF job.vm = v /\ job.pc = "attach" THEN job.done ELSE {}
LetGo(v) == IF job.vm = v /\ job.pc = "detach" THEN job.done ELSE {}

\* The row of a machine and the services that own its disks agree on what it is
\* attached to, as long as no call to these services failed and no process
\* died: nothing else, no interleaving and no late domain call, sets them apart.
AttachmentsAgree ==
  failures = 0 /\ crashes = 0 =>
    \A v \in VMs, d \in Disks :
      attached[v][d] = IF d \in (rows[v].disks \cup InHand(v)) \ LetGo(v) THEN 1 ELSE 0

\* A machine that is on has its disks attached, so their volumes cannot be
\* deleted under it: _start_vm works with the disks start_vm saw, and a machine
\* is edited or deleted only when its row says shut_off.
OpenDisksAttached ==
  failures = 0 /\ crashes = 0 /\ timeouts = 0 /\ ~stale =>
    \A v \in VMs : \A d \in guests[v].disks : attached[v][d] = 1

\* start_vm and shut_off_vm never leave a machine in between, whatever its
\* disks and their services do, unless a domain call timed out or a process died.
TransitionHasWork ==
  timeouts = 0 /\ crashes = 0 =>
    \A v \in VMs : rows[v].status \in {"starting", "shut_offing"} =>
      \/ job.vm = v /\ job.pc # "ack"
      \/ \E i \in DOMAIN casts : casts[i].vm = v

\* The row comes to say what libvirt says, although handlers time out, the
\* guest stops on its own and the monitoring overwrites rows with old answers;
\* as long as the thread lives.
PowerConverges ==
  \A v \in VMs :
    /\ On(v) ~> (rows[v].power = "running" \/ ~On(v) \/ ~Exists(v) \/ mon.pc = "dead")
    /\ ~On(v) ~> (rows[v].power = "shut_off" \/ On(v) \/ mon.pc = "dead")
=============================================================================
