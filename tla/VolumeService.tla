--------------------------- MODULE VolumeService ---------------------------
(***************************************************************************)
(* The volume module: its service layer (one consumer of one priority      *)
(* queue, handlers of several transactions), its domain process (qemu-img  *)
(* on the files, one request at a time) and the monitoring thread of the   *)
(* service process, which reads, asks the domain and writes on its own.    *)
(*                                                                         *)
(* The two queues appear through what RabbitRpc guarantees: a cast stays   *)
(* until it is acknowledged and is served before waiting API calls, a call *)
(* to the domain is answered, fails, or times out and is executed later.   *)
(* A redelivered API request is the same as a fresh one, so only casts are *)
(* kept.  get_storage and get_vm are other services: any answer may come.  *)
(***************************************************************************)
EXTENDS Integers, Sequences, FiniteSets, SequencesExt

CONSTANTS
  Volumes,      \* ids a behaviour may use; an id is a uuid, used once
  Names,        \* volume names
  Storages,     \* storages
  VMs,          \* virtual machines that attach volumes
  MaxSize,      \* sizes are 1..MaxSize
  NewSizes,     \* the sizes a volume is created with
  Clones,       \* the ids that clones get
  NoVolume, NoVM, NoName, NoStorage,
  MaxAttach,    \* bound of the model: attachments of one volume
  MaxFaults     \* bound of the model: domain calls that time out and crashes

ASSUME VolumeAssumption ==
  /\ MaxSize \in Nat \ {0} /\ MaxAttach \in Nat
  /\ MaxFaults \in Nat
  /\ NewSizes \subseteq 1..MaxSize /\ Clones \subseteq Volumes
  /\ NoVolume \notin Volumes /\ NoVM \notin VMs
  /\ NoName \notin Names /\ NoStorage \notin Storages

Sizes == 1..MaxSize

VARIABLES
  rows,      \* the volumes table
  files,     \* volume -> size of its file volume-<id>, 0 for no file
  casts,     \* casts waiting in the service queue, oldest first
  job,       \* the handler the service layer is in
  svcReply,  \* the domain's answer to that handler
  domQ,      \* the domain queue, oldest first
  mon,       \* the monitoring thread
  monReply,  \* the domain's answer to the thread, a size, -1 for an error
  faults

vars == <<rows, files, casts, job, svcReply, domQ, mon, monReply, faults>>

svcVars == <<casts, job, svcReply>>
monVars == <<mon, monReply>>

\* VolumeStatus, and "none" before the insert, "deleted" after the delete.
VolumeStatus == {"new", "creating", "available", "error", "deleting",
                 "extending", "cloning"}

Rows == [status : VolumeStatus \cup {"none", "deleted"},
         name : Names \cup {NoName}, storage : Storages \cup {NoStorage},
         size : 0..MaxSize, vms : Seq(VMs), placed : BOOLEAN]

\* placed: storage_type is set, so _delete_volume has a file to remove.
NoRow == [status |-> "none", name |-> NoName, storage |-> NoStorage, size |-> 0,
          vms |-> <<>>, placed |-> FALSE]

CastOps == {"_create_volume", "_create_from_template", "_extend_volume", "_delete_volume"}

\* The handler that goes on with what an API handler committed.
CastOf == [create_volume |-> "_create_volume", extend_volume |-> "_extend_volume",
           create_from_template |-> "_create_from_template",
           delete_volume |-> "_delete_volume"]

ApiOps == {"create_volume", "create_from_template", "extend_volume", "delete_volume",
           "clone_volume", "attach_volume"}
DomainOps == {"create", "create_from_template", "delete", "extend", "clone",
              "attach_volume_info"}

Jobs == [op : CastOps \cup ApiOps \cup {"none"}, vol : Volumes \cup {NoVolume},
         size : 0..MaxSize, vm : VMs \cup {NoVM},
         new : Volumes \cup {NoVolume}, name : Names \cup {NoName},
         storage : Storages \cup {NoStorage},
         pc : {"idle", "start", "cast", "commit", "domain", "ack"}]

NoJob == [op |-> "none", vol |-> NoVolume, size |-> 0, vm |-> NoVM,
          new |-> NoVolume, name |-> NoName, storage |-> NoStorage, pc |-> "idle"]

Job(op, v, pc) == [NoJob EXCEPT !.op = op, !.vol = v, !.pc = pc]

Requests == [op : DomainOps, vol : Volumes, size : 0..MaxSize,
             new : Volumes \cup {NoVolume}, owner : {"svc", "mon", "none"}]

\* seen: the rows still to ask about with their size, done: the answers so far.
Monitors == [pc : {"idle", "loop", "wait", "dead"},
             seen : [Volumes -> 0..MaxSize], done : [Volumes -> 0..MaxSize],
             cur : Volumes \cup {NoVolume}]

Nothing == [v \in Volumes |-> 0]
IdleMonitor == [pc |-> "idle", seen |-> Nothing, done |-> Nothing, cur |-> NoVolume]

TypeOK ==
  /\ rows \in [Volumes -> Rows]
  /\ files \in [Volumes -> 0..MaxSize]
  /\ casts \in Seq(Jobs)
  /\ job \in Jobs
  /\ svcReply \in {"none", "ok", "err"}
  /\ domQ \in Seq(Requests)
  /\ mon \in Monitors
  /\ monReply \in -1..MaxSize
  /\ faults \in 0..MaxFaults

Init ==
  /\ rows = [v \in Volumes |-> NoRow]
  /\ files = Nothing
  /\ casts = <<>>
  /\ job = NoJob
  /\ svcReply = "none"
  /\ domQ = <<>>
  /\ mon = IdleMonitor
  /\ monReply = 0
  /\ faults = 0

-----------------------------------------------------------------------------
(* The pieces of the handlers. *)

Exists(v) == rows[v].status \notin {"none", "deleted"}

\* uuid4 never gives an id that was used, be it for a clone nobody recorded.
Fresh(v) ==
  /\ rows[v].status = "none" /\ files[v] = 0
  /\ \A i \in DOMAIN domQ : domQ[i].new # v

\* Mutant of Free: casts have no priority over API requests.
Free_IgnoresCasts == job = NoJob

\* An API request is taken when the consumer is free and no cast waits: casts
\* are published with priority 10, API calls with 8 and service calls with 1.
Free == job = NoJob /\ casts = <<>>

SetStatus(v, s) == rows' = [rows EXCEPT ![v].status = s]

\* _check_volume_status, _check_volume_has_not_attachment, _check_extended_size
StatusIn(v, statuses) == rows[v].status \in statuses
Attached(v) == rows[v].vms # <<>>
Larger(v, size) == rows[v].size < size

\* _check_volume_exists_on_storage
NameTaken(n, s) == \E v \in Volumes : Exists(v) /\ rows[v].name = n /\ rows[v].storage = s

\* _check_available_space_on_storage
Fits(size, space) == size < space

\* What get_storage can say: nothing (the call failed), a status, a free space.
StorageAnswers == [reached : BOOLEAN, up : BOOLEAN, space : {0, MaxSize + 1}]

\* _check_vm_power_state of the first VM, if there is one: the VM is shut off, or
\* runs, or the call failed.
VmAnswers(v) == IF Attached(v) THEN {"off", "on", "lost"} ELSE {"off"}

\* domain_rpc.call: publish, and wait for the reply.
CallDomain(op, v, size, new) ==
  domQ' = Append(domQ, [op |-> op, vol |-> v, size |-> size, new |-> new, owner |-> "svc"])

\* The reply is consumed.
TakeReply == svcReply' = "none"

\* The handler ends.  A cast is still to be acknowledged.
Done == job' = IF job.op \in CastOps THEN [job EXCEPT !.pc = "ack"] ELSE NoJob

TakeCast ==
  /\ job = NoJob
  /\ casts # <<>>
  /\ job' = Head(casts)
  /\ casts' = Tail(casts)
  /\ UNCHANGED <<rows, files, svcReply, domQ, monVars, faults>>

AckCast ==
  /\ job.pc = "ack"
  /\ job' = NoJob
  /\ UNCHANGED <<rows, files, casts, svcReply, domQ, monVars, faults>>

\* The second half of a handler that commits first and casts afterwards.
PublishCast ==
  /\ job.pc = "cast"
  /\ casts' = Append(casts, [job EXCEPT !.op = CastOf[@], !.pc = "start"])
  /\ job' = NoJob
  /\ UNCHANGED <<rows, files, svcReply, domQ, monVars, faults>>

-----------------------------------------------------------------------------
(* create_volume, create_from_template *)

\* _prepare_volume_data.  create_from_template knows the storage type already.
NewRow(op, n, s, z) ==
  [status |-> "new", name |-> n, storage |-> s, size |-> z, vms |-> <<>>,
   placed |-> op = "create_from_template"]

\* The checks, the insert with status new and its commit; a refused request
\* changes nothing.
InsertVolume(op, v, n, s, z) ==
  /\ Free
  /\ v \notin Clones /\ Fresh(v)
  /\ ~NameTaken(n, s)
  /\ rows' = [rows EXCEPT ![v] = NewRow(op, n, s, z)]
  /\ job' = Job(op, v, "cast")
  /\ UNCHANGED <<files, casts, svcReply, domQ, monVars, faults>>

CreateVolume(v, n, s, z) == InsertVolume("create_volume", v, n, s, z)
CreateFromTemplate(v, n, s, z) == InsertVolume("create_from_template", v, n, s, z)

\* _create_volume up to its first commit.  StorageNotFoundException is not
\* among the exceptions it handles and leaves the row new.
CreateCheck ==
  /\ job.op = "_create_volume" /\ job.pc = "start"
  /\ \E a \in StorageAnswers :
       LET v == job.vol IN
       IF ~a.reached THEN Done /\ UNCHANGED <<rows, domQ>>
       ELSE IF ~StatusIn(v, {"new"})
       THEN SetStatus(v, "error") /\ Done /\ UNCHANGED domQ
       ELSE IF ~a.up \/ ~Fits(rows[v].size, a.space)
       THEN /\ rows' = [rows EXCEPT ![v].status = "error", ![v].placed = TRUE]
            /\ Done
            /\ UNCHANGED domQ
       ELSE /\ rows' = [rows EXCEPT ![v].status = "creating", ![v].placed = TRUE]
            /\ CallDomain("create", v, rows[v].size, NoVolume)
            /\ job' = [job EXCEPT !.pc = "domain"]
  /\ UNCHANGED <<files, casts, svcReply, monVars, faults>>

\* _create_volume after the domain call.
CreateFinish ==
  /\ job.op = "_create_volume" /\ job.pc = "domain" /\ svcReply # "none"
  /\ SetStatus(job.vol, IF svcReply = "ok" THEN "available" ELSE "error")
  /\ TakeReply /\ Done
  /\ UNCHANGED <<files, casts, domQ, monVars, faults>>

\* _create_from_template up to its first commit; the status is not checked.
TemplateStart ==
  /\ job.op = "_create_from_template" /\ job.pc = "start"
  /\ SetStatus(job.vol, "creating")
  /\ CallDomain("create_from_template", job.vol, rows[job.vol].size, NoVolume)
  /\ job' = [job EXCEPT !.pc = "domain"]
  /\ UNCHANGED <<files, casts, svcReply, monVars, faults>>

\* A failed domain call ends _create_from_template with the row as it is.
TemplateFinish ==
  /\ job.op = "_create_from_template" /\ job.pc = "domain" /\ svcReply # "none"
  /\ IF svcReply = "ok" THEN SetStatus(job.vol, "available") ELSE UNCHANGED rows
  /\ TakeReply /\ Done
  /\ UNCHANGED <<files, casts, domQ, monVars, faults>>

-----------------------------------------------------------------------------
(* extend_volume *)

\* The checks and the commit; a refused request leaves status error behind.
ExtendVolume(v, z) ==
  /\ Free
  /\ Exists(v)
  /\ IF StatusIn(v, {"available"}) /\ Larger(v, z)
     THEN /\ SetStatus(v, "extending")
          /\ job' = [Job("extend_volume", v, "cast") EXCEPT !.size = z]
     ELSE SetStatus(v, "error") /\ UNCHANGED job
  /\ UNCHANGED <<files, casts, svcReply, domQ, monVars, faults>>

\* _extend_volume up to the domain call.  The size it compares with the free
\* space is db_volume.size - new_size.
ExtendCheck ==
  /\ job.op = "_extend_volume" /\ job.pc = "start"
  /\ \E a \in StorageAnswers, vm \in VmAnswers(job.vol) :
       LET v == job.vol IN
       IF ~a.reached THEN Done /\ UNCHANGED <<rows, domQ>>
       ELSE IF ~a.up THEN SetStatus(v, "error") /\ Done /\ UNCHANGED domQ
       ELSE IF vm = "on"
       THEN SetStatus(v, "available") /\ Done /\ UNCHANGED domQ
       ELSE IF vm = "lost" \/ ~Fits(rows[v].size - job.size, a.space)
       THEN SetStatus(v, "error") /\ Done /\ UNCHANGED domQ
       ELSE /\ CallDomain("extend", v, job.size, NoVolume)
            /\ job' = [job EXCEPT !.pc = "domain"]
            /\ UNCHANGED rows
  /\ UNCHANGED <<files, casts, svcReply, monVars, faults>>

ExtendFinish ==
  /\ job.op = "_extend_volume" /\ job.pc = "domain" /\ svcReply # "none"
  /\ IF svcReply = "ok"
     THEN rows' = [rows EXCEPT ![job.vol].status = "available", ![job.vol].size = job.size]
     ELSE SetStatus(job.vol, "error")
  /\ TakeReply /\ Done
  /\ UNCHANGED <<files, casts, domQ, monVars, faults>>

-----------------------------------------------------------------------------
(* delete_volume *)

\* Mutant of DeleteVolume: the commit comes first and the cast after it.
DeleteVolume_CommitFirst(v) ==
  /\ Free
  /\ Exists(v)
  /\ IF StatusIn(v, {"available", "error"}) /\ ~Attached(v)
     THEN SetStatus(v, "deleting") /\ job' = Job("delete_volume", v, "cast")
     ELSE SetStatus(v, "error") /\ UNCHANGED job
  /\ UNCHANGED <<casts, files, svcReply, domQ, monVars, faults>>

\* The checks; the cast is published before the commit of status deleting.
DeleteVolume(v) ==
  /\ Free
  /\ Exists(v)
  /\ IF StatusIn(v, {"available", "error"}) /\ ~Attached(v)
     THEN /\ casts' = Append(casts, Job("_delete_volume", v, "start"))
          /\ job' = Job("delete_volume", v, "commit")
          /\ UNCHANGED rows
     ELSE SetStatus(v, "error") /\ UNCHANGED <<casts, job>>
  /\ UNCHANGED <<files, svcReply, domQ, monVars, faults>>

DeleteCommit ==
  /\ job.op = "delete_volume" /\ job.pc = "commit"
  /\ SetStatus(job.vol, "deleting")
  /\ Done
  /\ UNCHANGED <<files, casts, svcReply, domQ, monVars, faults>>

\* _delete_volume: no file was placed, or the domain is asked to remove it.
\* get_or_fail ends a redelivered cast whose row is gone.
DeleteStart ==
  /\ job.op = "_delete_volume" /\ job.pc = "start"
  /\ IF ~Exists(job.vol) THEN Done /\ UNCHANGED <<rows, domQ>>
     ELSE IF rows[job.vol].placed
     THEN /\ CallDomain("delete", job.vol, 0, NoVolume)
          /\ job' = [job EXCEPT !.pc = "domain"]
          /\ UNCHANGED rows
     ELSE SetStatus(job.vol, "deleted") /\ Done /\ UNCHANGED domQ
  /\ UNCHANGED <<files, casts, svcReply, monVars, faults>>

\* Mutant of DeleteFinish: the row is deleted even if the call failed.
DeleteFinish_IgnoresFailure ==
  /\ job.op = "_delete_volume" /\ job.pc = "domain" /\ svcReply # "none"
  /\ SetStatus(job.vol, "deleted")
  /\ TakeReply /\ Done
  /\ UNCHANGED <<files, casts, domQ, monVars, faults>>

DeleteFinish ==
  /\ job.op = "_delete_volume" /\ job.pc = "domain" /\ svcReply # "none"
  /\ SetStatus(job.vol, IF svcReply = "ok" THEN "deleted" ELSE "error")
  /\ TakeReply /\ Done
  /\ UNCHANGED <<files, casts, domQ, monVars, faults>>

-----------------------------------------------------------------------------
(* clone_volume, edit_volume, attach_volume, detach_volume *)

\* clone_volume commits cloning, whatever the status was, and checks after it:
\* a failed check leaves the source cloning.  The name is looked up on the
\* storage of the source.
CloneVolume(src, v, n, s) ==
  /\ Free
  /\ Exists(src) /\ v \in Clones /\ Fresh(v)
  /\ \E a \in StorageAnswers :
       /\ a.reached
       /\ SetStatus(src, "cloning")
       /\ IF a.up /\ Fits(rows[src].size, a.space) /\ ~NameTaken(n, rows[src].storage)
          THEN /\ CallDomain("clone", src, rows[src].size, v)
               /\ job' = [Job("clone_volume", src, "domain") EXCEPT
                            !.new = v, !.size = rows[src].size, !.name = n, !.storage = s]
          ELSE UNCHANGED <<job, domQ>>
  /\ UNCHANGED <<files, casts, svcReply, monVars, faults>>

CloneFinish ==
  /\ job.op = "clone_volume" /\ job.pc = "domain" /\ svcReply # "none"
  /\ LET src == job.vol
         back == [rows EXCEPT ![src].status = "available"]
     IN rows' = IF svcReply = "ok"
                THEN [back EXCEPT ![job.new] =
                        [status |-> "available", name |-> job.name, storage |-> job.storage,
                         size |-> job.size, vms |-> <<>>, placed |-> TRUE]]
                ELSE back
  /\ TakeReply /\ Done
  /\ UNCHANGED <<files, casts, domQ, monVars, faults>>

EditVolume(v, n) ==
  /\ Free
  /\ rows[v].status = "available"
  /\ n # rows[v].name => ~NameTaken(n, rows[v].storage)
  /\ rows' = [rows EXCEPT ![v].name = n]
  /\ UNCHANGED <<files, svcVars, domQ, monVars, faults>>

AttachVolume(v, vm) ==
  /\ Free
  /\ Exists(v)
  /\ Len(rows[v].vms) < MaxAttach
  /\ IF StatusIn(v, {"available"})
     THEN /\ CallDomain("attach_volume_info", v, rows[v].size, NoVolume)
          /\ job' = [Job("attach_volume", v, "domain") EXCEPT !.vm = vm]
          /\ UNCHANGED rows
     ELSE SetStatus(v, "error") /\ UNCHANGED <<job, domQ>>
  /\ UNCHANGED <<files, casts, svcReply, monVars, faults>>

\* The attachment is committed in `finally`, after a failed call as well.
AttachFinish ==
  /\ job.op = "attach_volume" /\ job.pc = "domain" /\ svcReply # "none"
  /\ LET with == [rows EXCEPT ![job.vol].vms = Append(@, job.vm)]
     IN rows' = IF svcReply = "ok" THEN with
                ELSE [with EXCEPT ![job.vol].status = "error"]
  /\ TakeReply /\ Done
  /\ UNCHANGED <<files, casts, domQ, monVars, faults>>

\* `for a in attachments: attachments.remove(a)`: the element that follows a
\* removed one is skipped.
DetachLoop(s, vm) ==
  LET removed[k \in 0..Len(s)] == IF k = 0 THEN FALSE ELSE s[k] = vm /\ ~removed[k - 1]
  IN FoldLeftDomain(LAMBDA acc, k : IF removed[k] THEN acc ELSE Append(acc, s[k]), <<>>, s)

DetachVolume(v, vm) ==
  /\ Free
  /\ Exists(v)
  /\ IF StatusIn(v, {"available", "error"})
     THEN rows' = [rows EXCEPT ![v].vms = DetachLoop(@, vm)]
     ELSE SetStatus(v, "error")
  /\ UNCHANGED <<files, svcVars, domQ, monVars, faults>>

-----------------------------------------------------------------------------
(* The domain process: LocalFSVolume, NfsVolume. *)

\* What the commands do to the files, when they succeed; rm -f and qemu-img
\* create do so whatever is there, the others need the file.
Effect(r) ==
  CASE r.op \in {"create", "create_from_template"} -> [files EXCEPT ![r.vol] = r.size]
    [] r.op = "delete" -> [files EXCEPT ![r.vol] = 0]
    [] r.op = "extend" -> [files EXCEPT ![r.vol] = r.size]
    [] r.op = "clone" -> [files EXCEPT ![r.new] = files[r.vol]]
    [] OTHER -> files

\* _check_volume_exists, and qemu-img resize refuses to shrink.
CanSucceed(r) ==
  /\ r.op \in {"extend", "clone", "attach_volume_info"} => files[r.vol] # 0
  /\ r.op = "extend" => files[r.vol] <= r.size

\* One request is executed and answered to whoever still waits.  The size of
\* the monitor's answer is the file's, or the row's when qemu-img info fails.
DomainExecute ==
  /\ domQ # <<>>
  /\ LET r == Head(domQ) IN \E ok \in BOOLEAN :
       /\ ok => CanSucceed(r)
       /\ files' = IF ok THEN Effect(r) ELSE files
       /\ svcReply' = IF r.owner # "svc" THEN svcReply ELSE IF ok THEN "ok" ELSE "err"
       /\ IF r.owner # "mon" THEN UNCHANGED monReply
          ELSE IF ok THEN monReply' \in {files[r.vol], r.size}
          ELSE monReply' = -1
  /\ domQ' = Tail(domQ)
  /\ UNCHANGED <<rows, casts, job, mon, faults>>

\* The process dies after the command and before the acknowledgement: the
\* request is redelivered and will be executed once more.
DomainCrash ==
  /\ domQ # <<>>
  /\ faults < MaxFaults
  /\ faults' = faults + 1
  /\ CanSucceed(Head(domQ))
  /\ files' = Effect(Head(domQ))
  /\ UNCHANGED <<rows, svcVars, domQ, monVars>>

Disowned(owners) ==
  [i \in DOMAIN domQ |-> IF domQ[i].owner \in owners
                         THEN [domQ[i] EXCEPT !.owner = "none"] ELSE domQ[i]]

\* The wait ends without an answer; the request stays in the domain queue.
ServiceTimeout ==
  /\ job.pc = "domain" /\ svcReply = "none"
  /\ faults < MaxFaults
  /\ faults' = faults + 1
  /\ svcReply' = "err"
  /\ domQ' = Disowned({"svc"})
  /\ UNCHANGED <<rows, files, casts, job, monVars>>

-----------------------------------------------------------------------------
(* monitoring, every 10 seconds in its own thread *)

\* _get_all_storages_info: what is on storages that are known and available; a
\* failed call means there are none.
OnKnownStorages == SUBSET {v \in Volumes : Exists(v)}

\* _get_domain_volumes and _get_storages_dict: the rows as they are now; new ones
\* are left out.
MonitorRead ==
  /\ mon.pc = "idle"
  /\ \E S \in OnKnownStorages :
       mon' = [IdleMonitor EXCEPT !.pc = "loop", !.seen =
                 [v \in Volumes |-> IF v \in S /\ rows[v].status # "new"
                                    THEN rows[v].size ELSE 0]]
  /\ UNCHANGED <<rows, files, svcVars, domQ, monReply, faults>>

\* _process_single_volume: attach_volume_info of the next volume.
MonitorCall ==
  /\ mon.pc = "loop"
  /\ \E v \in Volumes :
       /\ mon.seen[v] # 0
       /\ mon' = [mon EXCEPT !.pc = "wait", !.cur = v]
       /\ domQ' = Append(domQ, [op |-> "attach_volume_info", vol |-> v, size |-> mon.seen[v],
                                new |-> NoVolume, owner |-> "mon"])
  /\ UNCHANGED <<rows, files, svcVars, monReply, faults>>

\* A volume whose call failed is left out of the update.
MonitorResult ==
  /\ mon.pc = "wait" /\ monReply # 0
  /\ mon' = [mon EXCEPT !.pc = "loop", !.cur = NoVolume, !.seen[mon.cur] = 0,
                        !.done[mon.cur] = IF monReply = -1 THEN 0 ELSE monReply]
  /\ monReply' = 0
  /\ UNCHANGED <<rows, files, svcVars, domQ, faults>>

MonitorTimeout ==
  /\ mon.pc = "wait" /\ monReply = 0
  /\ faults < MaxFaults
  /\ faults' = faults + 1
  /\ monReply' = -1
  /\ domQ' = Disowned({"mon"})
  /\ UNCHANGED <<rows, files, svcVars, mon>>

\* _update_volumes_in_db: status available and the size for every volume that
\* answered.  When one of these rows is gone the bulk update may raise
\* StaleDataError, which ends the thread and rolls the update back.
MonitorWrite ==
  /\ mon.pc = "loop" /\ mon.seen = Nothing
  /\ LET answered == {v \in Volumes : mon.done[v] # 0} IN
     \/ /\ rows' = [v \in Volumes |-> IF v \in answered /\ Exists(v)
                      THEN [rows[v] EXCEPT !.status = "available", !.size = mon.done[v]]
                      ELSE rows[v]]
        /\ mon' = IdleMonitor
     \/ /\ \E v \in answered : ~Exists(v)
        /\ mon' = [IdleMonitor EXCEPT !.pc = "dead"]
        /\ UNCHANGED rows
  /\ UNCHANGED <<files, svcVars, domQ, monReply, faults>>

\* The service process dies and is started again: the unacknowledged cast goes
\* back to its place, both waits are forgotten, a new thread starts.
ServiceCrash ==
  /\ faults < MaxFaults
  /\ job # NoJob \/ mon.pc \in {"loop", "wait"}
  /\ faults' = faults + 1
  /\ casts' = IF job.op \in CastOps
              THEN <<[job EXCEPT !.pc = "start"]>> \o casts ELSE casts
  /\ job' = NoJob
  /\ svcReply' = "none"
  /\ domQ' = Disowned({"svc", "mon"})
  /\ mon' = IdleMonitor
  /\ monReply' = 0
  /\ UNCHANGED <<rows, files>>

-----------------------------------------------------------------------------
ApiCreate(v) == \E n \in Names, s \in Storages, z \in NewSizes : CreateVolume(v, n, s, z)
ApiCreateFromTemplate(v) ==
  \E n \in Names, s \in Storages, z \in NewSizes : CreateFromTemplate(v, n, s, z)
ApiExtend(v) == \E z \in Sizes : ExtendVolume(v, z)
ApiClone(v) == \E src \in Volumes, n \in Names, s \in Storages : CloneVolume(src, v, n, s)
ApiEdit(v) == \E n \in Names : EditVolume(v, n)
ApiAttach(v) == \E vm \in VMs : AttachVolume(v, vm)
ApiDetach(v) == \E vm \in VMs : DetachVolume(v, vm)

ApiRequest ==
  \E v \in Volumes :
    \/ ApiCreate(v) \/ ApiCreateFromTemplate(v) \/ ApiExtend(v) \/ DeleteVolume(v)
    \/ ApiClone(v) \/ ApiEdit(v) \/ ApiAttach(v) \/ ApiDetach(v)

HandlerStep ==
  \/ TakeCast \/ AckCast \/ PublishCast
  \/ CreateCheck \/ CreateFinish \/ TemplateStart \/ TemplateFinish
  \/ ExtendCheck \/ ExtendFinish
  \/ DeleteCommit \/ DeleteStart \/ DeleteFinish
  \/ CloneFinish \/ AttachFinish

MonitorStep == MonitorRead \/ MonitorCall \/ MonitorResult \/ MonitorWrite

Next ==
  \/ ApiRequest \/ HandlerStep \/ MonitorStep \/ DomainExecute
  \/ DomainCrash \/ ServiceTimeout \/ MonitorTimeout \/ ServiceCrash

Spec == Init /\ [][Next]_vars

\* The consumer goes on with its handler and the domain with its queue.
FairSpec == Spec /\ WF_vars(HandlerStep) /\ WF_vars(DomainExecute)

-----------------------------------------------------------------------------
(* Properties *)

\* No file stays behind on the storage once its row is deleted, whatever timed
\* out, was executed late or twice: nothing that could still write the file is
\* left in the domain queue.
NoOrphanFile ==
  \A v \in Volumes : rows[v].status = "deleted" =>
    /\ files[v] = 0
    /\ \A i \in DOMAIN domQ : domQ[i].vol = v =>
         domQ[i].op \notin {"create", "create_from_template"}

\* Nothing is removed from under a virtual machine: the row and the file of a
\* volume go only while it has no attachment, although _delete_volume does not
\* look at the attachments again.
DeletedOnlyDetached ==
  [][\A v \in Volumes :
       Exists(v) /\ rows'[v].status = "deleted" => rows[v].vms = <<>>]_vars

\* A deletion ends, with the row gone or in error.
DeletionEnds ==
  \A v \in Volumes : []<>(rows[v].status # "deleting")
=============================================================================
