--------------------------- MODULE StorageService ---------------------------
(***************************************************************************)
(* The storage module: its service layer (one consumer, handlers of        *)
(* several transactions), its domain process (mkfs, mount, umount, parted  *)
(* on the devices of the host), its monitoring thread, and one of the      *)
(* services that keep objects (volumes, images, templates) on storages.    *)
(*                                                                         *)
(* An object service asks get_storage and waits; while it handles its      *)
(* request it answers nobody, so the storage service, which asks it for    *)
(* its objects before a deletion, may wait for someone who waits for it.   *)
(* Only the time limit of the calls ends that.                             *)
(***************************************************************************)
EXTENDS Integers, Sequences, FiniteSets, SequencesExt

CONSTANTS
  Storages,    \* ids a behaviour may use; an id is a uuid, used once
  Names,       \* storage names
  Disks,       \* partitions of local disks
  Shares,      \* NFS shares
  OneServer,   \* whether the shares are of one server, or have one path
  NoStorage, NoName, NoDevice,
  MaxCasts,    \* bound of the model: casts that wait while API calls are served
  MaxFaults,   \* bound of the model: domain calls that time out and crashes of a process
  MaxReboots   \* bound of the model: restarts of the host

ASSUME StorageAssumption ==
  /\ Disks \cap Shares = {}
  /\ NoStorage \notin Storages /\ NoName \notin Names
  /\ NoDevice \notin Disks \cup Shares
  /\ OneServer \in BOOLEAN
  /\ MaxCasts \in Nat \ {0}
  /\ MaxFaults \in Nat /\ MaxReboots \in Nat

Devices == Disks \cup Shares

VARIABLES
  rows,     \* the storages table
  parts,    \* the partitions that exist; a share always does
  mnt,      \* device -> the storages at whose mount point it is mounted
  data,     \* device -> the storages that have files on its file system
  objs,     \* storage -> what the object services keep on it
  asker,    \* the object service inside a handler that asks get_storage
  casts,    \* casts waiting in the service queue, oldest first
  job,      \* the handler the service layer is in
  svcReply, \* the domain's answer to that handler
  domQ,     \* the domain queue, oldest first
  mon,      \* the monitoring thread
  monReply, \* the domain's answer to the thread
  faults, reboots

hostVars == <<parts, mnt, data>>
objVars == <<objs, asker>>
svcVars == <<casts, job, svcReply>>
monVars == <<mon, monReply>>
bounds == <<faults, reboots>>
vars == <<rows, hostVars, objVars, svcVars, domQ, monVars, bounds>>

\* StorageStatus, and "none" before the insert, "deleted" after the delete.
StorageStatus == {"new", "creating", "available", "error", "deleting", "disconnected"}

Rows == [status : StorageStatus \cup {"none", "deleted"}, name : Names \cup {NoName},
         dev : Devices \cup {NoDevice}, initialized : BOOLEAN]

NoRow == [status |-> "none", name |-> NoName, dev |-> NoDevice, initialized |-> FALSE]

\* Where the files of the objects are: their rows may have no file yet, and what
\* is written below a mount point that is not mounted is on the root disk.  raw
\* is the device of a storage that is not initialized and may be formatted yet.
Places == {"none", "row", "root", "raw", "device"}

\* told: what get_storage said.
Askers == [pc : {"idle", "asking", "told"}, st : Storages \cup {NoStorage}, up : BOOLEAN]
IdleAsker == [pc |-> "idle", st |-> NoStorage, up |-> FALSE]

Jobs == [op : {"none", "create_storage", "_create_storage", "delete_storage",
               "_delete_storage", "partition"},
         st : Storages \cup {NoStorage}, pc : {"idle", "start", "cast", "domain", "ack"}]
NoJob == [op |-> "none", st |-> NoStorage, pc |-> "idle"]
Job(op, s, pc) == [op |-> op, st |-> s, pc |-> pc]

Requests == [op : {"create", "delete", "do_setup", "create_partition", "delete_partition"},
             st : Storages \cup {NoStorage}, dev : Devices, init : BOOLEAN,
             owner : {"svc", "mon", "none"}]

\* seen: what the thread read of the storages it has still to ask about, done:
\* what it is going to write.
Monitors == [pc : {"idle", "loop", "wait", "dead"},
             seen : [Storages -> {"none", "raw", "initialized"}],
             done : [Storages -> {"none", "error", "raw", "initialized"}],
             cur : Storages \cup {NoStorage}]
Nothing == [s \in Storages |-> "none"]
IdleMonitor == [pc |-> "idle", seen |-> Nothing, done |-> Nothing, cur |-> NoStorage]

TypeOK ==
  /\ rows \in [Storages -> Rows]
  /\ parts \subseteq Devices
  /\ mnt \in [Devices -> SUBSET Storages]
  /\ data \in [Devices -> SUBSET Storages]
  /\ objs \in [Storages -> Places]
  /\ asker \in Askers
  /\ casts \in Seq(Jobs)
  /\ job \in Jobs
  /\ svcReply \in {"none", "ok", "err", "timeout"}
  /\ domQ \in Seq(Requests)
  /\ mon \in Monitors
  /\ monReply \in {"none", "ok", "err"}
  /\ faults \in 0..MaxFaults
  /\ reboots \in 0..MaxReboots

Init ==
  /\ rows = [s \in Storages |-> NoRow]
  /\ parts = Devices
  /\ mnt = [d \in Devices |-> {}]
  /\ data = [d \in Devices |-> {}]
  /\ objs = Nothing
  /\ asker = IdleAsker
  /\ casts = <<>>
  /\ job = NoJob
  /\ svcReply = "none"
  /\ domQ = <<>>
  /\ mon = IdleMonitor
  /\ monReply = "none"
  /\ faults = 0
  /\ reboots = 0

-----------------------------------------------------------------------------
(* The pieces of the handlers. *)

Exists(s) == rows[s].status \notin {"none", "deleted"}
SetStatus(s, x) == rows' = [rows EXCEPT ![s].status = x]

\* _check_storage_status
StatusIn(s, statuses) == rows[s].status \in statuses

\* _create_storage is cast with priority 10, before the API calls (8);
\* _delete_storage with 8, so a call that came before it is served first.
Free ==
  /\ job = NoJob
  /\ Len(casts) < MaxCasts
  /\ \A i \in DOMAIN casts : casts[i].op = "_delete_storage"

\* get_storage is called with priority 1.
Idle == job = NoJob /\ casts = <<>>

TakeCast ==
  /\ job = NoJob
  /\ \E i \in DOMAIN casts :
       /\ \A j \in DOMAIN casts :
            \/ i <= j
            \/ casts[i].op = "_create_storage" /\ casts[j].op = "_delete_storage"
       /\ casts[i].op = "_delete_storage" =>
            \A j \in DOMAIN casts : casts[j].op = "_delete_storage"
       /\ job' = casts[i]
       /\ casts' = RemoveAt(casts, i)
  /\ UNCHANGED <<rows, hostVars, objVars, svcReply, domQ, monVars, bounds>>

\* The handler ends.  A cast is still to be acknowledged.
Done ==
  job' = IF job.op \in {"_create_storage", "_delete_storage"}
         THEN [job EXCEPT !.pc = "ack"] ELSE NoJob

AckCast ==
  /\ job.pc = "ack"
  /\ job' = NoJob
  /\ UNCHANGED <<rows, hostVars, objVars, casts, svcReply, domQ, monVars, bounds>>

CastOf == [create_storage |-> "_create_storage", delete_storage |-> "_delete_storage"]

\* Both API handlers commit first and cast afterwards.
PublishCast ==
  /\ job.pc = "cast"
  /\ casts' = Append(casts, Job(CastOf[job.op], job.st, "start"))
  /\ job' = NoJob
  /\ UNCHANGED <<rows, hostVars, objVars, svcReply, domQ, monVars, bounds>>

CallDomain(op, s, d, init, owner) ==
  domQ' = Append(domQ, [op |-> op, st |-> s, dev |-> d, init |-> init, owner |-> owner])

\* Mutants of Answers: a question that fails counts as "no objects", the way
\* _get_all_storages_info of the volume service does it; the question is asked
\* without a time limit.
Answers_FailureIsEmpty(s) ==
  {"empty"} \cup (IF asker.pc = "idle" /\ objs[s] # "none" THEN {"objects"} ELSE {})
Answers_NoTimeLimit(s) ==
  IF asker.pc # "idle" THEN {} ELSE {IF objs[s] = "none" THEN "empty" ELSE "objects"}

\* _check_storage_has_no_objects: the object services answer only outside their
\* handlers; the question may fail or time out at any time.
Answers(s) == {"failed"} \cup
  (IF asker.pc # "idle" THEN {} ELSE {IF objs[s] = "none" THEN "empty" ELSE "objects"})

-----------------------------------------------------------------------------
(* create_storage *)

\* get_local_disks
LocalDisks == parts \cap Disks

\* _check_device; the disks of the system are not among Disks.
Usable(d) == d \in Shares \/ d \in LocalDisks

\* _check_storage_exists_with_current_name, whatever the status of the other.
NameTaken(n) == \E t \in Storages : Exists(t) /\ rows[t].name = n

\* Shares are taken for the same when they agree in ip or in path.
Alike(d, e) == d = e \/ ({d, e} \subseteq Shares /\ OneServer)

\* _check_spec_exists_for_storage
SpecTaken(d) == \E t \in Storages : Exists(t) /\ Alike(rows[t].dev, d)

\* One storage per name and per device.
CreateStorage(s, n, d) ==
  /\ Free
  /\ rows[s].status = "none"
  /\ Usable(d) /\ ~NameTaken(n) /\ ~SpecTaken(d)
  /\ rows' = [rows EXCEPT ![s] = [status |-> "new", name |-> n, dev |-> d,
                                  initialized |-> FALSE]]
  /\ job' = Job("create_storage", s, "cast")
  /\ UNCHANGED <<hostVars, objVars, casts, svcReply, domQ, monVars, bounds>>

\* _create_storage up to its first commit; a row that is gone or not new ends
\* it with an exception that changes nothing.
CreateStart ==
  /\ job.op = "_create_storage" /\ job.pc = "start"
  /\ IF ~StatusIn(job.st, {"new"}) THEN Done /\ UNCHANGED <<rows, domQ>>
     ELSE /\ SetStatus(job.st, "creating")
          /\ CallDomain("create", job.st, rows[job.st].dev, FALSE, "svc")
          /\ job' = [job EXCEPT !.pc = "domain"]
  /\ UNCHANGED <<hostVars, objVars, casts, svcReply, monVars, bounds>>

\* Only RpcCallException is handled: a timeout leaves the row creating.
CreateFinish ==
  /\ job.op = "_create_storage" /\ job.pc = "domain" /\ svcReply # "none"
  /\ CASE svcReply = "ok" ->
            rows' = [rows EXCEPT ![job.st].status = "available", ![job.st].initialized = TRUE]
       [] svcReply = "err" -> SetStatus(job.st, "error")
       [] svcReply = "timeout" -> UNCHANGED rows
  /\ svcReply' = "none"
  /\ Done
  /\ UNCHANGED <<hostVars, objVars, casts, domQ, monVars, bounds>>

-----------------------------------------------------------------------------
(* delete_storage *)

\* The status is not checked, so a deletion can be asked for again.
DeleteStorage(s) ==
  /\ Free
  /\ Exists(s)
  /\ "empty" \in Answers(s)
  /\ SetStatus(s, "deleting")
  /\ job' = Job("delete_storage", s, "cast")
  /\ UNCHANGED <<hostVars, objVars, casts, svcReply, domQ, monVars, bounds>>

\* _delete_storage up to the domain call: the objects are looked up again, now
\* that the status is committed.  StorageHasObjects is not handled and leaves
\* the status as it is.
DeleteStart ==
  /\ job.op = "_delete_storage" /\ job.pc = "start"
  /\ IF ~Exists(job.st) THEN Done /\ UNCHANGED <<rows, domQ>>
     ELSE \E a \in Answers(job.st) :
       \/ a = "failed" /\ SetStatus(job.st, "error") /\ Done /\ UNCHANGED domQ
       \/ a = "objects" /\ Done /\ UNCHANGED <<rows, domQ>>
       \/ /\ a = "empty"
          /\ CallDomain("delete", job.st, rows[job.st].dev, rows[job.st].initialized, "svc")
          /\ job' = [job EXCEPT !.pc = "domain"]
          /\ UNCHANGED rows
  /\ UNCHANGED <<hostVars, objVars, casts, svcReply, monVars, bounds>>

DeleteFinish ==
  /\ job.op = "_delete_storage" /\ job.pc = "domain" /\ svcReply # "none"
  /\ SetStatus(job.st, IF svcReply = "ok" THEN "deleted" ELSE "error")
  /\ svcReply' = "none"
  /\ Done
  /\ UNCHANGED <<hostVars, objVars, casts, domQ, monVars, bounds>>

-----------------------------------------------------------------------------
(* create_local_partition, delete_local_partition: called with priority 1 *)

CreatePartition(d) ==
  /\ Idle
  /\ d \notin parts
  /\ CallDomain("create_partition", NoStorage, d, FALSE, "svc")
  /\ job' = Job("partition", NoStorage, "domain")
  /\ UNCHANGED <<rows, hostVars, objVars, casts, svcReply, monVars, bounds>>

\* _check_storages_on_partition: no storage is on it.
DeletePartition(d) ==
  /\ Idle
  /\ d \in parts
  /\ \A s \in Storages : Exists(s) => rows[s].dev # d
  /\ CallDomain("delete_partition", NoStorage, d, FALSE, "svc")
  /\ job' = Job("partition", NoStorage, "domain")
  /\ UNCHANGED <<rows, hostVars, objVars, casts, svcReply, monVars, bounds>>

PartitionFinish ==
  /\ job.op = "partition" /\ svcReply # "none"
  /\ svcReply' = "none"
  /\ job' = NoJob
  /\ UNCHANGED <<rows, hostVars, objVars, casts, domQ, monVars, bounds>>

-----------------------------------------------------------------------------
(* The domain process. *)

Host == [parts |-> parts, mnt |-> mnt, data |-> data]

\* formatting: mkfs runs before the mount when the request says the storage is
\* not initialized.  It refuses a mounted device, and a failure goes unnoticed.
Formatted(r) ==
  {Host} \cup
  (IF r.dev \in Disks /\ ~r.init /\ r.dev \in parts /\ mnt[r.dev] = {}
   THEN {[Host EXCEPT !.data[r.dev] = {}]} ELSE {})

\* _ensure_storage_mounted; a local mount that fails goes unnoticed too.
Mounted(r, h) ==
  {h, [h EXCEPT !.mnt[r.dev] = IF r.dev \in parts THEN @ \cup {r.st} ELSE @]}

\* do_setup, which the constructor runs as well: format and mount.
SetUp(r) == UNION {Mounted(r, h) : h \in Formatted(r)}

Outcome(hosts, oks) == {[host |-> h, ok |-> k] : h \in hosts, k \in oks}

\* _delete: umount, then rm -rf of the mount point; each may fail.
Unmounted(r) ==
  Outcome(SetUp(r), {FALSE}) \cup
  Outcome({[h EXCEPT !.mnt[r.dev] = @ \ {r.st}] : h \in {g \in SetUp(r) : r.st \in g.mnt[r.dev]}},
          BOOLEAN)

\* mkpart, when there is free space.
PartitionMade(r) ==
  Outcome({Host}, {FALSE}) \cup Outcome({[Host EXCEPT !.parts = @ \cup {r.dev}]}, {TRUE})

\* parted rm, which refuses a mounted partition.
PartitionRemoved(r) ==
  Outcome({Host}, {FALSE}) \cup
  Outcome(IF mnt[r.dev] # {} THEN {}
          ELSE {[Host EXCEPT !.parts = @ \ {r.dev}, !.data[r.dev] = {}]}, {TRUE})

\* What may have become of the host when a request has been executed, and
\* whether the answer is a result.
Outcomes(r) ==
  CASE r.op \in {"do_setup", "create"} -> Outcome(SetUp(r), BOOLEAN)
    [] r.op = "delete" -> Unmounted(r)
    [] r.op = "create_partition" -> PartitionMade(r)
    [] r.op = "delete_partition" -> PartitionRemoved(r)

\* An NFS mount that fails raises, and so does blkid on a device that is not there.
Possible(r, o) ==
  /\ o.ok /\ r.dev \in Shares /\ r.op \in {"do_setup", "create"} => r.st \in o.host.mnt[r.dev]
  /\ o.ok /\ r.op = "create" => r.dev \in parts

\* create and delete are called with priority 10, do_setup with 5, the
\* partitions with 1.
Priority(r) == CASE r.op \in {"create", "delete"} -> 10 [] r.op = "do_setup" -> 5 [] OTHER -> 1
IsHead(i) ==
  \A j \in DOMAIN domQ : \/ Priority(domQ[j]) < Priority(domQ[i])
                         \/ Priority(domQ[j]) = Priority(domQ[i]) /\ i <= j

HostBecomes(h) == parts' = h.parts /\ mnt' = h.mnt /\ data' = h.data

DomainExecute ==
  /\ \E i \in {k \in DOMAIN domQ : IsHead(k)} : \E o \in Outcomes(domQ[i]) :
       /\ Possible(domQ[i], o)
       /\ HostBecomes(o.host)
       /\ domQ' = RemoveAt(domQ, i)
       /\ LET answer == IF o.ok THEN "ok" ELSE "err" IN
          /\ svcReply' = IF domQ[i].owner = "svc" THEN answer ELSE svcReply
          /\ monReply' = IF domQ[i].owner = "mon" THEN answer ELSE monReply
  /\ UNCHANGED <<rows, objVars, casts, job, mon, bounds>>

\* The process dies before the acknowledgement: the request runs once more.
DomainCrash ==
  /\ faults < MaxFaults
  /\ faults' = faults + 1
  /\ \E i \in {k \in DOMAIN domQ : IsHead(k)} : \E o \in Outcomes(domQ[i]) :
       HostBecomes(o.host)
  /\ UNCHANGED <<rows, objVars, svcVars, domQ, monVars, reboots>>

Disowned(owners) ==
  [i \in DOMAIN domQ |-> IF domQ[i].owner \in owners
                         THEN [domQ[i] EXCEPT !.owner = "none"] ELSE domQ[i]]

\* The wait ends without an answer; the request stays in the domain queue.
ServiceTimeout ==
  /\ job.pc = "domain" /\ svcReply = "none"
  /\ faults < MaxFaults
  /\ faults' = faults + 1
  /\ svcReply' = "timeout"
  /\ domQ' = Disowned({"svc"})
  /\ UNCHANGED <<rows, hostVars, objVars, casts, job, monVars, reboots>>

-----------------------------------------------------------------------------
(* An object service, as far as storages are concerned. *)

\* Its handler calls get_storage.
Ask(s) ==
  /\ asker.pc = "idle"
  /\ asker' = [IdleAsker EXCEPT !.pc = "asking", !.st = s]
  /\ UNCHANGED <<rows, hostVars, objs, svcVars, domQ, monVars, bounds>>

\* get_storage answers, when its turn has come.
Tell ==
  /\ asker.pc = "asking"
  /\ Idle
  /\ asker' = IF Exists(asker.st)
              THEN [asker EXCEPT !.pc = "told", !.up = rows[asker.st].status = "available"]
              ELSE IdleAsker
  /\ UNCHANGED <<rows, hostVars, objs, svcVars, domQ, monVars, bounds>>

\* The call of get_storage fails, and the request with it.
GiveUp ==
  /\ asker.pc = "asking"
  /\ asker' = IdleAsker
  /\ UNCHANGED <<rows, hostVars, objs, svcVars, domQ, monVars, bounds>>

\* The row of the object is inserted, and its file written if the storage is
\* available: below the mount point, wherever that leads.
StoreObject ==
  /\ asker.pc = "told"
  /\ LET s == asker.st  d == rows[s].dev IN
     IF ~asker.up
     THEN /\ objs' = [objs EXCEPT ![s] = IF @ = "none" THEN "row" ELSE @]
          /\ UNCHANGED data
     ELSE IF s \in mnt[d]
     THEN /\ objs' = [objs EXCEPT ![s] = IF rows[s].initialized THEN "device" ELSE "raw"]
          /\ data' = [data EXCEPT ![d] = @ \cup {s}]
     ELSE objs' = [objs EXCEPT ![s] = "root"] /\ UNCHANGED data
  /\ asker' = IdleAsker
  /\ UNCHANGED <<rows, parts, mnt, svcVars, domQ, monVars, bounds>>

\* The last object of a storage is deleted, rm -f and the row.
RemoveObjects(s) ==
  /\ asker.pc = "idle"
  /\ objs[s] # "none"
  /\ objs' = [objs EXCEPT ![s] = "none"]
  /\ data' = [d \in Devices |-> IF s \in mnt[d] THEN data[d] \ {s} ELSE data[d]]
  /\ UNCHANGED <<rows, parts, mnt, asker, svcVars, domQ, monVars, bounds>>

-----------------------------------------------------------------------------
(* monitoring, every 10 seconds in its own thread *)

\* _validate_storage_status
Watched(s) == StatusIn(s, {"available", "error"})

\* _collect_serialized_storages
MonitorRead ==
  /\ mon.pc = "idle"
  /\ mon' = [IdleMonitor EXCEPT !.pc = "loop", !.seen =
               [s \in Storages |->
                  IF ~Watched(s) THEN "none"
                  ELSE IF rows[s].initialized THEN "initialized" ELSE "raw"]]
  /\ UNCHANGED <<rows, hostVars, objVars, svcVars, domQ, monReply, bounds>>

\* do_setup of the next storage, with the row as it was read.
MonitorCall ==
  /\ mon.pc = "loop"
  /\ \E s \in Storages :
       /\ mon.seen[s] # "none"
       /\ mon' = [mon EXCEPT !.pc = "wait", !.cur = s]
       /\ CallDomain("do_setup", s, rows[s].dev, mon.seen[s] = "initialized", "mon")
  /\ UNCHANGED <<rows, hostVars, objVars, svcVars, monReply, bounds>>

\* initialized comes back from the domain object as it was sent; an error or a
\* timeout is handled by _handle_monitoring_error.
Heard == IF monReply = "ok" THEN mon.seen[mon.cur] ELSE "error"

MonitorResult ==
  /\ mon.pc = "wait" /\ monReply # "none"
  /\ mon' = [mon EXCEPT !.pc = "loop", !.cur = NoStorage, !.seen[mon.cur] = "none",
                        !.done[mon.cur] = Heard]
  /\ monReply' = "none"
  /\ UNCHANGED <<rows, hostVars, objVars, svcVars, domQ, bounds>>

MonitorTimeout ==
  /\ mon.pc = "wait" /\ monReply = "none"
  /\ faults < MaxFaults
  /\ faults' = faults + 1
  /\ monReply' = "err"
  /\ domQ' = Disowned({"mon"})
  /\ UNCHANGED <<rows, hostVars, objVars, svcVars, mon, reboots>>

\* Mutant of Updated: initialized falls back to its default.
Updated_Forgets(s) ==
  IF mon.done[s] = "error" THEN [rows[s] EXCEPT !.status = "error"]
  ELSE [rows[s] EXCEPT !.status = "available", !.initialized = FALSE]

\* _get_updated_storage_info_for_db
Updated(s) ==
  IF mon.done[s] = "error" THEN [rows[s] EXCEPT !.status = "error"]
  ELSE [rows[s] EXCEPT !.status = "available", !.initialized = (mon.done[s] = "initialized")]

\* _update_all_storages.  When one of the rows is gone the bulk update may
\* raise StaleDataError, which ends the thread and rolls the update back.
MonitorWrite ==
  /\ mon.pc = "loop" /\ mon.seen = Nothing
  /\ LET known == {s \in Storages : mon.done[s] # "none"} IN
     \/ /\ rows' = [s \in Storages |->
               IF s \in known /\ Exists(s) THEN Updated(s) ELSE rows[s]]
        /\ mon' = IdleMonitor
     \/ /\ \E s \in known : ~Exists(s)
        /\ mon' = [IdleMonitor EXCEPT !.pc = "dead"]
        /\ UNCHANGED rows
  /\ UNCHANGED <<hostVars, objVars, svcVars, domQ, monReply, bounds>>

-----------------------------------------------------------------------------
\* The service process dies and is started again: the unacknowledged cast goes
\* back to its place, the waits are forgotten, a new thread starts.
ServiceCrash ==
  /\ faults < MaxFaults
  /\ job # NoJob \/ mon.pc \in {"loop", "wait"}
  /\ faults' = faults + 1
  /\ casts' = IF job.op \in {"_create_storage", "_delete_storage"}
              THEN <<[job EXCEPT !.pc = "start"]>> \o casts ELSE casts
  /\ job' = NoJob
  /\ svcReply' = "none"
  /\ domQ' = Disowned({"svc", "mon"})
  /\ mon' = IdleMonitor
  /\ monReply' = "none"
  /\ UNCHANGED <<rows, hostVars, objVars, reboots>>

\* The host restarts: nothing is mounted, and the queues, which are not
\* durable, come back empty.
HostReboot ==
  /\ reboots < MaxReboots
  /\ reboots' = reboots + 1
  /\ mnt' = [d \in Devices |-> {}]
  /\ casts' = <<>>
  /\ job' = NoJob
  /\ svcReply' = "none"
  /\ domQ' = <<>>
  /\ mon' = IdleMonitor
  /\ monReply' = "none"
  /\ asker' = IdleAsker
  /\ UNCHANGED <<rows, parts, data, objs, faults>>

ApiCreate == \E s \in Storages, n \in Names, d \in Devices : CreateStorage(s, n, d)
ApiDelete == \E s \in Storages : DeleteStorage(s)
ApiPartition == \E d \in Disks : CreatePartition(d) \/ DeletePartition(d)
ApiRequest == ApiCreate \/ ApiDelete \/ ApiPartition

HandlerStep ==
  \/ TakeCast \/ AckCast \/ PublishCast
  \/ CreateStart \/ CreateFinish \/ DeleteStart \/ DeleteFinish \/ PartitionFinish

ObjectStep == Tell \/ GiveUp \/ StoreObject

MonitorStep == MonitorRead \/ MonitorCall \/ MonitorResult \/ MonitorWrite

Next ==
  \/ ApiRequest \/ HandlerStep \/ MonitorStep \/ DomainExecute
  \/ ObjectStep \/ \E s \in Storages : Ask(s) \/ RemoveObjects(s)
  \/ DomainCrash \/ ServiceTimeout \/ MonitorTimeout \/ ServiceCrash \/ HostReboot

Spec == Init /\ [][Next]_vars

\* The consumer goes on with its handler and the domain with its queue.
FairSpec == Spec /\ WF_vars(HandlerStep) /\ WF_vars(DomainExecute)

-----------------------------------------------------------------------------
(* Properties *)

\* No object is left on, or still on its way to, a storage that is gone: an
\* object service inserts its row in the handler that asked get_storage, and
\* the storage service looks the objects up again once deleting is committed.
ObjectsHaveStorage ==
  \A s \in Storages :
    objs[s] # "none" \/ (asker.pc = "told" /\ asker.st = s) => Exists(s)

\* What was put on an initialized storage stays on its device: no restart of
\* the host, no redelivered or late request and no stale row of the monitoring
\* thread has it formatted again, or its partition deleted.
ObjectsSurvive ==
  \A s \in Storages : objs[s] = "device" => s \in data[rows[s].dev]

\* The consumer comes back from every handler, although it asks object services
\* that may be waiting for it.
HandlerEnds == []<>(job.op \in {"none", "partition"})
=============================================================================
