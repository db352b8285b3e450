---------------------------- MODULE VmSnapshots ----------------------------
(***************************************************************************)
(* The snapshots of one virtual machine.  Their tree is kept three times:  *)
(* in the snapshots table (parent_id, is_current), in libvirt while the    *)
(* machine is on, and in one XML file per snapshot, from which libvirt     *)
(* gets it back at the next start.  Creation and reversion are casts to    *)
(* the domain whose errors nobody hears of: the monitoring thread reads    *)
(* libvirt and decides what became of them.                                *)
(*                                                                         *)
(* A snapshot is its name, which is unique in the table at any time and is *)
(* all that libvirt and the files know.  VmService models the life cycle   *)
(* of the machine; here start, shut_off and the machine's deletion are one *)
(* handler each, with what they do to snapshots.                           *)
(***************************************************************************)
EXTENDS Integers, Sequences, FiniteSets, SequencesExt

CONSTANTS
  Snaps,      \* names of snapshots
  NoSnap,     \* no parent, no current snapshot
  Absent,     \* the parent of a snapshot that libvirt, or the disk, has not
  Limit,      \* max_snapshot_count, 10 in the code
  MaxQueue,   \* bound of the model: requests in the domain queue when one is added
  MaxFaults   \* bound of the model: failures, timeouts and crashes together

ASSUME SnapshotAssumption ==
  /\ NoSnap \notin Snaps /\ Absent \notin Snaps \cup {NoSnap}
  /\ {Limit, MaxQueue, MaxFaults} \subseteq Nat

VARIABLES
  rows,     \* the snapshots table
  power,    \* power_state in the row of the machine, "gone" after its deletion
  libvirt,  \* the libvirt domain and its snapshots
  files,    \* snapshot -> the parent its XML file names
  job, reply, domQ, mon,
  spoiled,  \* history: a snapshot was in error, or table and files disagreed on a parent
  faults    \* failures, timeouts and crashes so far

vars == <<rows, power, libvirt, files, job, reply, domQ, mon, spoiled, faults>>

SnapshotStatus == {"creating", "running", "error", "reverting", "deleting"}
Parents == Snaps \cup {NoSnap}

Rows == [status : SnapshotStatus \cup {"none"}, parent : Parents, current : BOOLEAN]
NoRow == [status |-> "none", parent |-> NoSnap, current |-> FALSE]

Nowhere == [s \in Snaps |-> Absent]
Off == [on |-> FALSE, parent |-> Nowhere, cur |-> NoSnap]

CastOps == {"_create_snapshot", "_revert_snapshot", "_delete_snapshot", "_delete_vm"}

\* left: the snapshots _delete_all_vm_snapshots still has to delete.
Jobs == [op : CastOps \cup {"start_vm", "shut_off_vm", "none"},
         snap : Parents, left : SUBSET Snaps,
         pc : {"idle", "start", "next", "domain", "ack"}]
NoJob == [op |-> "none", snap |-> NoSnap, left |-> {}, pc |-> "idle"]
Job(op, s, pc) == [op |-> op, snap |-> s, left |-> {}, pc |-> pc]

\* children: children_names of delete, snap: current_snap_name of start.
Requests == [op : {"create", "revert", "delete", "start", "turn_off"}, snap : Parents,
             children : SUBSET Snaps, owner : {"svc", "none"}]
Request(op, s, owner) == [op |-> op, snap |-> s, children |-> {}, owner |-> owner]

\* seen: what libvirt said, power: the row as loaded.
Monitors == [pc : {"idle", "write"},
             power : {"running", "paused", "shut_off", "gone"},
             on : BOOLEAN, there : SUBSET Snaps, cur : Parents]
IdleMonitor == [pc |-> "idle", power |-> "gone", on |-> FALSE, there |-> {}, cur |-> NoSnap]

Replies == [res : {"none", "ok", "err", "timeout"}, names : SUBSET Snaps]
NoReply == [res |-> "none", names |-> {}]

TypeOK ==
  /\ rows \in [Snaps -> Rows]
  /\ power \in {"running", "paused", "shut_off", "gone"}
  /\ libvirt \in [on : BOOLEAN, parent : [Snaps -> Parents \cup {Absent}], cur : Parents]
  /\ files \in [Snaps -> Parents \cup {Absent}]
  /\ job \in Jobs /\ reply \in Replies
  /\ domQ \in Seq(Requests)
  /\ mon \in Monitors
  /\ spoiled \in BOOLEAN
  /\ faults \in 0..MaxFaults

Init ==
  /\ rows = [s \in Snaps |-> NoRow]
  /\ power = "shut_off"
  /\ libvirt = Off
  /\ files = Nowhere
  /\ job = NoJob /\ reply = NoReply /\ domQ = <<>> /\ mon = IdleMonitor
  /\ spoiled = FALSE
  /\ faults = 0

-----------------------------------------------------------------------------
(* The pieces of the handlers. *)

Fault == faults < MaxFaults /\ faults' = faults + 1

Existing == {s \in Snaps : rows[s].status # "none"}
InLibvirt == {s \in Snaps : libvirt.parent[s] # Absent}
OnDisk == {s \in Snaps : files[s] # Absent}

\* SnapshotSqlAlchemyRepository.get_current and get_children
Current == {s \in Existing : rows[s].current}
Children(s) == {t \in Existing : rows[t].parent = s}

\* set_current, unset_current: one UPDATE over the snapshots of the machine.
WithCurrent(S) == [s \in Snaps |-> [rows[s] EXCEPT !.current = s \in S]]

\* _check_snapshot_status
StatusIn(s, statuses) == rows[s].status \in statuses

SetStatus(s, status) == rows' = [rows EXCEPT ![s].status = status]

\* An API handler commits and casts, and the cast is served before any other
\* request (priority 10 against 1): the consumer goes on with its own cast.
Free == job = NoJob
Done == job' = IF job.op \in CastOps THEN [job EXCEPT !.pc = "ack"] ELSE NoJob

CallDomain(r) == domQ' = Append(domQ, r)

\* Mutant of Deleted: the children keep their parent.
Deleted_KeepsChildren(s) == [rows EXCEPT ![s] = NoRow]

\* _delete_snapshot_from_db: the children go to the parent of the snapshot.
Deleted(s) ==
  [t \in Snaps |-> IF t = s THEN NoRow
                   ELSE IF t \in Children(s) THEN [rows[t] EXCEPT !.parent = rows[s].parent]
                   ELSE rows[t]]

AckCast ==
  /\ job.pc = "ack"
  /\ job' = NoJob
  /\ UNCHANGED <<rows, power, libvirt, files, reply, domQ, mon, spoiled, faults>>

-----------------------------------------------------------------------------
(* create_snapshot, revert_snapshot, delete_snapshot *)

\* The machine has to be running, and so has its current snapshot, if any,
\* which becomes the parent.  The machine is marked paused.
CreateSnapshot(s) ==
  /\ Free /\ Len(domQ) < MaxQueue
  /\ Cardinality(Existing) < Limit /\ s \notin Existing
  /\ power = "running"
  /\ \A c \in Current : StatusIn(c, {"running"})
  /\ LET parent == IF Current = {} THEN NoSnap ELSE CHOOSE c \in Current : TRUE
     IN rows' = [WithCurrent({}) EXCEPT
                   ![s] = [status |-> "creating", parent |-> parent, current |-> FALSE]]
  /\ power' = "paused"
  /\ job' = Job("_create_snapshot", s, "start")
  /\ UNCHANGED <<libvirt, files, reply, domQ, mon, spoiled, faults>>

RevertSnapshot(s) ==
  /\ Free /\ Len(domQ) < MaxQueue
  /\ power = "running"
  /\ \A c \in Current \cup {s} : StatusIn(c, {"running"})
  /\ rows' = [WithCurrent({s}) EXCEPT ![s].status = "reverting"]
  /\ power' = "paused"
  /\ job' = Job("_revert_snapshot", s, "start")
  /\ UNCHANGED <<libvirt, files, reply, domQ, mon, spoiled, faults>>

\* A handler that is only a cast to the domain, which nobody waits for.
PassOn(handler, op) ==
  /\ job.op = handler /\ job.pc = "start"
  /\ IF job.snap \in Existing THEN CallDomain(Request(op, job.snap, "none")) ELSE UNCHANGED domQ
  /\ Done
  /\ UNCHANGED <<rows, power, libvirt, files, reply, mon, spoiled, faults>>

CreateCast == PassOn("_create_snapshot", "create")
RevertCast == PassOn("_revert_snapshot", "revert")

\* A snapshot in error is deleted from the table at once, and only there.
DeleteSnapshot(s) ==
  /\ Free
  /\ power \in {"running", "shut_off"}
  /\ StatusIn(s, {"running", "error"})
  /\ \/ /\ rows[s].status = "error"
        /\ rows' = Deleted(s)
        /\ UNCHANGED job
     \/ /\ rows[s].status = "running"
        /\ SetStatus(s, "deleting")
        /\ job' = Job("_delete_snapshot", s, "start")
  /\ UNCHANGED <<power, libvirt, files, reply, domQ, mon, spoiled, faults>>

\* _delete_snapshot up to the domain call.
DeleteCall ==
  /\ job.op = "_delete_snapshot" /\ job.pc = "start"
  /\ IF job.snap \in Existing
     THEN /\ CallDomain([Request("delete", job.snap, "svc") EXCEPT !.children = Children(job.snap)])
          /\ job' = [job EXCEPT !.pc = "domain"]
     ELSE Done /\ UNCHANGED domQ
  /\ UNCHANGED <<rows, power, libvirt, files, reply, mon, spoiled, faults>>

\* ... and after it; a timeout is not handled and ends a deletion of the
\* machine as well.
DeleteFinish ==
  /\ job.op \in {"_delete_snapshot", "_delete_vm"} /\ job.pc = "domain" /\ reply.res # "none"
  /\ rows' = CASE reply.res = "ok" -> Deleted(job.snap)
               [] reply.res = "err" -> [rows EXCEPT ![job.snap].status = "error"]
               [] OTHER -> rows
  /\ IF job.op = "_delete_vm" /\ reply.res # "timeout"
     THEN job' = [job EXCEPT !.pc = "next", !.snap = NoSnap] ELSE Done
  /\ reply' = NoReply
  /\ spoiled' = (spoiled \/ reply.res = "err")
  /\ UNCHANGED <<power, libvirt, files, domQ, mon, faults>>

-----------------------------------------------------------------------------
(* The machine: start_vm, shut_off_vm, delete_vm *)

StartVm ==
  /\ Free
  /\ power = "shut_off" /\ ~libvirt.on
  /\ \E c \in IF Current = {} THEN {NoSnap} ELSE Current : CallDomain(Request("start", c, "svc"))
  /\ job' = Job("start_vm", NoSnap, "domain")
  /\ UNCHANGED <<rows, power, libvirt, files, reply, mon, spoiled, faults>>

\* _set_recreated_snapshots_statuses: what libvirt has taken back from the files
\* is creating until the monitoring sees it.
StartFinish ==
  /\ job.op = "start_vm" /\ job.pc = "domain" /\ reply.res # "none"
  /\ IF reply.res = "ok"
     THEN /\ rows' = [s \in Snaps |-> IF s \in reply.names \cap Existing
                                      THEN [rows[s] EXCEPT !.status = "creating"] ELSE rows[s]]
          /\ power' = "running"
     ELSE UNCHANGED <<rows, power>>
  /\ reply' = NoReply
  /\ Done
  /\ UNCHANGED <<libvirt, files, domQ, mon, spoiled, faults>>

ShutOffVm ==
  /\ Free
  /\ power = "running"
  /\ CallDomain(Request("turn_off", NoSnap, "svc"))
  /\ job' = Job("shut_off_vm", NoSnap, "domain")
  /\ UNCHANGED <<rows, power, libvirt, files, reply, mon, spoiled, faults>>

ShutOffFinish ==
  /\ job.op = "shut_off_vm" /\ job.pc = "domain" /\ reply.res # "none"
  /\ power' = IF reply.res = "ok" THEN "shut_off" ELSE power
  /\ reply' = NoReply
  /\ Done
  /\ UNCHANGED <<rows, libvirt, files, domQ, mon, spoiled, faults>>

DeleteVm ==
  /\ Free
  /\ power = "shut_off"
  /\ job' = Job("_delete_vm", NoSnap, "start")
  /\ UNCHANGED <<rows, power, libvirt, files, reply, domQ, mon, spoiled, faults>>

\* Mutant of DeleteVmStart: only the snapshots known to be complete are deleted.
DeleteVmStart_OnlyRunning ==
  /\ job.op = "_delete_vm" /\ job.pc = "start"
  /\ IF power = "gone" THEN Done
     ELSE job' = [job EXCEPT !.pc = "next",
                             !.left = {s \in Existing : rows[s].status \in {"running", "error"}}]
  /\ UNCHANGED <<rows, power, libvirt, files, reply, domQ, mon, spoiled, faults>>

\* _delete_all_vm_snapshots takes its list once, in the order of creation.
DeleteVmStart ==
  /\ job.op = "_delete_vm" /\ job.pc = "start"
  /\ IF power = "gone" THEN Done ELSE job' = [job EXCEPT !.pc = "next", !.left = Existing]
  /\ UNCHANGED <<rows, power, libvirt, files, reply, domQ, mon, spoiled, faults>>

DeleteVmNext ==
  /\ job.op = "_delete_vm" /\ job.pc = "next"
  /\ \/ \E s \in job.left :
          /\ rows[s].parent \notin job.left
          /\ IF rows[s].status = "error"
             THEN /\ rows' = Deleted(s)
                  /\ job' = [job EXCEPT !.left = @ \ {s}]
                  /\ UNCHANGED domQ
             ELSE /\ CallDomain([Request("delete", s, "svc") EXCEPT !.children = Children(s)])
                  /\ job' = [job EXCEPT !.left = @ \ {s}, !.snap = s, !.pc = "domain"]
                  /\ UNCHANGED rows
          /\ UNCHANGED power
     \/ /\ job.left = {}
        /\ power' = "gone"
        /\ rows' = [s \in Snaps |-> NoRow]
        /\ Done
        /\ UNCHANGED domQ
  /\ UNCHANGED <<libvirt, files, reply, mon, spoiled, faults>>

-----------------------------------------------------------------------------
(* The domain process: LibvirtDriver, libvirt, qemu-img and the XML files. *)

\* What libvirt, or qemu-img for a machine that is off, needs of a request.
CanSucceed(r) ==
  CASE r.op = "create"   -> libvirt.on /\ r.snap \notin InLibvirt
    [] r.op = "revert"   -> libvirt.on /\ r.snap \in InLibvirt
    [] r.op = "delete"   -> r.snap \in IF libvirt.on THEN InLibvirt ELSE OnDisk
    [] r.op = "start"    -> ~libvirt.on
    [] r.op = "turn_off" -> libvirt.on

\* The files that _update_snapshots_xml reads have to be there.
FilesThere(r) == r.op = "delete" => r.children \cup {r.snap} \subseteq OnDisk

\* redefine_snapshots, from the oldest file on: a snapshot whose parent libvirt
\* does not have is refused.
Redefined == UNION {S \in SUBSET OnDisk : \A s \in S : files[s] \in S \cup {NoSnap}}

\* libvirt gives the children of a deleted snapshot to its parent.
LibvirtWithout(s) ==
  [libvirt EXCEPT
     !.parent = [t \in Snaps |-> IF t = s THEN Absent
                                 ELSE IF libvirt.parent[t] = s THEN libvirt.parent[s]
                                 ELSE libvirt.parent[t]],
     !.cur = IF @ = s THEN libvirt.parent[s] ELSE @]

LibvirtAfter(r) ==
  CASE r.op = "create"   -> [libvirt EXCEPT !.parent[r.snap] = libvirt.cur, !.cur = r.snap]
    [] r.op = "revert"   -> [libvirt EXCEPT !.cur = r.snap]
    [] r.op = "delete"   -> IF libvirt.on THEN LibvirtWithout(r.snap) ELSE libvirt
    [] r.op = "start"    -> [on |-> TRUE, cur |-> IF r.snap \in Redefined THEN r.snap ELSE NoSnap,
                             parent |-> [s \in Snaps |-> IF s \in Redefined THEN files[s] ELSE Absent]]
    [] r.op = "turn_off" -> Off

\* Mutant of Reparented: the children's files are left as they are.
Reparented_Not(S, s) == files

\* _update_snapshots_xml: the files of the children S name the parent of s.
Reparented(S, s) == [t \in Snaps |-> IF t \in S THEN files[s] ELSE files[t]]

FilesAfter(r) ==
  CASE r.op = "create" -> [files EXCEPT ![r.snap] = libvirt.cur]
    [] r.op = "delete" -> [Reparented(r.children, r.snap) EXCEPT ![r.snap] = Absent]
    [] OTHER           -> files

Answer(r, res) ==
  reply' = IF r.owner # "svc" THEN reply
           ELSE [res |-> res,
                 names |-> IF res = "ok" /\ r.op = "start" THEN Redefined ELSE {}]

Drifts(r) == r.op = "create" /\ r.snap \in Existing /\ rows[r.snap].parent # libvirt.cur

DomainExecute ==
  /\ domQ # <<>>
  /\ LET r == Head(domQ) IN
       \/ /\ CanSucceed(r) /\ FilesThere(r)
          /\ libvirt' = LibvirtAfter(r)
          /\ files' = FilesAfter(r)
          /\ Answer(r, "ok")
          /\ spoiled' = (spoiled \/ Drifts(r))
          /\ UNCHANGED faults
       \* libvirt did its part and a file failed: some of the children are changed
       \/ /\ CanSucceed(r) /\ r.op \in {"create", "delete"}
          /\ IF FilesThere(r) THEN Fault ELSE UNCHANGED faults
          /\ libvirt' = LibvirtAfter(r)
          /\ IF r.op = "delete" /\ r.snap \in OnDisk
             THEN \E S \in SUBSET (r.children \cap OnDisk) : files' = Reparented(S, r.snap)
             ELSE UNCHANGED files
          /\ Answer(r, "err")
          /\ spoiled' = TRUE
       \/ /\ IF CanSucceed(r) THEN Fault ELSE UNCHANGED faults
          /\ Answer(r, "err")
          /\ UNCHANGED <<libvirt, files, spoiled>>
  /\ domQ' = Tail(domQ)
  /\ UNCHANGED <<rows, power, job, mon>>

\* The process dies after the work and before the acknowledgement.
DomainCrash ==
  /\ domQ # <<>>
  /\ Fault
  /\ CanSucceed(Head(domQ)) /\ FilesThere(Head(domQ))
  /\ libvirt' = LibvirtAfter(Head(domQ))
  /\ files' = FilesAfter(Head(domQ))
  /\ spoiled' = (spoiled \/ Drifts(Head(domQ)))
  /\ UNCHANGED <<rows, power, job, reply, domQ, mon>>

Disowned == [i \in DOMAIN domQ |-> [domQ[i] EXCEPT !.owner = "none"]]

ServiceTimeout ==
  /\ job.pc = "domain" /\ reply.res = "none"
  /\ Fault
  /\ reply' = [NoReply EXCEPT !.res = "timeout"]
  /\ domQ' = Disowned
  /\ UNCHANGED <<rows, power, libvirt, files, job, mon, spoiled>>

\* The service process dies: its cast is redelivered, unless it had not been
\* published yet; the thread starts anew.
ServiceCrash ==
  /\ job # NoJob
  /\ Fault
  /\ job' \in {j \in {Job(job.op, IF job.op = "_delete_vm" THEN NoSnap ELSE job.snap, "start"),
                      NoJob} :
               IF job.op \in CastOps THEN j = NoJob => job.pc = "start" ELSE j = NoJob}
  /\ reply' = NoReply
  /\ domQ' = Disowned
  /\ mon' = IdleMonitor
  /\ UNCHANGED <<rows, power, libvirt, files, spoiled>>

-----------------------------------------------------------------------------
(* monitoring *)

\* get_vms_state, the row of the machine, get_vm_snapshots
MonitorRead ==
  /\ mon.pc = "idle" /\ power # "gone"
  /\ mon' = [pc |-> "write", power |-> power,
             on |-> libvirt.on, there |-> InLibvirt, cur |-> libvirt.cur]
  /\ UNCHANGED <<rows, power, libvirt, files, job, reply, domQ, spoiled, faults>>

\* _update_snapshots_statuses: a snapshot that is creating is running from now
\* on, whether libvirt has it or not.
Seen(s) ==
  IF s \notin mon.there /\ rows[s].status # "creating" THEN "error"
  ELSE IF rows[s].status = "creating" \/ (rows[s].status = "reverting" /\ s = mon.cur)
  THEN "running" ELSE rows[s].status

\* _update_current_snapshot, whose result is lost when libvirt has no current
\* snapshot: it returns before the commit.
SeenCurrent(s) == IF mon.cur \in Existing THEN s = mon.cur ELSE rows[s].current

\* Mutant of PowerSeen: a machine that is paused is left alone.
PowerSeen_KeepsPaused ==
  LET now == IF mon.on THEN "running" ELSE "shut_off"
  IN IF now # mon.power /\ power \notin {"gone", "paused"} THEN now ELSE power

\* The power state is written if it differs from what was loaded.
PowerSeen ==
  LET now == IF mon.on THEN "running" ELSE "shut_off"
  IN IF now # mon.power /\ power # "gone" THEN now ELSE power

\* The statuses and the current snapshot, unless the domain is off, and the power
\* state.
MonitorWrite ==
  /\ mon.pc = "write"
  /\ IF mon.on
     THEN /\ rows' = [s \in Snaps |->
                        IF s \in Existing
                        THEN [rows[s] EXCEPT !.status = Seen(s), !.current = SeenCurrent(s)]
                        ELSE rows[s]]
          /\ spoiled' = (spoiled \/ \E s \in Existing : Seen(s) = "error")
     ELSE UNCHANGED <<rows, spoiled>>
  /\ power' = PowerSeen
  /\ mon' = IdleMonitor
  /\ UNCHANGED <<libvirt, files, job, reply, domQ, faults>>

-----------------------------------------------------------------------------
ApiCreate == \E s \in Snaps : CreateSnapshot(s)
ApiRevert == \E s \in Snaps : RevertSnapshot(s)
ApiDelete == \E s \in Snaps : DeleteSnapshot(s)
ApiRequest == StartVm \/ ShutOffVm \/ DeleteVm \/ ApiCreate \/ ApiRevert \/ ApiDelete

HandlerStep ==
  \/ AckCast \/ CreateCast \/ RevertCast
  \/ DeleteCall \/ DeleteFinish \/ StartFinish \/ ShutOffFinish
  \/ DeleteVmStart \/ DeleteVmNext

MonitorStep == MonitorRead \/ MonitorWrite

Next ==
  \/ ApiRequest \/ HandlerStep \/ MonitorStep
  \/ DomainExecute \/ DomainCrash \/ ServiceTimeout \/ ServiceCrash

Spec == Init /\ [][Next]_vars

\* The consumers go on with what they have, the thread runs every 10 seconds.
FairSpec ==
  Spec /\ WF_vars(HandlerStep) /\ WF_vars(DomainExecute) /\ WF_vars(MonitorStep)

-----------------------------------------------------------------------------
(* Properties *)

\* The table is a forest with at most one current snapshot: a deletion never
\* leaves a child behind with a parent that is gone, nor closes a cycle,
\* whatever is redelivered, fails or comes late.
RowsAreForest ==
  /\ \A s \in Existing : rows[s].parent \in Existing \cup {NoSnap}
  /\ \A S \in SUBSET Existing : S # {} => \E s \in S : rows[s].parent \notin S
  /\ Cardinality(Current) <= 1

\* Every file names a parent that has a file, so the next start gives libvirt
\* back all its snapshots: unless a snapshot went to error or a file could not
\* be written, or table and libvirt disagree on a parent, for the domain
\* changes the files of the children the table names.
FilesAreClosed ==
  ~spoiled => \A s \in OnDisk : files[s] \in OnDisk \cup {NoSnap}

\* A machine whose snapshots never showed an error leaves no file behind when it
\* is deleted; the next machine with its name would take it for its own.
DeletedLeavesNoFile == power = "gone" /\ ~spoiled => OnDisk = {}

\* create_snapshot and revert_snapshot mark the machine paused and only the
\* monitoring takes that back: it always does.
PausedEnds == power = "paused" ~> power # "paused"
=============================================================================
