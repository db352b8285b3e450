--------------------------- MODULE NetworkService ---------------------------
(***************************************************************************)
(* The network module: its service layer with the interfaces table, its    *)
(* monitoring thread, which copies the interfaces of the host to the table *)
(* every 10 seconds, and its domain process, which is HostNetwork.         *)
(*                                                                         *)
(* Rows are found by id in the handlers and by name in the thread, and     *)
(* nothing keeps a name from being in the table twice.                     *)
(***************************************************************************)
EXTENDS HostNetwork

CONSTANTS
  Ids,  \* rows the table can have
  NoId,
  MaxQueue  \* bound of the model: domain requests when one to turn an interface comes

ASSUME RowAssumption == Ids \subseteq Nat /\ NoId \notin Ids /\ MaxQueue \in Nat

VARIABLES
  rows,   \* the interfaces table
  casts,  \* casts waiting in the service queue, oldest first
  job,    \* the handler the service layer is in
  mon     \* the monitoring thread

vars == <<manager, host, conf, bkp, domQ, dom, reply, fails, crashes, reused, shared, stale,
          rows, casts, job, mon>>

\* InterfaceStatus, and "none" for no row.
InterfaceStatus == {"new", "creating", "available", "error", "deleting"}
Rows == [status : InterfaceStatus \cup {"none"}, name : Ifaces \cup {NoIface}]
NoRow == [status |-> "none", name |-> NoIface]

Jobs == [op : {"none", "create_bridge", "_create_bridge", "delete_bridge", "_delete_bridge"},
         id : Ids \cup {NoId}, name : Ifaces \cup {NoIface}, ifaces : SUBSET Ifaces,
         pc : {"idle", "check", "cast", "start", "domain", "remove", "ack"}]
NoJob == [op |-> "none", id |-> NoId, name |-> NoIface, ifaces |-> {}, pc |-> "idle"]

\* os: interfaces the host had, still to be written; gone: names the table had
\* that are not among them.
Monitors == [pc : {"idle", "listed", "loop", "dead"}, os : SUBSET Ifaces, gone : SUBSET Ifaces]
IdleMonitor == [pc |-> "idle", os |-> {}, gone |-> {}]

TypeOK ==
  /\ HostTypeOK
  /\ rows \in [Ids -> Rows]
  /\ casts \in Seq(Jobs) /\ job \in Jobs
  /\ mon \in Monitors

Init ==
  /\ HostInit
  /\ rows = [r \in Ids |-> NoRow]
  /\ casts = <<>> /\ job = NoJob
  /\ mon = IdleMonitor

-----------------------------------------------------------------------------
(* The pieces of the handlers. *)

Exists(r) == rows[r].status # "none"
Named(n) == {r \in Ids : Exists(r) /\ rows[r].name = n}
SetStatus(r, s) == rows' = [rows EXCEPT ![r].status = s]

\* The next row, which no handler knows.
Fresh(r) ==
  LET free == {q \in Ids : ~Exists(q) /\ job.id # q /\ \A i \in DOMAIN casts : casts[i].id # q}
  IN r \in free /\ \A q \in free : r <= q

\* _create_interface_in_db, and the insert of the monitoring
Inserted(r, n, s) == [rows EXCEPT ![r] = [status |-> s, name |-> n]]

\* API requests are taken when the consumer is free and no cast waits.
Free == job = NoJob /\ casts = <<>>

At(op, pc) == job.op = op /\ job.pc = pc
Goto(pc) == job' = [job EXCEPT !.pc = pc]

Call(op, n, ifaces, owner) ==
  domQ' = Append(domQ, [op |-> op, name |-> n, ifaces |-> ifaces, owner |-> owner])

TakeCast ==
  /\ job = NoJob /\ casts # <<>>
  /\ job' = Head(casts)
  /\ casts' = Tail(casts)
  /\ UNCHANGED <<hostVars, driverVars, reply, history, rows, mon>>

AckCast ==
  /\ job.pc = "ack"
  /\ job' = NoJob
  /\ UNCHANGED <<hostVars, driverVars, reply, history, rows, casts, mon>>

\* create_bridge and delete_bridge commit first and cast afterwards.
PublishCast ==
  /\ job.pc = "cast"
  /\ casts' = Append(casts, [job EXCEPT !.pc = "start",
       !.op = IF @ = "create_bridge" THEN "_create_bridge" ELSE "_delete_bridge"])
  /\ job' = NoJob
  /\ UNCHANGED <<hostVars, driverVars, reply, history, rows, mon>>

-----------------------------------------------------------------------------
(* create_bridge *)

\* The first half of the check: no row has the name.
CreateBridge(b, ifaces) ==
  /\ Free
  /\ Named(b) = {}
  /\ job' = [NoJob EXCEPT !.op = "create_bridge", !.name = b, !.ifaces = ifaces, !.pc = "check"]
  /\ UNCHANGED <<hostVars, driverVars, reply, history, rows, casts, mon>>

\* The domain is asked for the bridges, which needs a driver; a bridge may not be
\* put into a bridge.
Nested(ifaces) == ifaces \cap host.bridges # {}

\* Then the row is inserted.  The name is not looked at again.
CreateInsert ==
  /\ At("create_bridge", "check")
  /\ dom.pc = "idle" /\ domQ = <<>>
  /\ IF ~HasRoute \/ Nested(job.ifaces) THEN job' = NoJob /\ UNCHANGED rows
     ELSE \E r \in Ids :
       /\ Fresh(r)
       /\ rows' = Inserted(r, job.name, "new")
       /\ job' = [job EXCEPT !.id = r, !.pc = "cast"]
  /\ UNCHANGED <<hostVars, driverVars, reply, history, casts, mon>>

\* _create_bridge up to the domain call
CreateStart ==
  /\ At("_create_bridge", "start")
  /\ IF Exists(job.id)
     THEN /\ SetStatus(job.id, "creating")
          /\ Call("create", job.name, job.ifaces, "svc")
          /\ Goto("domain")
     ELSE Goto("ack") /\ UNCHANGED <<rows, domQ>>
  /\ UNCHANGED <<hostVars, dom, reply, history, casts, mon>>

CreateFinish ==
  /\ At("_create_bridge", "domain") /\ reply # "none"
  /\ IF Exists(job.id)
     THEN SetStatus(job.id, IF reply = "ok" THEN "available" ELSE "error") ELSE UNCHANGED rows
  /\ reply' = "none"
  /\ Goto("ack")
  /\ UNCHANGED <<hostVars, driverVars, history, casts, mon>>

-----------------------------------------------------------------------------
(* delete_bridge *)

\* Neither the status nor the kind of the interface is looked at.
DeleteBridge(r) ==
  /\ Free
  /\ Exists(r)
  /\ SetStatus(r, "deleting")
  /\ job' = [NoJob EXCEPT !.op = "delete_bridge", !.id = r, !.name = rows[r].name, !.pc = "cast"]
  /\ UNCHANGED <<hostVars, driverVars, reply, history, casts, mon>>

DeleteStart ==
  /\ At("_delete_bridge", "start")
  /\ IF Exists(job.id)
     THEN Call("delete", job.name, {}, "svc") /\ Goto("domain")
     ELSE Goto("ack") /\ UNCHANGED domQ
  /\ UNCHANGED <<hostVars, dom, reply, history, rows, casts, mon>>

\* A failure is committed as status error, and then `finally` goes on.
DeleteAnswer ==
  /\ At("_delete_bridge", "domain") /\ reply # "none"
  /\ IF Exists(job.id) /\ reply # "ok" THEN SetStatus(job.id, "error") ELSE UNCHANGED rows
  /\ reply' = "none"
  /\ Goto("remove")
  /\ UNCHANGED <<hostVars, driverVars, history, casts, mon>>

\* _delete_interface_from_db, whatever the domain said.
DeleteRemove ==
  /\ At("_delete_bridge", "remove")
  /\ rows' = [rows EXCEPT ![job.id] = NoRow]
  /\ Goto("ack")
  /\ UNCHANGED <<hostVars, driverVars, reply, history, casts, mon>>

-----------------------------------------------------------------------------
(* turn_on, turn_off *)

\* The interface is found by its name and a cast sent to the domain.
Turn(op, n) ==
  /\ Free
  /\ Named(n) # {}
  /\ Len(domQ) < MaxQueue
  /\ Call(op, n, {}, "none")
  /\ UNCHANGED <<hostVars, dom, reply, history, rows, casts, job, mon>>

-----------------------------------------------------------------------------
(* Failures of the service process. *)

Disowned == [i \in DOMAIN domQ |-> [domQ[i] EXCEPT !.owner = "none"]]

ServiceTimeout ==
  /\ job.pc = "domain" /\ reply = "none"
  /\ Failing
  /\ reply' = "timeout"
  /\ domQ' = Disowned
  /\ UNCHANGED <<hostVars, dom, crashes, reused, shared, stale, rows, casts, job, mon>>

ServiceCrash ==
  /\ job # NoJob
  /\ MayFail /\ crashes' = crashes + 1
  /\ casts' = IF job.op \in {"_create_bridge", "_delete_bridge"}
              THEN <<[job EXCEPT !.pc = "start"]>> \o casts ELSE casts
  /\ job' = NoJob
  /\ reply' = "none"
  /\ domQ' = Disowned
  /\ mon' = IdleMonitor
  /\ UNCHANGED <<hostVars, dom, fails, reused, shared, stale, rows>>

-----------------------------------------------------------------------------
(* monitoring *)

\* InterfacesFromSystem: the interfaces the host has now.
MonitorList ==
  /\ mon.pc = "idle"
  /\ mon' = [mon EXCEPT !.pc = "listed", !.os = Present(host)]
  /\ UNCHANGED <<hostVars, driverVars, reply, history, rows, casts, job>>

\* ip fails, and the thread ends.
MonitorRaises ==
  /\ mon.pc = "idle"
  /\ Failing
  /\ mon' = [mon EXCEPT !.pc = "dead"]
  /\ UNCHANGED <<hostVars, driverVars, reply, crashes, reused, shared, stale, rows, casts, job>>

\* The names in the table now.
MonitorNames ==
  /\ mon.pc = "listed"
  /\ mon' = [mon EXCEPT !.pc = "loop", !.gone = {n \in Ifaces : Named(n) # {}} \ mon.os]
  /\ UNCHANGED <<hostVars, driverVars, reply, history, rows, casts, job>>

\* Mutant of Synchronized: only rows that are there are brought up to date.
Synchronized_NoInsert(n) ==
  IF Named(n) = {} THEN {rows} ELSE {[rows EXCEPT ![r].status = "available"] : r \in Named(n)}

\* __synchronize_os_to_db_info: some row of that name becomes available, whatever
\* a handler is doing to it, or one is inserted.
Synchronized(n) ==
  IF Named(n) = {} THEN {Inserted(r, n, "available") : r \in {q \in Ids : Fresh(q)}}
  ELSE {[rows EXCEPT ![r].status = "available"] : r \in Named(n)}

\* One transaction for each interface of the list.
MonitorSync ==
  /\ mon.pc = "loop"
  /\ \E n \in mon.os :
       /\ mon' = [mon EXCEPT !.os = @ \ {n}]
       /\ rows' \in Synchronized(n)
  /\ UNCHANGED <<hostVars, driverVars, reply, history, casts, job>>

\* Then one for each name that the list did not have.
MonitorMissing ==
  /\ mon.pc = "loop" /\ mon.os = {}
  /\ \E n \in mon.gone :
       /\ mon' = [mon EXCEPT !.gone = @ \ {n}]
       /\ rows' \in IF Named(n) = {} THEN {rows}
                    ELSE {[rows EXCEPT ![r].status = "error"] : r \in Named(n)}
  /\ UNCHANGED <<hostVars, driverVars, reply, history, casts, job>>

MonitorEnd ==
  /\ mon.pc = "loop" /\ mon.os = {} /\ mon.gone = {}
  /\ mon' = IdleMonitor
  /\ UNCHANGED <<hostVars, driverVars, reply, history, rows, casts, job>>

-----------------------------------------------------------------------------
\* What the API asks for: one cast for each bridge of a list to delete.
ApiCreate == \E b \in Bridges : \E ifaces \in SUBSET (Ifaces \ {b}) : CreateBridge(b, ifaces)
ApiDelete == \E r \in Ids : DeleteBridge(r)
ApiTurn == \E n \in Ifaces, op \in {"enable", "disable"} : Turn(op, n)

ApiRequest == ApiCreate \/ ApiDelete \/ ApiTurn

HandlerStep ==
  \/ TakeCast \/ AckCast \/ PublishCast
  \/ CreateInsert \/ CreateStart \/ CreateFinish
  \/ DeleteStart \/ DeleteAnswer \/ DeleteRemove

MonitorStep == MonitorList \/ MonitorNames \/ MonitorSync \/ MonitorMissing \/ MonitorEnd

\* What the driver does leaves the table alone.
Driver == DriverStep /\ UNCHANGED <<rows, casts, job, mon>>
DriverDies == DomainCrash /\ UNCHANGED <<rows, casts, job, mon>>

Next ==
  \/ ApiRequest \/ HandlerStep \/ MonitorStep \/ MonitorRaises
  \/ Driver \/ DriverDies \/ ServiceTimeout \/ ServiceCrash

Spec == Init /\ [][Next]_vars

\* The consumers take what is in their queues, the thread runs every 10 seconds.
FairSpec == Spec /\ WF_vars(HandlerStep) /\ WF_vars(MonitorStep) /\ WF_vars(Driver)

-----------------------------------------------------------------------------
(* Properties *)

\* The host keeps an address through every creation and deletion of a bridge, and
\* through one command that fails anywhere in them: the rollback and the order of
\* the commands see to it.  A driver that dies between two commands leaves the
\* host without, and so may one that is asked to create a bridge that exists (its
\* rollback removes that bridge) or to put a port into two bridges.  So may, with
\* netplan, the request after one whose apply failed (stale): the files are
\* rewritten and not applied, and the next creation backs them up over the backup.
AddressKept ==
  crashes = 0 /\ fails <= 1 /\ ~reused /\ ~shared /\ ~stale /\ dom.pc = "idle" => host.addr # {}

\* With netplan, the file of the main port says what it said, once no bridge has
\* the port: the backup or the parameters the bridge kept come back to it.  Files
\* that were rewritten and not applied (Unapplied) still wait for their request to
\* be repeated.
FileComesBack ==
  (/\ manager = "netplan" /\ crashes = 0 /\ ~reused /\ ~shared /\ ~stale /\ ~Unapplied /\ dom.pc = "idle"
   /\ conf[Main].there /\ ~conf[Main].addr) =>
      \E b \in Bridges : Main \in conf[b].ports

\* Again and again the table shows of every interface what the host has, although
\* the thread writes what it saw before a handler's commits and both overwrite
\* each other's status, a handler dies between its commit and its cast, or its
\* domain call times out: as long as the thread lives and no name is in the table
\* twice.
Doubled(n) == Cardinality(Named(n)) > 1
Agrees(n) == n \in Present(host) <=> \E r \in Named(n) : rows[r].status = "available"
NoRoom(n) == Named(n) = {} /\ \A r \in Ids : Exists(r)  \* bound of the model
TableFollowsHost ==
  \A n \in Ifaces : []<>(Agrees(n) \/ mon.pc = "dead" \/ Doubled(n) \/ NoRoom(n))
=============================================================================
