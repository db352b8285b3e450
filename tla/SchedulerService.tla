-------------------------- MODULE SchedulerService --------------------------
(***************************************************************************)
(* The scheduler module: its service layer, which keeps a row per job, its *)
(* domain process, which keeps entries in a crontab, and the monitoring    *)
(* thread that makes each follow the other: the rows take the state of the *)
(* entries, and the entries of no row are removed.                         *)
(*                                                                         *)
(* Names, commands and schedules are left out: a request refused because   *)
(* of one changes nothing.  A call of the API that is delivered again      *)
(* after a crash is a repeated request.                                    *)
(***************************************************************************)
EXTENDS Integers, Sequences, FiniteSets, SequencesExt

CONSTANTS
  Jobs,        \* ids a behaviour may use; an id is a uuid, used once
  NoJob,
  MaxJobs,     \* MAX_CONCURRENT_JOBS
  MaxEdits,    \* bound of the model: edits
  MaxFaults    \* bound of the model: failures of the crontab, domain calls
               \* that time out and crashes of a process, taken together

ASSUME SchedulerAssumption ==
  /\ NoJob \notin Jobs
  /\ MaxJobs \in Nat \ {0} /\ MaxEdits \in Nat /\ MaxFaults \in Nat

VARIABLES
  rows,     \* the scheduler_jobs table
  cron,     \* job -> its entries in the crontab, in their order: is each enabled
  handler,  \* the handler the service layer is in
  svcReply, \* the domain's answer to that handler
  domQ,     \* the domain queue, oldest first
  mon,      \* the monitoring thread
  monReply, \* the domain's answer to the thread
  listing,  \* the entries in the last list_all the thread was sent
  edits, faults

svcVars == <<handler, svcReply>>
monVars == <<mon, monReply, listing>>
bounds == <<edits, faults>>
vars == <<rows, cron, svcVars, domQ, monVars, bounds>>

\* old: created more than JOB_LIFETIME_THRESHOLD_SECS ago.
Rows == [status : {"none", "row", "deleted"}, enabled : BOOLEAN, old : BOOLEAN]
NoRow == [status |-> "none", enabled |-> FALSE, old |-> FALSE]

Handlers == [op : {"none", "create", "edit", "delete"}, id : Jobs \cup {NoJob},
             enabled : BOOLEAN, pc : {"idle", "call", "wait"}]
NoHandler == [op |-> "none", id |-> NoJob, enabled |-> FALSE, pc |-> "idle"]
Handler(op, j, e) == [op |-> op, id |-> j, enabled |-> e, pc |-> "call"]

Requests == [op : {"create", "edit", "delete", "list_all"}, id : Jobs \cup {NoJob},
             enabled : BOOLEAN, owner : {"svc", "mon", "none"}]

\* write: what the commit of the thread is going to do to a row, where "times"
\* changes only last_run and next_run; orphans: entries still to be removed.
Monitors == [pc : {"idle", "list", "orphans", "wait", "dead"},
             write : [Jobs -> {"none", "times", "enable", "disable"}],
             orphans : SUBSET Jobs]
IdleMonitor == [pc |-> "idle", write |-> [j \in Jobs |-> "none"], orphans |-> {}]

TypeOK ==
  /\ rows \in [Jobs -> Rows]
  /\ cron \in [Jobs -> Seq(BOOLEAN)]
  /\ handler \in Handlers
  /\ svcReply \in {"none", "ok", "err", "timeout"}
  /\ domQ \in Seq(Requests)
  /\ mon \in Monitors
  /\ monReply \in {"none", "ok", "err"}
  /\ listing \in [Jobs -> {"absent", "on", "off"}]
  /\ edits \in 0..MaxEdits
  /\ faults \in 0..MaxFaults

Init ==
  /\ rows = [j \in Jobs |-> NoRow]
  /\ cron = [j \in Jobs |-> <<>>]
  /\ handler = NoHandler
  /\ svcReply = "none"
  /\ domQ = <<>>
  /\ mon = IdleMonitor
  /\ monReply = "none"
  /\ listing = [j \in Jobs |-> "absent"]
  /\ edits = 0
  /\ faults = 0

-----------------------------------------------------------------------------
(* The handlers: each commits first and calls the domain afterwards. *)

Exists(j) == rows[j].status = "row"
Active == {j \in Jobs : Exists(j) /\ rows[j].enabled}

\* The commit of create_job; a new row is as old as its created_at.
CreateJob(j, e) ==
  /\ handler = NoHandler
  /\ rows[j].status = "none"
  /\ e => Cardinality(Active) < MaxJobs
  /\ rows' = [rows EXCEPT ![j] = [status |-> "row", enabled |-> e, old |-> FALSE]]
  /\ handler' = Handler("create", j, e)
  /\ UNCHANGED <<cron, svcReply, domQ, monVars, bounds>>

\* An edit that leaves enabled out sends the value of the row to the domain all
\* the same.
EditJob(j, e) ==
  /\ handler = NoHandler
  /\ edits < MaxEdits
  /\ Exists(j)
  /\ e /\ ~rows[j].enabled => Cardinality(Active) < MaxJobs
  /\ rows' = [rows EXCEPT ![j].enabled = e]
  /\ handler' = Handler("edit", j, e)
  /\ edits' = edits + 1
  /\ UNCHANGED <<cron, svcReply, domQ, monVars, faults>>

\* Mutant of DeleteJob: the domain is called and the commit is forgotten.
DeleteJob_NoCommit(j) ==
  /\ handler = NoHandler
  /\ Exists(j) /\ ~rows[j].enabled
  /\ handler' = Handler("delete", j, FALSE)
  /\ UNCHANGED <<rows, cron, svcReply, domQ, monVars, bounds>>

DeleteJob(j) ==
  /\ handler = NoHandler
  /\ Exists(j) /\ ~rows[j].enabled
  /\ rows' = [rows EXCEPT ![j].status = "deleted"]
  /\ handler' = Handler("delete", j, FALSE)
  /\ UNCHANGED <<cron, svcReply, domQ, monVars, bounds>>

CallDomain(op, j, e, owner) ==
  domQ' = Append(domQ, [op |-> op, id |-> j, enabled |-> e, owner |-> owner])

\* The row is read again after the commit and sent.
CallOfHandler ==
  /\ handler.pc = "call"
  /\ CallDomain(handler.op, handler.id, rows[handler.id].enabled, "svc")
  /\ handler' = [handler EXCEPT !.pc = "wait"]
  /\ UNCHANGED <<rows, cron, svcReply, monVars, bounds>>

\* An error or a timeout of the call is not handled and ends the handler too.
FinishHandler ==
  /\ handler.pc = "wait" /\ svcReply # "none"
  /\ handler' = NoHandler
  /\ svcReply' = "none"
  /\ UNCHANGED <<rows, cron, domQ, monVars, bounds>>

-----------------------------------------------------------------------------
(* The domain process: the crontab is read and written once per request. *)

\* create adds an entry that is enabled, whatever the job is; edit enables or
\* disables the first entry of the job; delete removes all of them.
Edited(r) ==
  CASE r.op = "create" -> [cron EXCEPT ![r.id] = Append(@, TRUE)]
    [] r.op = "edit" /\ cron[r.id] # <<>> -> [cron EXCEPT ![r.id][1] = r.enabled]
    [] r.op = "delete" -> [cron EXCEPT ![r.id] = <<>>]
    [] OTHER -> cron

Succeeds(r) == r.op = "edit" => cron[r.id] # <<>>

\* Of two entries of one job the later is the one the thread sees.
Listed == [j \in Jobs |-> IF cron[j] = <<>> THEN "absent"
                          ELSE IF Last(cron[j]) THEN "on" ELSE "off"]

Answer(r, answer) ==
  /\ svcReply' = IF r.owner = "svc" THEN answer ELSE svcReply
  /\ monReply' = IF r.owner = "mon" THEN answer ELSE monReply

DomainExecute ==
  /\ domQ # <<>>
  /\ LET r == Head(domQ) IN
     /\ cron' = Edited(r)
     /\ Answer(r, IF Succeeds(r) THEN "ok" ELSE "err")
     /\ listing' = IF r.op = "list_all" /\ r.owner = "mon" THEN Listed ELSE listing
  /\ domQ' = Tail(domQ)
  /\ UNCHANGED <<rows, handler, mon, bounds>>

\* The crontab cannot be read or written.
DomainFault ==
  /\ domQ # <<>>
  /\ faults < MaxFaults
  /\ faults' = faults + 1
  /\ Answer(Head(domQ), "err")
  /\ domQ' = Tail(domQ)
  /\ UNCHANGED <<rows, cron, handler, mon, listing, edits>>

\* The process dies before the acknowledgement: the request runs once more.
DomainCrash ==
  /\ domQ # <<>>
  /\ faults < MaxFaults
  /\ faults' = faults + 1
  /\ cron' = Edited(Head(domQ))
  /\ UNCHANGED <<rows, svcVars, domQ, monVars, edits>>

Disowned(owners) ==
  [i \in DOMAIN domQ |-> IF domQ[i].owner \in owners
                         THEN [domQ[i] EXCEPT !.owner = "none"] ELSE domQ[i]]

\* The wait ends without an answer; the request stays in the domain queue.
ServiceTimeout ==
  /\ handler.pc = "wait" /\ svcReply = "none"
  /\ faults < MaxFaults
  /\ faults' = faults + 1
  /\ svcReply' = "timeout"
  /\ domQ' = Disowned({"svc"})
  /\ UNCHANGED <<rows, cron, handler, monVars, edits>>

MonitorTimeout ==
  /\ mon.pc \in {"list", "wait"} /\ monReply = "none"
  /\ faults < MaxFaults
  /\ faults' = faults + 1
  /\ monReply' = "err"
  /\ domQ' = Disowned({"mon"})
  /\ UNCHANGED <<rows, cron, svcVars, mon, listing, edits>>

-----------------------------------------------------------------------------
(* monitoring, every 10 seconds in its own thread *)

MonitorList ==
  /\ mon.pc = "idle"
  /\ CallDomain("list_all", NoJob, FALSE, "mon")
  /\ mon' = [mon EXCEPT !.pc = "list"]
  /\ UNCHANGED <<rows, cron, svcVars, monReply, listing, bounds>>

\* __synchronize_os_to_db_info, or the end of an enabled job that has had no
\* entry for longer than the threshold.
Synchronized(j) ==
  CASE ~Exists(j) -> "none"
    [] Exists(j) /\ listing[j] = "absent" ->
         IF rows[j].enabled /\ rows[j].old THEN "disable" ELSE "none"
    [] Exists(j) /\ listing[j] = "on" ->
         IF rows[j].enabled THEN "times" ELSE "enable"
    [] Exists(j) /\ listing[j] = "off" ->
         IF rows[j].enabled THEN "disable" ELSE "times"

\* Mutant of MonitorRead: an entry that is disabled is not taken for an orphan.
MonitorRead_EnabledOrphans ==
  /\ mon.pc = "list" /\ monReply # "none"
  /\ mon' = IF monReply = "err" THEN IdleMonitor
            ELSE [pc |-> "orphans", write |-> [j \in Jobs |-> Synchronized(j)],
                  orphans |-> {j \in Jobs : ~Exists(j) /\ listing[j] = "on"}]
  /\ monReply' = "none"
  /\ listing' = [j \in Jobs |-> "absent"]
  /\ UNCHANGED <<rows, cron, svcVars, domQ, bounds>>

\* The rows are read after the answer of the domain.
MonitorRead ==
  /\ mon.pc = "list" /\ monReply # "none"
  /\ mon' = IF monReply = "err" THEN IdleMonitor
            ELSE [pc |-> "orphans", write |-> [j \in Jobs |-> Synchronized(j)],
                  orphans |-> {j \in Jobs : ~Exists(j) /\ listing[j] # "absent"}]
  /\ monReply' = "none"
  /\ listing' = [j \in Jobs |-> "absent"]
  /\ UNCHANGED <<rows, cron, svcVars, domQ, bounds>>

MonitorDelete ==
  /\ mon.pc = "orphans"
  /\ \E j \in mon.orphans :
       /\ CallDomain("delete", j, FALSE, "mon")
       /\ mon' = [mon EXCEPT !.pc = "wait", !.orphans = @ \ {j}]
  /\ UNCHANGED <<rows, cron, svcVars, monReply, listing, bounds>>

\* An error is logged.
MonitorDeleted ==
  /\ mon.pc = "wait" /\ monReply # "none"
  /\ mon' = [mon EXCEPT !.pc = "orphans"]
  /\ monReply' = "none"
  /\ UNCHANGED <<rows, cron, svcVars, domQ, listing, bounds>>

Pending == {j \in Jobs : mon.write[j] # "none"}

\* The commit updates what differs from what was read.  When a row it changes
\* is gone it may raise StaleDataError, which rolls back and ends the thread.
MonitorWrite ==
  /\ mon.pc = "orphans" /\ mon.orphans = {}
  /\ \/ /\ rows' = [j \in Jobs |->
             IF Exists(j) /\ mon.write[j] \in {"enable", "disable"}
             THEN [rows[j] EXCEPT !.enabled = (mon.write[j] = "enable")] ELSE rows[j]]
        /\ mon' = IdleMonitor
     \/ /\ \E j \in Pending : ~Exists(j)
        /\ mon' = [IdleMonitor EXCEPT !.pc = "dead"]
        /\ UNCHANGED rows
  /\ UNCHANGED <<cron, svcVars, domQ, monReply, listing, bounds>>

-----------------------------------------------------------------------------
\* More than the threshold passes.
Age(j) ==
  /\ Exists(j) /\ ~rows[j].old
  /\ rows' = [rows EXCEPT ![j].old = TRUE]
  /\ UNCHANGED <<cron, svcVars, domQ, monVars, bounds>>

\* The service process dies and is started again, with a new thread.
ServiceCrash ==
  /\ faults < MaxFaults
  /\ handler # NoHandler \/ mon.pc # "idle"
  /\ faults' = faults + 1
  /\ handler' = NoHandler
  /\ svcReply' = "none"
  /\ domQ' = Disowned({"svc", "mon"})
  /\ mon' = IdleMonitor
  /\ monReply' = "none"
  /\ listing' = [j \in Jobs |-> "absent"]
  /\ UNCHANGED <<rows, cron, edits>>

ApiCreate == \E j \in Jobs, e \in BOOLEAN : CreateJob(j, e)
ApiEdit == \E j \in Jobs, e \in BOOLEAN : EditJob(j, e)
ApiDelete == \E j \in Jobs : DeleteJob(j)
ApiRequest == ApiCreate \/ ApiEdit \/ ApiDelete

HandlerStep == CallOfHandler \/ FinishHandler
MonitorStep == MonitorList \/ MonitorRead \/ MonitorDelete \/ MonitorDeleted \/ MonitorWrite

Next ==
  \/ ApiRequest \/ HandlerStep \/ MonitorStep \/ \E j \in Jobs : Age(j)
  \/ DomainExecute \/ DomainFault \/ DomainCrash
  \/ ServiceTimeout \/ MonitorTimeout \/ ServiceCrash

Spec == Init /\ [][Next]_vars

\* The consumer goes on with its handler, the domain with its queue and the
\* thread with its rounds; time passes.
FairSpec ==
  /\ Spec
  /\ WF_vars(HandlerStep) /\ WF_vars(MonitorStep) /\ WF_vars(DomainExecute)
  /\ \A j \in Jobs : WF_vars(Age(j))

-----------------------------------------------------------------------------
(* Properties *)

\* Nothing but a delete_job removes entries from the crontab: the thread, which
\* lists the entries first and reads the rows afterwards, never takes the entry
\* of a job whose row was still to come for an orphan, however late its request
\* is executed.
EntriesOutliveRows ==
  [][\A j \in Jobs : Len(cron'[j]) < Len(cron[j]) => rows[j].status = "deleted"]_vars

\* While the thread runs, the row and the crontab come to agree on whether a job
\* is enabled, no entry outlives a deleted row, and both stay so once the requests
\* have stopped, in spite of calls that fail, time out and are executed late, and
\* of crashes.
Agree(j) ==
  /\ Exists(j) => (rows[j].enabled <=> (cron[j] # <<>> /\ Last(cron[j])))
  /\ rows[j].status = "deleted" => cron[j] = <<>>
Converges == <>[](mon.pc = "dead" \/ \A j \in Jobs : Agree(j))
=============================================================================
