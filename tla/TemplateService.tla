-------------------------- MODULE TemplateService ---------------------------
(***************************************************************************)
(* The template module together with the part of the volume module that    *)
(* makes volumes from templates.                                           *)
(*                                                                         *)
(* Each of the two service layers has one consumer and calls the other     *)
(* while it handles a request: the template module asks for the volumes of *)
(* a template before it changes it, the volume module asks for a template  *)
(* before it makes a volume.  A backed volume reads from the file of its   *)
(* template for as long as it lives.                                       *)
(***************************************************************************)
EXTENDS Integers, Sequences, FiniteSets, SequencesExt

CONSTANTS
  Templates, \* ids of templates
  NoTemplate,
  Names,     \* names of templates
  NoName,
  Volumes,   \* ids of volumes made from templates
  Backing,   \* templates that are backing files of their volumes
  MaxFaults, \* bound of the model: failures, timeouts of domain calls and crashes
  MaxQueue   \* bound of the model: queued messages when a request comes

ASSUME TemplateAssumption ==
  /\ NoTemplate \notin Templates /\ NoName \notin Names
  /\ Backing \subseteq Templates
  /\ MaxFaults \in Nat /\ MaxQueue \in Nat

\* template-NAME.FORMAT as it is created, template-NAME after an edit.
Paths == [name : Names, ext : BOOLEAN]
NoPath == [name |-> NoName, ext |-> FALSE]

VARIABLES
  rows,   \* the templates table
  files,  \* whose bytes are at a path
  queue,  \* the queue of the template service layer
  job,    \* the message it is in
  reply,  \* the answer to what it asks
  domQ,   \* the queue of the template domain; its head is the request in hand
  vols,   \* the volumes made from templates
  vjob,   \* the request the volume service layer is in
  vreply, \* the answer to what it asks
  vqueue, \* questions of the template module in its queue
  late,   \* history: volumes inserted while their template was being changed or gone
  clash,  \* history: a template was renamed to a name or a file another one has
  fails, crashes

templateVars == <<rows, queue, job, reply>>
volumeVars == <<vols, vjob, vreply, late>>
vars == <<rows, files, queue, job, reply, domQ, vols, vjob, vreply, vqueue, late, clash,
          fails, crashes>>

\* TemplateStatus, and "none" for no row.
TemplateStatus == {"new", "creating", "editing", "available", "error", "deleting"}
Rows == [status : TemplateStatus \cup {"none"}, name : Names \cup {NoName},
         path : Paths \cup {NoPath}]
NoRow == [status |-> "none", name |-> NoName, path |-> NoPath]

Operations == {"create", "edit", "delete", "_create", "_edit", "_delete", "get"}
\* live: the asker of a get still waits.
Messages == [op : Operations, t : Templates \cup {NoTemplate}, name : Names \cup {NoName},
             live : BOOLEAN]
NoMessage == [op |-> "none", t |-> NoTemplate, name |-> NoName, live |-> FALSE]
Jobs == [msg : Messages \cup {NoMessage},
         pc : {"idle", "start", "asked", "cast", "domain"}]
NoJob == [msg |-> NoMessage, pc |-> "idle"]

Requests == [op : {"create", "edit", "delete"}, t : Templates, path : Paths, name : Names \cup {NoName},
             live : BOOLEAN]

\* base: the path the volume was or will be made from; near: it is on the storage
\* of the template.
Vols == [status : {"none", "new", "creating", "available"}, t : Templates \cup {NoTemplate},
         base : Paths \cup {NoPath}, near : BOOLEAN]
NoVol == [status |-> "none", t |-> NoTemplate, base |-> NoPath, near |-> FALSE]
VolumeJobs == [pc : {"idle", "asked"}, t : Templates \cup {NoTemplate}, near : BOOLEAN]
NoVolumeJob == [pc |-> "idle", t |-> NoTemplate, near |-> FALSE]

Questions == [op : {"volume", "volumes"}, t : Templates \cup {NoTemplate}, live : BOOLEAN]

TypeOK ==
  /\ rows \in [Templates -> Rows] /\ files \in [Paths -> Templates \cup {NoTemplate}]
  /\ queue \in Seq(Messages) /\ job \in Jobs
  /\ reply \in {"none", "ok", "err", "used", "timeout"}
  /\ domQ \in Seq(Requests)
  /\ vols \in [Volumes -> Vols] /\ vjob \in VolumeJobs /\ vqueue \in Seq(Questions)
  /\ vreply \in Paths \cup {NoPath} \cup {[none |-> TRUE], [gone |-> TRUE]}
  /\ late \subseteq Volumes /\ clash \in BOOLEAN
  /\ fails \in 0..MaxFaults /\ crashes \in 0..MaxFaults

NoAnswer == [none |-> TRUE]
Gone == [gone |-> TRUE]

Init ==
  /\ rows = [t \in Templates |-> NoRow]
  /\ files = [p \in Paths |-> NoTemplate]
  /\ queue = <<>> /\ job = NoJob /\ reply = "none" /\ domQ = <<>>
  /\ vols = [v \in Volumes |-> NoVol] /\ vjob = NoVolumeJob /\ vreply = NoAnswer /\ vqueue = <<>>
  /\ late = {} /\ clash = FALSE /\ fails = 0 /\ crashes = 0

-----------------------------------------------------------------------------
(* The pieces of the handlers. *)

Exists(t) == rows[t].status # "none"
At(op, pc) == job.msg.op = op /\ job.pc = pc
Goto(pc) == job' = [job EXCEPT !.pc = pc]
Done == job' = NoJob
T == job.msg.t

\* _update_and_log_event
SetStatus(t, s) == rows' = [rows EXCEPT ![t].status = s]

\* A uuid nobody has seen.
Fresh(t) ==
  /\ ~Exists(t)
  /\ \A v \in Volumes : vols[v].t # t
  /\ \A i \in DOMAIN queue : queue[i].t # t
  /\ \A i \in DOMAIN domQ : domQ[i].t # t
  /\ vjob.t # t

NameTaken(n, t) == \E u \in Templates \ {t} : Exists(u) /\ rows[u].name = n

\* _get_related_volumes: those on the storage of the template
Related(t) == {v \in Volumes : vols[v].status # "none" /\ vols[v].t = t /\ vols[v].near}

\* A question to the volume service layer, and one to the domain.
AskVolumes(op, t) == vqueue' = Append(vqueue, [op |-> op, t |-> t, live |-> TRUE])
CallDomain(op) ==
  domQ' = Append(domQ, [op |-> op, t |-> T, path |-> rows[T].path, name |-> job.msg.name, live |-> TRUE])

\* The API: requests come while little is queued.
Request(msg) ==
  /\ job = NoJob /\ Len(queue) + Len(vqueue) < MaxQueue
  /\ queue' = Append(queue, msg)
  /\ UNCHANGED <<rows, job, reply, files, domQ, volumeVars, vqueue, clash, fails, crashes>>

ApiCreate == \E n \in Names : Request([op |-> "create", t |-> NoTemplate, name |-> n, live |-> FALSE])
ApiEdit ==
  \E t \in Templates, n \in Names \cup {NoName} :
    Exists(t) /\ Request([op |-> "edit", t |-> t, name |-> n, live |-> FALSE])
ApiDelete ==
  \E t \in Templates : Exists(t) /\ Request([op |-> "delete", t |-> t, name |-> NoName, live |-> FALSE])

TakeMessage ==
  /\ job = NoJob /\ queue # <<>> /\ Head(queue).op # "get"
  /\ job' = [msg |-> Head(queue), pc |-> "start"]
  /\ queue' = Tail(queue)
  /\ UNCHANGED <<rows, reply, files, domQ, volumeVars, vqueue, clash, fails, crashes>>

\* get_template, for the volume service layer: the row as it is, whatever its status.
GetTemplate ==
  /\ job = NoJob /\ queue # <<>> /\ Head(queue).op = "get"
  /\ vreply' = IF ~Head(queue).live THEN vreply
               ELSE IF Exists(Head(queue).t) THEN rows[Head(queue).t].path ELSE Gone
  /\ queue' = Tail(queue)
  /\ UNCHANGED <<rows, job, reply, files, domQ, vols, vjob, late, vqueue, clash, fails, crashes>>

\* The row changed, the cast is published; a process that dies here publishes none.
PublishCast ==
  /\ job.pc = "cast"
  /\ queue' = Append(queue, [job.msg EXCEPT !.op =
       CASE @ = "create" -> "_create" [] @ = "edit" -> "_edit" [] OTHER -> "_delete"])
  /\ Done
  /\ UNCHANGED <<rows, reply, files, domQ, volumeVars, vqueue, clash, fails, crashes>>

-----------------------------------------------------------------------------
(* create_template *)

\* _get_volume_info
CreateStart ==
  /\ At("create", "start")
  /\ AskVolumes("volume", NoTemplate)
  /\ Goto("asked")
  /\ UNCHANGED <<rows, queue, reply, files, domQ, volumeVars, clash, fails, crashes>>

\* No such volume, a machine that runs on it, no storage, or a name that is taken:
\* the request is refused.
CreateInsert ==
  /\ At("create", "asked") /\ reply # "none"
  /\ \/ /\ reply = "ok" /\ ~NameTaken(job.msg.name, NoTemplate)
        /\ \E t \in Templates :
             /\ Fresh(t)
             /\ rows' = [rows EXCEPT ![t] = [status |-> "new", name |-> job.msg.name,
                           path |-> [name |-> job.msg.name, ext |-> TRUE]]]
             /\ job' = [msg |-> [job.msg EXCEPT !.t = t], pc |-> "cast"]
     \/ Done /\ UNCHANGED rows
  /\ reply' = "none"
  /\ UNCHANGED <<queue, files, domQ, volumeVars, vqueue, clash, fails, crashes>>

\* _create_template
CreateCall ==
  /\ At("_create", "start")
  /\ IF Exists(T) THEN SetStatus(T, "creating") /\ CallDomain("create") /\ Goto("domain")
     ELSE Done /\ UNCHANGED <<rows, domQ>>
  /\ UNCHANGED <<queue, reply, files, volumeVars, vqueue, clash, fails, crashes>>

CreateFinish ==
  /\ At("_create", "domain") /\ reply # "none"
  /\ SetStatus(T, IF reply = "ok" THEN "available" ELSE "error")
  /\ reply' = "none"
  /\ Done
  /\ UNCHANGED <<queue, files, domQ, volumeVars, vqueue, clash, fails, crashes>>

-----------------------------------------------------------------------------
(* edit_template and delete_template, whose checks are the same *)

\* The row, then the volumes of the template.
AskRelated ==
  /\ job.msg.op \in {"edit", "delete", "_edit", "_delete"} /\ job.pc = "start"
  /\ IF Exists(T) THEN AskVolumes("volumes", T) /\ Goto("asked") ELSE Done /\ UNCHANGED vqueue
  /\ UNCHANGED <<rows, queue, reply, files, domQ, volumeVars, clash, fails, crashes>>

\* ensure_not_in_use
MayChange == reply = "ok" \/ (reply = "used" /\ T \notin Backing)

\* The status is changed whatever it was.
Check ==
  /\ job.msg.op \in {"edit", "delete"} /\ job.pc = "asked" /\ reply # "none"
  /\ IF MayChange
     THEN SetStatus(T, IF job.msg.op = "edit" THEN "editing" ELSE "deleting") /\ Goto("cast")
     ELSE Done /\ UNCHANGED rows
  /\ reply' = "none"
  /\ UNCHANGED <<queue, files, domQ, volumeVars, vqueue, clash, fails, crashes>>

\* _edit_template and _delete_template: the volumes are asked for again and not
\* looked at; when the question fails the status stays.
ChangeCall ==
  /\ job.msg.op \in {"_edit", "_delete"} /\ job.pc = "asked" /\ reply # "none"
  /\ IF reply \in {"ok", "used"}
     THEN CallDomain(IF job.msg.op = "_edit" THEN "edit" ELSE "delete") /\ Goto("domain")
     ELSE Done /\ UNCHANGED domQ
  /\ reply' = "none"
  /\ UNCHANGED <<rows, queue, files, volumeVars, vqueue, clash, fails, crashes>>

\* _edit_name: the new path has no suffix.
Renamed(path, n) == IF n = NoName THEN path ELSE [name |-> n, ext |-> FALSE]

\* Mutant of Edited: the name is stored, the path is not.
Edited_NameOnly(row, n) ==
  [row EXCEPT !.status = "available", !.name = IF n = NoName THEN @ ELSE n]

\* update_orm_from_dict
Edited(row, n) ==
  [status |-> "available", name |-> IF n = NoName THEN row.name ELSE n, path |-> Renamed(row.path, n)]

\* A name another row has fails the commit, and the template stays editing.
EditFinish ==
  /\ At("_edit", "domain") /\ reply # "none"
  /\ rows' = IF reply # "ok" THEN [rows EXCEPT ![T].status = "error"]
             ELSE IF NameTaken(job.msg.name, T) THEN rows
             ELSE [rows EXCEPT ![T] = Edited(@, job.msg.name)]
  /\ reply' = "none"
  /\ Done
  /\ UNCHANGED <<queue, files, domQ, volumeVars, vqueue, clash, fails, crashes>>

DeleteFinish ==
  /\ At("_delete", "domain") /\ reply # "none"
  /\ rows' = IF reply = "ok" THEN [rows EXCEPT ![T] = NoRow] ELSE [rows EXCEPT ![T].status = "error"]
  /\ reply' = "none"
  /\ Done
  /\ UNCHANGED <<queue, files, domQ, volumeVars, vqueue, clash, fails, crashes>>

-----------------------------------------------------------------------------
(* The domain process: Qcow2Template. *)

Asked == Head(domQ)
Target == Renamed(Asked.path, Asked.name)

\* Why a request is refused: the file is there already, or is not there.
Refused == IF Asked.op = "create" THEN files[Asked.path] # NoTemplate ELSE files[Asked.path] = NoTemplate

\* create_copy, rename, which takes the place of a file that is there, or unlink.
FilesAfter ==
  CASE Asked.op = "create" -> [files EXCEPT ![Asked.path] = Asked.t]
    [] Asked.op = "edit" -> [files EXCEPT ![Asked.path] = NoTemplate, ![Target] = files[Asked.path]]
    [] Asked.op = "delete" -> [files EXCEPT ![Asked.path] = NoTemplate]

Clashes ==
  /\ Asked.op = "edit"
  /\ NameTaken(Asked.name, Asked.t) \/ (Target # Asked.path /\ files[Target] # NoTemplate)

Answer(answer) ==
  /\ reply' = IF Asked.live THEN answer ELSE reply
  /\ domQ' = Tail(domQ)

Work ==
  IF Refused THEN UNCHANGED <<files, clash>>
  ELSE files' = FilesAfter /\ clash' = (clash \/ Clashes)

DomainDoes ==
  /\ domQ # <<>>
  /\ Work
  /\ Answer(IF Refused THEN "err" ELSE "ok")
  /\ UNCHANGED <<rows, queue, job, volumeVars, vqueue, fails, crashes>>

\* The source of a template is gone, or a program fails; a copy may be left behind.
MayFail == fails + crashes < MaxFaults
DomainFails ==
  /\ domQ # <<>> /\ MayFail /\ fails' = fails + 1
  /\ UNCHANGED <<files, clash>> \/ (Asked.op = "create" /\ Work)
  /\ Answer("err")
  /\ UNCHANGED <<rows, queue, job, volumeVars, vqueue, crashes>>

\* The process dies before or after the work: the request is handled again.
DomainCrash ==
  /\ domQ # <<>> /\ MayFail /\ crashes' = crashes + 1
  /\ UNCHANGED <<files, clash>> \/ Work
  /\ UNCHANGED <<templateVars, domQ, volumeVars, vqueue, fails>>

-----------------------------------------------------------------------------
(* The volume service layer, as far as it concerns templates. *)

\* The template is being changed, or will be, without another look at its volumes.
Changing(t) ==
  \/ \E i \in DOMAIN queue : queue[i].t = t /\ queue[i].op \in {"_edit", "_delete"}
  \/ T = t /\ \/ job.msg.op \in {"_edit", "_delete"}
              \/ job.msg.op \in {"edit", "delete"} /\ (job.pc = "cast" \/ reply # "none")
  \/ \E i \in DOMAIN domQ : domQ[i].t = t /\ domQ[i].op \in {"edit", "delete"}

\* create_from_template: the template is asked for.
VolumeCreate(t, near) ==
  /\ vjob = NoVolumeJob /\ vqueue = <<>>
  /\ Exists(t) /\ Len(queue) < MaxQueue
  /\ vjob' = [pc |-> "asked", t |-> t, near |-> near]
  /\ queue' = Append(queue, [op |-> "get", t |-> t, name |-> NoName, live |-> TRUE])
  /\ UNCHANGED <<rows, job, reply, files, domQ, vols, vreply, late, vqueue, clash, fails, crashes>>

\* The row is inserted and the rest cast, or the request is refused: no template, no
\* storage, no space or a name that is taken.
VolumeInsert ==
  /\ vjob.pc = "asked" /\ vreply # NoAnswer
  /\ \/ /\ vreply # Gone
        /\ \E v \in Volumes :
             /\ vols[v] = NoVol
             /\ vols' = [vols EXCEPT ![v] = [status |-> "new", t |-> vjob.t, base |-> vreply,
                                             near |-> vjob.near]]
             /\ late' = IF Changing(vjob.t) \/ rows[vjob.t].path # vreply
                        THEN late \cup {v} ELSE late \ {v}
     \/ UNCHANGED <<vols, late>>
  /\ vjob' = NoVolumeJob /\ vreply' = NoAnswer
  /\ UNCHANGED <<templateVars, files, domQ, vqueue, clash, fails, crashes>>

\* _create_from_template: an error is handled by nobody, the volume stays creating.
VolumeMake ==
  /\ vjob = NoVolumeJob
  /\ \E v \in Volumes :
       /\ vols[v].status = "new"
       /\ vols' = [vols EXCEPT ![v].status = IF files[vols[v].base] = NoTemplate THEN "creating"
                                             ELSE "available"]
  /\ UNCHANGED <<templateVars, files, domQ, vjob, vreply, late, vqueue, clash, fails, crashes>>

\* Volumes are deleted; one that stays creating is found out by the monitoring first.
VolumeDelete ==
  /\ vjob = NoVolumeJob /\ vqueue = <<>>
  /\ \E v \in Volumes :
       /\ vols[v].status \in {"creating", "available"}
       /\ vols' = [vols EXCEPT ![v] = NoVol]
       /\ late' = late \ {v}
  /\ UNCHANGED <<templateVars, files, domQ, vjob, vreply, vqueue, clash, fails, crashes>>

\* Mutant of InUse: only volumes that are ready count.
InUse_Ready(t) == \E v \in Related(t) : vols[v].status = "available"

\* get_all_volumes
InUse(t) == Related(t) # {}

\* get_all_volumes and get_volume, of which there may be none.
VolumesAnswer ==
  /\ vjob = NoVolumeJob /\ vqueue # <<>>
  /\ \E answer \in IF Head(vqueue).op = "volume" THEN {"ok", "err"}
                   ELSE IF InUse(Head(vqueue).t) THEN {"used"} ELSE {"ok"} :
       reply' = IF Head(vqueue).live THEN answer ELSE reply
  /\ vqueue' = Tail(vqueue)
  /\ UNCHANGED <<rows, queue, job, files, domQ, volumeVars, clash, fails, crashes>>

-----------------------------------------------------------------------------
(* Timeouts and crashes. *)

Unheard(q) == [i \in DOMAIN q |-> [q[i] EXCEPT !.live = FALSE]]

\* The time limit of a call to the other service layer runs out.
TemplateExpires ==
  /\ job.pc = "asked" /\ reply = "none"
  /\ reply' = "timeout" /\ vqueue' = Unheard(vqueue)
  /\ UNCHANGED <<rows, queue, job, files, domQ, volumeVars, clash, fails, crashes>>

VolumeExpires ==
  /\ vjob.pc = "asked" /\ vreply = NoAnswer
  /\ vreply' = Gone /\ queue' = Unheard(queue)
  /\ UNCHANGED <<rows, job, reply, files, domQ, vols, vjob, late, vqueue, clash, fails, crashes>>

\* Mutant of Expires: calls have no time limit.
Expires_Never == FALSE /\ UNCHANGED vars

Expires == TemplateExpires \/ VolumeExpires

DomainTimeout ==
  /\ job.pc = "domain" /\ reply = "none"
  /\ MayFail /\ fails' = fails + 1
  /\ reply' = "timeout" /\ domQ' = Unheard(domQ)
  /\ UNCHANGED <<rows, queue, job, files, volumeVars, vqueue, clash, crashes>>

\* The message was not acknowledged and is handled again from its start.
ServiceCrash ==
  /\ job # NoJob
  /\ MayFail /\ crashes' = crashes + 1
  /\ queue' = <<IF job.msg.op = "create" THEN [job.msg EXCEPT !.t = NoTemplate] ELSE job.msg>> \o queue
  /\ Done
  /\ reply' = "none" /\ domQ' = Unheard(domQ) /\ vqueue' = Unheard(vqueue)
  /\ UNCHANGED <<rows, files, volumeVars, clash, fails>>

-----------------------------------------------------------------------------
ApiRequest == ApiCreate \/ ApiEdit \/ ApiDelete
VolumeRequest == VolumeDelete \/ \E t \in Templates, near \in BOOLEAN : VolumeCreate(t, near)

TemplateStep ==
  \/ TakeMessage \/ GetTemplate \/ PublishCast
  \/ CreateStart \/ CreateInsert \/ CreateCall \/ CreateFinish
  \/ AskRelated \/ Check \/ ChangeCall \/ EditFinish \/ DeleteFinish
VolumeStep == VolumeInsert \/ VolumeMake \/ VolumesAnswer

Next ==
  \/ ApiRequest \/ VolumeRequest
  \/ TemplateStep \/ VolumeStep \/ DomainDoes \/ Expires
  \/ DomainFails \/ DomainCrash \/ DomainTimeout \/ ServiceCrash

Spec == Init /\ [][Next]_vars

\* The consumers take what is in their queues, and calls have time limits.
FairSpec ==
  Spec /\ WF_vars(TemplateStep) /\ WF_vars(VolumeStep) /\ WF_vars(DomainDoes) /\ WF_vars(Expires)

-----------------------------------------------------------------------------
(* Properties *)

\* A backed volume finds the bytes of its template where it was made from them:
\* a template is not renamed or deleted under a volume that was in the table of the
\* volume module when the request was handled, in any interleaving with what the
\* volume module does.  Volumes on another storage than the template are not asked
\* for, and those inserted after the question are late.
BaseStays ==
  ~clash =>
    \A v \in Volumes \ late :
      vols[v].status = "available" /\ vols[v].near /\ vols[v].t \in Backing =>
        files[vols[v].base] = vols[v].t

\* Without failures every file belongs to a row, or to the edit in hand that has
\* renamed it: nothing is left behind by creations, edits and deletions, although
\* the two services run into each other's time limits.
NoOrphanFile ==
  fails + crashes = 0 /\ ~clash =>
    \A p \in Paths : files[p] # NoTemplate =>
      \/ \E t \in Templates : Exists(t) /\ rows[t].path = p
      \/ At("_edit", "domain") /\ p = Renamed(rows[T].path, job.msg.name)

\* The service layers may wait for each other, but not for ever.
CallsEnd ==
  /\ []<>(job.pc # "asked")
  /\ []<>(vjob.pc # "asked")
=============================================================================
