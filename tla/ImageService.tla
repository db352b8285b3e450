---------------------------- MODULE ImageService ----------------------------
(***************************************************************************)
(* The image module.  An uploaded file passes through four hands: the API  *)
(* process writes it to the temporary directory under the name the user    *)
(* gave it, the service layer records it and casts the rest to itself, the *)
(* domain process converts the temporary file into the image file on a     *)
(* storage, and the service layer removes the temporary file.  The name is *)
(* all that ties the temporary file to its upload.                         *)
(*                                                                         *)
(* The conversion is one step here; an upload of the same name that begins *)
(* during it is one that begins before or after it.                        *)
(***************************************************************************)
EXTENDS Integers, Sequences, FiniteSets, SequencesExt

CONSTANTS
  Images,     \* ids a behaviour may use, each by one upload
  Names,      \* image names
  VMs,        \* machines images are attached to
  NoImage, NoName, NoVM,
  MaxAttach,  \* bound of the model: attachments of an image to one machine
  MaxFaults   \* bound of the model: failures, timeouts and crashes together

ASSUME ImageAssumption ==
  /\ NoImage \notin Images /\ NoName \notin Names /\ NoVM \notin VMs
  /\ MaxAttach \in Nat /\ MaxFaults \in Nat

VARIABLES
  uploads,  \* the upload handlers of the API process
  tmp,      \* the temporary directory
  rows,     \* the images table with the attachments of each row
  files,    \* image -> the uploads whose bytes are in its file
  casts,    \* casts waiting in the service queue, oldest first
  job,      \* the handler the service layer is in
  reply,    \* the domain's answer to it
  domQ,     \* the domain queue, oldest first
  mon,      \* the monitoring thread
  faults,   \* failures, timeouts and crashes so far
  mixed     \* history: uploads that shared their temporary file with another

vars == <<uploads, tmp, rows, files, casts, job, reply, domQ, mon, faults, mixed>>

apiVars == <<uploads, mixed>>
svcVars == <<casts, job, reply>>

\* ImageStatus, and "none" before the insert, "deleted" after the delete.
ImageStatus == {"new", "uploading", "available", "error", "deleting"}
\* storage_type, empty until a storage was found for the image
StorageTypes == {"", "nfs", "localfs"}

Uploads == [pc : {"idle", "writing", "written", "done"}, name : Names \cup {NoName}]
\* in: uploads whose bytes the file has or may have, open: those still writing to it
TmpFiles == [in : SUBSET Images, open : SUBSET Images]
NoFile == [in |-> {}, open |-> {}]

\* Attachments are counted by machine.
Attachments == [VMs -> 0..MaxAttach]

Rows == [status : ImageStatus \cup {"none", "deleted"}, name : Names \cup {NoName},
         type : StorageTypes, att : Attachments]
NoRow == [status |-> "none", name |-> NoName, type |-> "", att |-> [v \in VMs |-> 0]]

\* saw: the status _create_image loaded
Jobs == [op : {"none", "upload_image", "_create_image", "delete_image", "_delete_image",
               "attach_image"},
         img : Images \cup {NoImage}, vm : VMs \cup {NoVM},
         saw : ImageStatus \cup {"none"},
         pc : {"idle", "start", "cast", "upload", "delete_from_tmp", "finish", "domain", "ack"}]
NoJob == [op |-> "none", img |-> NoImage, vm |-> NoVM, saw |-> "none", pc |-> "idle"]
Job(op, i, pc) == [NoJob EXCEPT !.op = op, !.img = i, !.pc = pc]

Requests == [op : {"upload", "delete", "delete_from_tmp", "attach_image_info"},
             img : Images, type : StorageTypes, owner : {"svc", "mon", "none"}]

\* todo: the images still to look at, as read; good: those found available.
Monitors == [pc : {"idle", "loaded", "loop", "asked", "dead"}, todo : SUBSET Images,
             good : SUBSET Images, cur : Images \cup {NoImage}, storage : BOOLEAN,
             reply : {"none", "ok", "err"}]
IdleMonitor == [pc |-> "idle", todo |-> {}, good |-> {}, cur |-> NoImage,
                storage |-> FALSE, reply |-> "none"]

TypeOK ==
  /\ uploads \in [Images -> Uploads]
  /\ tmp \in [Names -> TmpFiles]
  /\ rows \in [Images -> Rows]
  /\ files \in [Images -> SUBSET (Images \cup {NoImage})]
  /\ casts \in Seq(Jobs) /\ job \in Jobs
  /\ reply \in {"none", "ok", "err", "timeout"}
  /\ domQ \in Seq(Requests)
  /\ mon \in Monitors
  /\ faults \in 0..MaxFaults
  /\ mixed \subseteq Images

\* The objects of __init__: nothing is kept between requests but the table.
Init ==
  /\ uploads = [i \in Images |-> [pc |-> "idle", name |-> NoName]]
  /\ tmp = [n \in Names |-> NoFile]
  /\ rows = [i \in Images |-> NoRow]
  /\ files = [i \in Images |-> {}]
  /\ casts = <<>> /\ job = NoJob /\ reply = "none" /\ domQ = <<>>
  /\ mon = IdleMonitor
  /\ faults = 0
  /\ mixed = {}

-----------------------------------------------------------------------------
(* The pieces of the handlers. *)

Exists(i) == rows[i].status \notin {"none", "deleted"}
SetStatus(i, s) == rows' = [rows EXCEPT ![i].status = s]

\* An API request is taken when the consumer is free and no cast, which has
\* priority, waits.
Free == job = NoJob /\ casts = <<>>

\* The handler ends.  A cast is still to be acknowledged.
Ended == IF job.op \in {"_create_image", "_delete_image"} THEN [job EXCEPT !.pc = "ack"] ELSE NoJob
Done == job' = Ended

At(op, pc) == job.op = op /\ job.pc = pc

Fault == faults < MaxFaults /\ faults' = faults + 1

TakeCast ==
  /\ job = NoJob /\ casts # <<>>
  /\ job' = Head(casts)
  /\ casts' = Tail(casts)
  /\ UNCHANGED <<apiVars, tmp, rows, files, reply, domQ, mon, faults>>

AckCast ==
  /\ job.pc = "ack"
  /\ job' = NoJob
  /\ UNCHANGED <<apiVars, tmp, rows, files, casts, reply, domQ, mon, faults>>

\* upload_image and delete_image commit first and cast afterwards.
PublishCast ==
  /\ job.pc = "cast"
  /\ casts' = Append(casts,
       Job(IF job.op = "upload_image" THEN "_create_image" ELSE "_delete_image",
           job.img, "start"))
  /\ job' = NoJob
  /\ UNCHANGED <<apiVars, tmp, rows, files, reply, domQ, mon, faults>>

Call(op, i, type, owner) ==
  domQ' = Append(domQ, [op |-> op, img |-> i, type |-> type, owner |-> owner])

-----------------------------------------------------------------------------
(* The upload handler of the API process, one coroutine per upload. *)

\* An upload that still needs the temporary file of its name.
Pending(i) ==
  \/ uploads[i].pc \in {"writing", "written"}
  \/ rows[i].status \in {"new", "uploading"}

\* The file is opened and truncated, whoever else is using it.
OpenTmp(i, n) ==
  /\ uploads[i].pc = "idle"
  /\ uploads' = [uploads EXCEPT ![i] = [pc |-> "writing", name |-> n]]
  /\ tmp' = [tmp EXCEPT ![n] = [in |-> {i}, open |-> @.open \cup {i}]]
  /\ LET others == {j \in Images \ {i} : Pending(j) /\ uploads[j].name = n} IN
     mixed' = mixed \cup (IF others = {} THEN {} ELSE others \cup {i})
  /\ UNCHANGED <<rows, files, svcVars, domQ, mon, faults>>

\* The last chunk is written, to a file that may have been unlinked by then.
CloseTmp(i) ==
  /\ uploads[i].pc = "writing"
  /\ uploads' = [uploads EXCEPT ![i].pc = "written"]
  /\ LET n == uploads[i].name IN
     tmp' = IF i \in tmp[n].open
            THEN [tmp EXCEPT ![n] = [in |-> @.in \cup {i}, open |-> @.open \ {i}]] ELSE tmp
  /\ UNCHANGED <<rows, files, svcVars, domQ, mon, faults, mixed>>

-----------------------------------------------------------------------------
(* upload_image *)

\* _prepare_image_data: stat raises when the file is gone.
TmpExists(n) == tmp[n] # NoFile

\* _delete_image_from_tmp
Unlinked(n) == [tmp EXCEPT ![n] = NoFile]

\* images.get_by_name
NameTaken(n) == \E i \in Images : Exists(i) /\ rows[i].name = n

\* Mutant of UploadImage: the temporary file is removed when the call ends.
UploadImage_Cleans(i) ==
  /\ Free
  /\ uploads[i].pc = "written"
  /\ uploads' = [uploads EXCEPT ![i].pc = "done"]
  /\ LET n == uploads[i].name IN
     /\ tmp' = Unlinked(n)
     /\ IF ~TmpExists(n) \/ NameTaken(n) THEN UNCHANGED <<rows, job>>
        ELSE /\ rows' = [rows EXCEPT ![i] = [NoRow EXCEPT !.status = "new", !.name = n]]
             /\ job' = Job("upload_image", i, "cast")
  /\ UNCHANGED <<files, casts, reply, domQ, mon, faults, mixed>>

\* The coroutine's call: a name that is taken costs the temporary file of that
\* name, whose ever it is.
UploadImage(i) ==
  /\ Free
  /\ uploads[i].pc = "written"
  /\ uploads' = [uploads EXCEPT ![i].pc = "done"]
  /\ LET n == uploads[i].name IN
     CASE ~TmpExists(n) -> UNCHANGED <<tmp, rows, job>>
       [] TmpExists(n) /\ NameTaken(n) -> tmp' = Unlinked(n) /\ UNCHANGED <<rows, job>>
       [] OTHER -> /\ rows' = [rows EXCEPT ![i] = [NoRow EXCEPT !.status = "new", !.name = n]]
                   /\ job' = Job("upload_image", i, "cast")
                   /\ UNCHANGED tmp
  /\ UNCHANGED <<files, casts, reply, domQ, mon, faults, mixed>>

\* _get_storage_info and the two checks that follow: a call that fails counts as
\* a storage that is not available, a full one as well.
StorageAnswers == {"available", "unavailable", "full"}

\* _create_image up to its first domain call: the upload, after its commit, or
\* the removal of the temporary file by a handler of exceptions.
CreateStart ==
  /\ At("_create_image", "start")
  /\ LET i == job.img IN
     IF ~Exists(i) THEN Done /\ UNCHANGED <<rows, domQ>>
     ELSE \E answer \in StorageAnswers, type \in StorageTypes \ {""} :
       IF rows[i].status = "new" /\ answer = "available"
       THEN /\ rows' = [rows EXCEPT ![i].status = "uploading", ![i].type = type]
            /\ Call("upload", i, type, "svc")
            /\ job' = [job EXCEPT !.pc = "upload", !.saw = "uploading"]
       ELSE /\ Call("delete_from_tmp", i, rows[i].type, "svc")
            /\ job' = [job EXCEPT !.pc = "delete_from_tmp", !.saw = rows[i].status]
            /\ UNCHANGED rows
  /\ UNCHANGED <<apiVars, tmp, files, casts, reply, mon, faults>>

\* _handle_create_image_rpc_exceptions, _call_domain_delete_from_tmp: when the
\* upload failed or took longer than its 360 seconds.
CreateUploaded ==
  /\ At("_create_image", "upload") /\ reply # "none"
  /\ IF reply = "ok" THEN job' = [job EXCEPT !.pc = "finish"] /\ UNCHANGED domQ
     ELSE /\ Call("delete_from_tmp", job.img, rows[job.img].type, "svc")
          /\ job' = [job EXCEPT !.pc = "delete_from_tmp"]
  /\ reply' = "none"
  /\ UNCHANGED <<apiVars, tmp, rows, files, casts, mon, faults>>

\* Whatever comes of that call, the handler goes on to its `finally`.
CreateCleaned ==
  /\ At("_create_image", "delete_from_tmp") /\ reply # "none"
  /\ job' = [job EXCEPT !.pc = "finish"]
  /\ reply' = "none"
  /\ UNCHANGED <<apiVars, tmp, rows, files, casts, domQ, mon, faults>>

\* `finally`: the status becomes available, also after a failure; a session
\* writes a column only if it differs from what was loaded.
CreateFinish ==
  /\ At("_create_image", "finish")
  /\ tmp' = Unlinked(rows[job.img].name)
  /\ IF job.saw = "available" THEN UNCHANGED rows ELSE SetStatus(job.img, "available")
  /\ Done
  /\ UNCHANGED <<apiVars, files, casts, reply, domQ, mon, faults>>

-----------------------------------------------------------------------------
(* delete_image *)

\* _check_image_has_not_attachment
HasAttachment(i) == \E v \in VMs : rows[i].att[v] > 0

\* Mutant of Deletable: the attachments are not looked at.
Deletable_Attached(i) == rows[i].status \in {"available", "error"}

\* _check_image_status and _check_image_has_not_attachment
Deletable(i) == rows[i].status \in {"available", "error"} /\ ~HasAttachment(i)

\* Refused, the image is left in error, whatever another handler is doing to it.
DeleteImage(i) ==
  /\ Free
  /\ Exists(i)
  /\ IF Deletable(i)
     THEN SetStatus(i, "deleting") /\ job' = Job("delete_image", i, "cast")
     ELSE SetStatus(i, "error") /\ UNCHANGED job
  /\ UNCHANGED <<apiVars, tmp, files, casts, reply, domQ, mon, faults>>

\* session.delete and the commit
RowDeleted(i) == SetStatus(i, "deleted")

\* An image that never had a storage has no file to delete.
DeleteStart ==
  /\ At("_delete_image", "start")
  /\ LET i == job.img IN
     CASE ~Exists(i) -> Done /\ UNCHANGED <<rows, domQ>>
       [] Exists(i) /\ rows[i].type = "" -> RowDeleted(i) /\ Done /\ UNCHANGED domQ
       [] OTHER -> /\ Call("delete", i, rows[i].type, "svc")
                   /\ job' = [job EXCEPT !.pc = "domain"]
                   /\ UNCHANGED rows
  /\ UNCHANGED <<apiVars, tmp, files, casts, reply, mon, faults>>

\* Mutant of DeleteFinish: the row goes whatever the domain said.
DeleteFinish_Anyway ==
  /\ At("_delete_image", "domain") /\ reply # "none"
  /\ RowDeleted(job.img)
  /\ reply' = "none"
  /\ Done
  /\ UNCHANGED <<apiVars, tmp, files, casts, domQ, mon, faults>>

DeleteFinish ==
  /\ At("_delete_image", "domain") /\ reply # "none"
  /\ IF reply = "ok" THEN RowDeleted(job.img) ELSE SetStatus(job.img, "error")
  /\ reply' = "none"
  /\ Done
  /\ UNCHANGED <<apiVars, tmp, files, casts, domQ, mon, faults>>

-----------------------------------------------------------------------------
(* attach_image, detach_image *)

\* The check against a second attachment to the same machine compares a UUID
\* with a string and never holds.
AttachImage(i, v) ==
  /\ Free
  /\ rows[i].status = "available"
  /\ rows[i].att[v] < MaxAttach
  /\ Call("attach_image_info", i, rows[i].type, "svc")
  /\ job' = [Job("attach_image", i, "domain") EXCEPT !.vm = v]
  /\ UNCHANGED <<apiVars, tmp, rows, files, casts, reply, mon, faults>>

\* Without an answer nothing is committed.  The status was available when it was
\* loaded and is not written.
AttachFinish ==
  /\ At("attach_image", "domain") /\ reply # "none"
  /\ rows' = IF reply = "ok" THEN [rows EXCEPT ![job.img].att[job.vm] = @ + 1] ELSE rows
  /\ reply' = "none"
  /\ Done
  /\ UNCHANGED <<apiVars, tmp, files, casts, domQ, mon, faults>>

\* How many of a machine's attachments are left: the list is changed while it is
\* iterated, so that every other one in a row stays.
Left(i, v) ==
  IF \A w \in VMs \ {v} : rows[i].att[w] = 0
  THEN {rows[i].att[v] \div 2} ELSE 0..(rows[i].att[v] \div 2)

DetachImage(i, v) ==
  /\ Free
  /\ Exists(i)
  /\ IF rows[i].status \in {"available", "error"}
     THEN \E n \in Left(i, v) : rows' = [rows EXCEPT ![i].att[v] = n]
     ELSE SetStatus(i, "error")
  /\ UNCHANGED <<apiVars, tmp, files, svcVars, domQ, mon, faults>>

-----------------------------------------------------------------------------
(* The domain process: LocalFSImage and NfsImage. *)

\* ImageFactory.get_image: a request without a storage type raises.
HasClass(r) == r.type # ""

\* What the conversion of the temporary file makes of the image file.
Converted(r) == LET t == tmp[rows[r.img].name] IN t.in \cup t.open

\* qemu-img convert needs its source.
UploadOk(r) == r.op = "upload" /\ HasClass(r) /\ TmpExists(rows[r.img].name)

\* rm -f; the local class looks first whether the file is there.
DeleteOk(r) == r.op = "delete" /\ HasClass(r) /\ (files[r.img] # {} \/ r.type = "nfs")

InfoOk(r) == r.op = "attach_image_info" /\ HasClass(r) /\ files[r.img] # {}

CleanOk(r) == r.op = "delete_from_tmp" /\ HasClass(r)

CanSucceed(r) == UploadOk(r) \/ DeleteOk(r) \/ InfoOk(r) \/ CleanOk(r)

\* The name in a request is the one its row had.
FilesAfter(r) ==
  CASE r.op = "upload" -> [files EXCEPT ![r.img] = Converted(r)]
    [] r.op = "delete" -> [files EXCEPT ![r.img] = {}]
    [] OTHER -> files
TmpAfter(r) == IF r.op = "delete_from_tmp" THEN Unlinked(rows[r.img].name) ELSE tmp

Answered(r, answer) ==
  /\ reply' = IF r.owner = "svc" THEN answer ELSE reply
  /\ mon' = IF r.owner = "mon" THEN [mon EXCEPT !.reply = answer] ELSE mon

DomainExecute ==
  /\ domQ # <<>>
  /\ LET r == Head(domQ) IN
     IF CanSucceed(r)
     THEN files' = FilesAfter(r) /\ tmp' = TmpAfter(r) /\ Answered(r, "ok")
     ELSE UNCHANGED <<files, tmp>> /\ Answered(r, "err")
  /\ domQ' = Tail(domQ)
  /\ UNCHANGED <<apiVars, rows, casts, job, faults>>

\* A command fails; a conversion may leave a part of the file behind.
DomainFails ==
  /\ domQ # <<>> /\ CanSucceed(Head(domQ))
  /\ Fault
  /\ LET r == Head(domQ) IN
     /\ files' \in {files} \cup
          (IF r.op = "upload" THEN {[files EXCEPT ![r.img] = {NoImage}]} ELSE {})
     /\ Answered(r, "err")
  /\ domQ' = Tail(domQ)
  /\ UNCHANGED <<apiVars, tmp, rows, casts, job>>

\* The process dies after the command and before the acknowledgement.
DomainCrash ==
  /\ domQ # <<>> /\ CanSucceed(Head(domQ))
  /\ Fault
  /\ files' = FilesAfter(Head(domQ)) /\ tmp' = TmpAfter(Head(domQ))
  /\ UNCHANGED <<apiVars, rows, svcVars, domQ, mon>>

Disowned(owners) ==
  [k \in DOMAIN domQ |-> IF domQ[k].owner \in owners
                         THEN [domQ[k] EXCEPT !.owner = "none"] ELSE domQ[k]]

\* The wait ends without an answer; the request stays in the domain queue.
ServiceTimeout ==
  /\ job.pc \in {"upload", "delete_from_tmp", "domain"} /\ reply = "none"
  /\ Fault
  /\ reply' = "timeout"
  /\ domQ' = Disowned({"svc"})
  /\ UNCHANGED <<apiVars, tmp, rows, files, casts, job, mon>>

\* The service process dies: an unacknowledged cast starts over, an API request
\* is lost, a new monitoring thread starts.
ServiceCrash ==
  /\ job # NoJob
  /\ Fault
  /\ casts' = IF job.op \in {"_create_image", "_delete_image"}
              THEN <<Job(job.op, job.img, "start")>> \o casts ELSE casts
  /\ job' = NoJob
  /\ reply' = "none"
  /\ domQ' = Disowned({"svc", "mon"})
  /\ mon' = IdleMonitor
  /\ UNCHANGED <<apiVars, tmp, rows, files>>

-----------------------------------------------------------------------------
(* monitoring, every 10 seconds in its own thread *)

\* _get_domain_images, and the statuses it goes on with
MonitorLoad ==
  /\ mon.pc = "idle"
  /\ \E i \in Images : Exists(i)
  /\ mon' = [mon EXCEPT !.pc = "loaded",
                        !.todo = {i \in Images : rows[i].status \in {"available", "error"}}]
  /\ UNCHANGED <<apiVars, tmp, rows, files, svcVars, domQ, faults>>

\* _get_all_storages_info: a failed call is an empty list, and the lookup of the
\* storage of the first image then ends the thread with a KeyError.
MonitorStorages ==
  /\ mon.pc = "loaded"
  /\ \/ /\ \E up \in BOOLEAN : mon' = [mon EXCEPT !.pc = "loop", !.storage = up]
        /\ UNCHANGED faults
     \/ /\ Fault
        /\ mon' = IF mon.todo = {} THEN IdleMonitor ELSE [IdleMonitor EXCEPT !.pc = "dead"]
  /\ UNCHANGED <<apiVars, tmp, rows, files, svcVars, domQ>>

\* Mutant of Marked: the error is only logged.
Marked_OnlyLogged(i) ==
  /\ mon' = [mon EXCEPT !.pc = "loop", !.todo = @ \ {i}, !.cur = NoImage, !.reply = "none"]
  /\ UNCHANGED rows

\* _handle_monitoring_error writes at once; the row must still be there.
Marked(i) ==
  IF Exists(i)
  THEN /\ SetStatus(i, "error")
       /\ mon' = [mon EXCEPT !.pc = "loop", !.todo = @ \ {i}, !.cur = NoImage, !.reply = "none"]
  ELSE mon' = [IdleMonitor EXCEPT !.pc = "dead"] /\ UNCHANGED rows

\* The next image: its storage is not available, or the domain is asked.
MonitorNext ==
  /\ mon.pc = "loop"
  /\ \E i \in mon.todo :
       IF mon.storage
       THEN /\ Call("attach_image_info", i, rows[i].type, "mon")
            /\ mon' = [mon EXCEPT !.pc = "asked", !.cur = i]
            /\ UNCHANGED rows
       ELSE Marked(i) /\ UNCHANGED domQ
  /\ UNCHANGED <<apiVars, tmp, files, svcVars, faults>>

\* _update_image_info
MonitorAnswer ==
  /\ mon.pc = "asked" /\ mon.reply # "none"
  /\ IF mon.reply = "ok"
     THEN /\ mon' = [mon EXCEPT !.pc = "loop", !.todo = @ \ {mon.cur}, !.good = @ \cup {mon.cur},
                                !.cur = NoImage, !.reply = "none"]
          /\ UNCHANGED rows
     ELSE Marked(mon.cur)
  /\ UNCHANGED <<apiVars, tmp, files, svcVars, domQ, faults>>

\* The domain takes too long; that is an error of the image as well.
MonitorTimeout ==
  /\ mon.pc = "asked" /\ mon.reply = "none"
  /\ Fault
  /\ Marked(mon.cur)
  /\ domQ' = Disowned({"mon"})
  /\ UNCHANGED <<apiVars, tmp, files, svcVars>>

\* _update_images_in_db at the end of the pass: one statement for all rows, which
\* raises StaleDataError when one is gone.
MonitorWrite ==
  /\ mon.pc = "loop" /\ mon.todo = {}
  /\ IF \A i \in mon.good : Exists(i)
     THEN /\ rows' = [i \in Images |-> IF i \in mon.good
                                       THEN [rows[i] EXCEPT !.status = "available"] ELSE rows[i]]
          /\ mon' = IdleMonitor
     ELSE mon' = [IdleMonitor EXCEPT !.pc = "dead"] /\ UNCHANGED rows
  /\ UNCHANGED <<apiVars, tmp, files, svcVars, domQ, faults>>

-----------------------------------------------------------------------------
ApiUpload(i) == (\E n \in Names : OpenTmp(i, n)) \/ CloseTmp(i) \/ UploadImage(i)
ApiAttach(i) == \E v \in VMs : AttachImage(i, v)
ApiDetach(i) == \E v \in VMs : DetachImage(i, v)
ApiRequest == \E i \in Images : ApiUpload(i) \/ DeleteImage(i) \/ ApiAttach(i) \/ ApiDetach(i)

HandlerStep ==
  \/ TakeCast \/ AckCast \/ PublishCast
  \/ CreateStart \/ CreateUploaded \/ CreateCleaned \/ CreateFinish
  \/ DeleteStart \/ DeleteFinish \/ AttachFinish

MonitorStep == MonitorLoad \/ MonitorStorages \/ MonitorNext \/ MonitorAnswer \/ MonitorWrite

Next ==
  \/ ApiRequest \/ HandlerStep \/ MonitorStep \/ MonitorTimeout
  \/ DomainExecute \/ DomainFails \/ DomainCrash \/ ServiceTimeout \/ ServiceCrash

Spec == Init /\ [][Next]_vars

\* The consumers take what is in their queues, the thread runs every 10 seconds.
FairSpec == Spec /\ WF_vars(HandlerStep) /\ WF_vars(MonitorStep) /\ WF_vars(DomainExecute)

-----------------------------------------------------------------------------
(* Properties *)

\* The image has a deletion ahead.
BeingDeleted(i) ==
  \/ job.op \in {"delete_image", "_delete_image"} /\ job.img = i
  \/ \E k \in DOMAIN casts : casts[k].op = "_delete_image" /\ casts[k].img = i

\* An image for which a storage was found, and that is available again, has
\* exactly the bytes that were uploaded for it, unless another upload of the same
\* name overlapped with it or something failed: the temporary file of a name
\* reaches the right image, whatever earlier users of the name leave or remove.
UploadArrives ==
  faults = 0 =>
    \A i \in Images \ mixed :
      ~BeingDeleted(i) /\ rows[i].status = "available" /\ rows[i].type # "" => files[i] = {i}

\* An image attached to a machine keeps its file, although the monitoring may
\* make available what is being deleted, and requests that timed out come late.
AttachedHasFile == \A i \in Images : HasAttachment(i) => files[i] # {}

\* A deleted image leaves no file on its storage, and no conversion that is still
\* to come makes one, however often its handlers timed out or were redelivered.
DeletedLeavesNoFile ==
  \A i \in Images : rows[i].status = "deleted" =>
    /\ files[i] = {}
    /\ \A k \in DOMAIN domQ : ~(domQ[k].op = "upload" /\ domQ[k].img = i)

\* What is called available and has no file comes to be called otherwise, or gets
\* its file, as long as the thread lives: a failed upload is available at first.
MissingShows ==
  \A i \in Images :
    rows[i].status = "available" /\ files[i] = {} ~>
      (rows[i].status # "available" \/ files[i] # {} \/ mon.pc = "dead")
=============================================================================
