---------------------------- MODULE VncManager -----------------------------
(***************************************************************************)
(* VNC sessions: the VNCManager of the virtual_machines domain process.    *)
(* A session is a websockify process on a port of its own.  The manager    *)
(* keeps the pool of ports and the session of each machine in memory; the  *)
(* processes live outside of it: each ends after its first viewer          *)
(* (--run-once), and they may survive the process of the manager, which    *)
(* then looks for them (_restore_state_from_system).                       *)
(*                                                                         *)
(* The domain process has one consumer, so requests are served one after   *)
(* the other; websockify processes end at any moment in between.           *)
(* stop_vnc_session is never reached: LibvirtDriver calls it only for a    *)
(* vnc_session in the data of the request, and nothing puts one there.     *)
(***************************************************************************)
EXTENDS Integers, Sequences

CONSTANTS
  Machines, NoMachine,
  Pids, NoPid,    \* processes a behaviour may start, each once
  FirstPort, LastPort,    \* VNC_WS_PORT_START, VNC_WS_PORT_END
  MaxQueue,       \* bound of the model: requests in the domain queue
  MaxVncFaults    \* bound of the model: failed commands and restarts together

ASSUME VncAssumption ==
  /\ NoMachine \notin Machines /\ NoPid \notin Pids
  /\ {FirstPort, LastPort, MaxQueue, MaxVncFaults} \subseteq Nat
  /\ 0 < FirstPort /\ FirstPort <= LastPort

VARIABLES
  requests,   \* the domain queue: the machine of each vnc request, the head is being served
  ready,      \* the singleton exists
  allocated,  \* _allocated_ports
  sessions,   \* _vm_sessions
  procs,      \* the websockify processes of the host
  vncJob,     \* start_vnc_session
  failures,   \* commands that failed
  restarts    \* of the domain process

vncVars == <<requests, ready, allocated, sessions, procs, vncJob, failures, restarts>>

\* find_free_port_in_range(START, END + 1, ...) takes its end as inclusive ...
Ports == FirstPort..(LastPort + 1)

\* ... extract_port_from_cmdline_by_range is given END.
Recognized == FirstPort..LastPort

NoPort == 0
Sessions == [pid : Pids \cup {NoPid}, ws_port : Ports \cup {NoPort}]
NoSession == [pid |-> NoPid, ws_port |-> NoPort]

Processes == [state : {"unborn", "up", "down"}, port : Ports \cup {NoPort}]

VncJobs == [vm : Machines \cup {NoMachine}, pc : {"idle", "clean", "allocate", "launch", "lookup"},
         port : Ports \cup {NoPort}, pid : Pids \cup {NoPid}]
NoVncJob == [vm |-> NoMachine, pc |-> "idle", port |-> NoPort, pid |-> NoPid]

VncTypeOK ==
  /\ requests \in Seq(Machines)
  /\ ready \in BOOLEAN
  /\ allocated \subseteq Ports
  /\ sessions \in [Machines -> Sessions]
  /\ procs \in [Pids -> Processes]
  /\ vncJob \in VncJobs
  /\ failures \in Nat /\ restarts \in Nat

VncInit ==
  /\ requests = <<>>
  /\ ready = FALSE
  /\ allocated = {}
  /\ sessions = [v \in Machines |-> NoSession]
  /\ procs = [q \in Pids |-> [state |-> "unborn", port |-> NoPort]]
  /\ vncJob = NoVncJob
  /\ failures = 0 /\ restarts = 0

-----------------------------------------------------------------------------

MayFail == failures + restarts < MaxVncFaults

\* psutil.pid_exists
Up(q) == q \in Pids /\ procs[q].state = "up"

\* is_port_free binds to it.
Bound(p) == \E q \in Pids : Up(q) /\ procs[q].port = p

InUse(v) == sessions[v] # NoSession

\* The handler ends, with an answer or an exception, and the request is
\* acknowledged.
VncDone == vncJob' = NoVncJob /\ requests' = Tail(requests)

\* VMServiceLayerManager.vnc calls the domain; an earlier call that timed out
\* may still be in the queue.
Vnc(v) ==
  /\ Len(requests) < MaxQueue
  /\ requests' = Append(requests, v)
  /\ UNCHANGED <<ready, allocated, sessions, procs, vncJob, failures, restarts>>

\* _restore_state_from_system: the ports of running processes are taken, no
\* session is made for them.
Restored == {p \in Recognized : Bound(p)}

\* A LibvirtDriver is made for every request, the manager with the first.
TakeRequest ==
  /\ vncJob = NoVncJob /\ requests # <<>>
  /\ vncJob' = [NoVncJob EXCEPT !.vm = Head(requests), !.pc = "clean"]
  /\ ready' = TRUE
  /\ allocated' = IF ready THEN allocated ELSE Restored
  /\ UNCHANGED <<requests, sessions, procs, failures, restarts>>

\* cleanup_dead_sessions
Dead == {v \in Machines : InUse(v) /\ ~Up(sessions[v].pid)}

\* The ports that the sessions of the machines in S give back.
PortsOf(S) == {sessions[v].ws_port : v \in {w \in S : InUse(w)}}

Drop(S) ==
  /\ sessions' = [v \in Machines |-> IF v \in S THEN NoSession ELSE sessions[v]]
  /\ allocated' = allocated \ PortsOf(S)

Killed(q) == [procs EXCEPT ![q].state = "down"]

\* Mutant of CleanUp: the process of the old session is left running.
CleanUp_NoKill ==
  /\ vncJob.pc = "clean"
  /\ Drop(Dead \cup {vncJob.vm})
  /\ vncJob' = [vncJob EXCEPT !.pc = "allocate"]
  /\ UNCHANGED <<requests, procs, failures>>
  /\ UNCHANGED <<ready, restarts>>

\* cleanup_dead_sessions and _cleanup_existing_session_resources: the session of
\* the machine is dropped also when its process could not be killed; a process
\* that outlives SIGKILL by two seconds ends the request, with the session kept.
CleanUp ==
  /\ vncJob.pc = "clean"
  /\ LET own == sessions[vncJob.vm].pid IN
       \/ /\ Drop(Dead \cup {vncJob.vm})
          /\ procs' = IF Up(own) THEN Killed(own) ELSE procs
          /\ vncJob' = [vncJob EXCEPT !.pc = "allocate"]
          /\ UNCHANGED <<requests, failures>>
       \/ /\ Up(own) /\ MayFail
          /\ failures' = failures + 1
          /\ \/ Drop(Dead \cup {vncJob.vm}) /\ vncJob' = [vncJob EXCEPT !.pc = "allocate"]
                /\ UNCHANGED requests
             \/ Drop(Dead) /\ VncDone
          /\ UNCHANGED procs
  /\ UNCHANGED <<ready, restarts>>

\* Mutant of FreePorts: only the system is asked.
FreePorts_SystemOnly == {p \in Ports : ~Bound(p)}

\* find_free_port_in_range
FreePorts == {p \in Ports : p \notin allocated /\ ~Bound(p)}

\* The lowest free port, or VncPortAllocationError.
Allocate ==
  /\ vncJob.pc = "allocate"
  /\ \/ \E p \in FreePorts :
          /\ \A other \in FreePorts : p <= other
          /\ allocated' = allocated \cup {p}
          /\ vncJob' = [vncJob EXCEPT !.pc = "launch", !.port = p]
          /\ UNCHANGED requests
     \/ /\ FreePorts = {}
        /\ VncDone
        /\ UNCHANGED allocated
  /\ UNCHANGED <<ready, sessions, procs, failures, restarts>>

\* Mutant of GiveBack: the exception is passed on with the port still taken.
GiveBack_Forgotten == allocated' = allocated /\ VncDone

\* The except branches of start_vnc_session.
GiveBack == allocated' = allocated \ {vncJob.port} /\ VncDone

\* start_websockify_process: the parent returns when the daemon listens, or
\* fails, as it does on a port another program has bound meanwhile.
Launch ==
  /\ vncJob.pc = "launch"
  /\ \/ \E q \in Pids :
          /\ procs[q].state = "unborn" /\ ~Bound(vncJob.port)
          /\ procs' = [procs EXCEPT ![q] = [state |-> "up", port |-> vncJob.port]]
          /\ vncJob' = [vncJob EXCEPT !.pc = "lookup", !.pid = q]
          /\ UNCHANGED <<requests, allocated, failures>>
     \/ /\ MayFail /\ failures' = failures + 1
        /\ GiveBack
        /\ UNCHANGED procs
  /\ UNCHANGED <<ready, sessions, restarts>>

\* find_process_id_by_port: lsof names the process, unless it has ended already
\* or lsof fails; then the port is given back and the process keeps running.
Lookup ==
  /\ vncJob.pc = "lookup"
  /\ \/ /\ Up(vncJob.pid)
        /\ sessions' = [sessions EXCEPT ![vncJob.vm] = [pid |-> vncJob.pid, ws_port |-> vncJob.port]]
        /\ VncDone
        /\ UNCHANGED <<allocated, failures>>
     \/ /\ IF Up(vncJob.pid) THEN MayFail /\ failures' = failures + 1 ELSE UNCHANGED failures
        /\ GiveBack
        /\ UNCHANGED sessions
  /\ UNCHANGED <<ready, procs, restarts>>

\* The viewer has gone, or the process is ended from outside.
ProcessEnds(q) ==
  /\ Up(q)
  /\ procs' = Killed(q)
  /\ UNCHANGED <<requests, ready, allocated, sessions, vncJob, failures, restarts>>

\* The domain process dies and is started again; the request it was serving is
\* delivered once more.  The websockify processes live on, or die with it.
Restart ==
  /\ MayFail
  /\ restarts' = restarts + 1
  /\ ready' = FALSE
  /\ allocated' = {}
  /\ sessions' = [v \in Machines |-> NoSession]
  /\ vncJob' = NoVncJob
  /\ \E S \in SUBSET {q \in Pids : Up(q)} :
       procs' = [q \in Pids |-> IF q \in S THEN [procs[q] EXCEPT !.state = "down"] ELSE procs[q]]
  /\ UNCHANGED <<requests, failures>>

VncNext ==
  \/ \E v \in Machines : Vnc(v)
  \/ TakeRequest \/ CleanUp \/ Allocate \/ Launch \/ Lookup
  \/ (\E q \in Pids : ProcessEnds(q))
  \/ Restart

VncSpec == VncInit /\ [][VncNext]_vncVars

-----------------------------------------------------------------------------
(* Properties *)

\* Two machines never share a port or a process, and the process of a session
\* listens on the port the session names: whatever ends, fails or restarts while
\* a request is served.
SessionsApart ==
  \A v \in Machines : InUse(v) =>
    /\ sessions[v].ws_port \in allocated
    /\ procs[sessions[v].pid].port = sessions[v].ws_port
    /\ \A w \in Machines \ {v} : InUse(w) =>
         sessions[v].ws_port # sessions[w].ws_port /\ sessions[v].pid # sessions[w].pid

\* No port is lost from the pool: until the process restarts, every port that is
\* taken belongs to a session or to the request being served, however commands
\* fail, so VncPortAllocationError means that many sessions.
NoPortLost ==
  restarts = 0 =>
    allocated \subseteq PortsOf(Machines) \cup (IF vncJob.pc \in {"launch", "lookup"} THEN {vncJob.port} ELSE {})

\* As long as no command fails and the process lives, every websockify process
\* is the one of a session, so it is ended by the next request of its machine.
NoOrphanProcess ==
  failures = 0 /\ restarts = 0 =>
    \A q \in Pids : Up(q) => (\E v \in Machines : sessions[v].pid = q) \/ (vncJob.pc = "lookup" /\ vncJob.pid = q)
=============================================================================
