---------------------------- MODULE HostNetwork -----------------------------
(***************************************************************************)
(* The domain process of the network module and the network of the host it *)
(* works on: OVSInterface, which runs ovs-vsctl and ip one command after   *)
(* the other, and NetplanInterface, which rewrites the files of netplan    *)
(* and applies them.                                                       *)
(*                                                                         *)
(* A bridge that takes the port with the default route takes the address   *)
(* of the host with it.  Between the commands the host has no address, and *)
(* the next command may fail.                                              *)
(***************************************************************************)
EXTENDS Integers, Sequences, FiniteSets, SequencesExt

CONSTANTS
  Ports,     \* the physical interfaces
  Main,      \* the one that has the address of the host at first
  Bridges,   \* names of bridges
  NoIface,
  Managers,  \* the configuration managers to choose from
  MaxFaults  \* bound of the model: failures, timeouts and crashes together

ASSUME NetworkAssumption ==
  /\ Main \in Ports /\ Ports \cap Bridges = {} /\ NoIface \notin Ports \cup Bridges
  /\ Managers \subseteq {"ovs", "netplan"} /\ Managers # {}
  /\ MaxFaults \in Nat

Ifaces == Ports \cup Bridges

VARIABLES
  manager,  \* network.config_manager of the configuration file
  host,     \* the interfaces of the host
  conf,     \* the netplan file of each interface
  bkp,      \* the backups of these files
  domQ,     \* the domain queue; its head is the request in hand
  dom,      \* the request the driver is in
  reply,    \* the answer to the handler of the service layer
  fails, crashes,
  reused,   \* history: a bridge was to be created that existed
  shared,   \* history: a port was to be in two bridges
  stale     \* history: a request came to netplan files that had not been applied

hostVars == <<manager, host, conf, bkp>>
driverVars == <<domQ, dom>>
history == <<fails, crashes, reused, shared, stale>>

\* in: the bridge a port is in, addr: who has the address of the host, route: the
\* device of the default route, alias: ports with the alias MAIN.
Hosts == [bridges : SUBSET Bridges, in : [Ports -> Bridges \cup {NoIface}],
          addr : SUBSET Ifaces, route : Ifaces \cup {NoIface},
          alias : SUBSET Ports]

\* there: the file exists; main: it is named MAIN_PORT; ports: those of a bridge.
Confs == [there : BOOLEAN, addr : BOOLEAN, main : BOOLEAN, ports : SUBSET Ifaces]
NoConf == [there |-> FALSE, addr |-> FALSE, main |-> FALSE, ports |-> {}]

Requests == [op : {"create", "delete", "enable", "disable"}, name : Ifaces,
             ifaces : SUBSET Ifaces, owner : {"svc", "none"}]

\* main: main_port of the constructor; todo, cur: the interfaces to add.
Drivers == [pc : {"idle", "add", "up", "ports", "flush", "ip", "route", "addport", "rollback",
                  "list", "restore", "unflush", "unroute", "delbr",
                  "files", "file", "unfile", "apply"},
            main : Ifaces \cup {NoIface}, todo : SUBSET Ifaces, cur : Ifaces \cup {NoIface}]
IdleDriver == [pc |-> "idle", main |-> NoIface, todo |-> {}, cur |-> NoIface]

HostTypeOK ==
  /\ manager \in Managers
  /\ host \in Hosts
  /\ conf \in [Ifaces -> Confs] /\ bkp \in [Ifaces -> Confs]
  /\ domQ \in Seq(Requests) /\ dom \in Drivers
  /\ reply \in {"none", "ok", "err", "timeout"}
  /\ fails \in 0..MaxFaults /\ crashes \in 0..MaxFaults
  /\ reused \in BOOLEAN /\ shared \in BOOLEAN /\ stale \in BOOLEAN

\* The installer may have left a netplan file for the main port or not.
HostInit ==
  /\ manager \in Managers
  /\ host = [bridges |-> {}, in |-> [p \in Ports |-> NoIface], addr |-> {Main},
             route |-> Main, alias |-> {}]
  /\ \E there \in BOOLEAN :
       conf = [n \in Ifaces |-> IF n = Main /\ there /\ manager = "netplan"
                                THEN [NoConf EXCEPT !.there = TRUE, !.addr = TRUE] ELSE NoConf]
  /\ bkp = [n \in Ifaces |-> NoConf]
  /\ domQ = <<>> /\ dom = IdleDriver /\ reply = "none"
  /\ fails = 0 /\ crashes = 0 /\ reused = FALSE /\ shared = FALSE /\ stale = FALSE

-----------------------------------------------------------------------------
(* The interfaces of the host. *)

Present(h) == Ports \cup h.bridges
Request == Head(domQ)
Name == Request.name

\* get_main_port_name, get_default_gateway_ip: a driver is made only on a host
\* that has its default route.
HasRoute == host.route # NoIface

\* ip addr flush: the routes over the device go with its addresses.
Flushed(h, n) == [h EXCEPT !.addr = @ \ {n}, !.route = IF @ = n THEN NoIface ELSE @]

\* ip addr add
WithAddress(h, n) == [h EXCEPT !.addr = @ \cup {n}]

\* ip route add default: refused when there is one or no address reaches it.
CanRoute(h) == h.route = NoIface /\ h.addr # {}

\* dhclient: the address of the host, and its default route if there is none.
Dhclient(h, n) == [WithAddress(h, n) EXCEPT !.route = IF @ = NoIface THEN n ELSE @]

\* ovs-vsctl del-br
Removed(h, b) ==
  [Flushed(h, b) EXCEPT !.bridges = @ \ {b},
                        !.in = [p \in Ports |-> IF @[p] = b THEN NoIface ELSE @[p]]]

\* ovs-vsctl add-port: the interface exists and is in no bridge.
CanAddPort(n) == n \in Ports /\ host.in[n] = NoIface
AddedPort(h, n, b) == [h EXCEPT !.in[n] = b]

MayFail == fails + crashes < MaxFaults
Failing == MayFail /\ fails' = fails + 1

\* The request is answered and acknowledged.
Answered(answer) ==
  /\ reply' = IF Request.owner = "svc" THEN answer ELSE reply
  /\ domQ' = Tail(domQ)
  /\ dom' = IdleDriver

\* The driver goes on: the host has become h.
Proceed(h, pc) ==
  /\ host' = h
  /\ dom' = [dom EXCEPT !.pc = pc]
  /\ UNCHANGED <<manager, conf, bkp, domQ, reply, fails, crashes, reused, shared, stale>>

\* An exception ends the request as it is.
Raised ==
  /\ Answered("err")
  /\ UNCHANGED <<hostVars, crashes, reused, shared, stale>>

\* OVSManagerException: create goes on in its handler.
ToRollback ==
  /\ dom' = [dom EXCEPT !.pc = "rollback"]
  /\ UNCHANGED <<hostVars, domQ, reply, crashes, reused, shared, stale>>

\* Some of the ports are in a bridge already.
Taken(ifaces) == \E p \in ifaces, b \in Bridges : p \in conf[b].ports

\* What netplan makes of the files; an interface without one stays as it is.
Valid == \A b, c \in Bridges : b # c => conf[b].ports \cap conf[c].ports = {}
Addressed == {n \in Ifaces : conf[n].there /\ conf[n].addr}
             \cup {p \in host.addr \cap Ports : ~conf[p].there}
Configured(r) ==
  [host EXCEPT !.bridges = {b \in Bridges : conf[b].there},
               !.in = [p \in Ports |-> IF \E b \in Bridges : p \in conf[b].ports
                                       THEN CHOOSE b \in Bridges : p \in conf[b].ports ELSE NoIface],
               !.addr = Addressed, !.route = r]

\* The files say something else than the host has: a request rewrote them and could
\* not apply them.
Unapplied == manager = "netplan" /\ Configured(host.route) # host

\* The constructor, which reads the main port, or the two commands of an
\* interface that is turned on or off.
TakeRequest ==
  /\ domQ # <<>> /\ dom.pc = "idle" /\ Request.op \in {"create", "delete"}
  /\ reused' = (reused \/ (Request.op = "create" /\ Name \in host.bridges))
  /\ shared' = (shared \/ (Request.op = "create" /\ Taken(Request.ifaces)))
  /\ stale' = (stale \/ Unapplied)
  /\ IF ~HasRoute THEN Answered("err")
     ELSE /\ dom' = [IdleDriver EXCEPT !.main = host.route, !.todo = Request.ifaces,
                !.pc = IF manager = "ovs"
                       THEN IF Request.op = "create" THEN "add" ELSE "list"
                       ELSE IF Request.op = "create" THEN "files" ELSE "unfile"]
          /\ UNCHANGED <<domQ, reply>>
  /\ UNCHANGED <<hostVars, fails, crashes>>

-----------------------------------------------------------------------------
(* OVSInterface.create *)

\* ovs-vsctl add-br: a name that is taken is an error like any other.
OvsAdd ==
  /\ dom.pc = "add"
  /\ \/ /\ Name \notin host.bridges
        /\ Proceed([host EXCEPT !.bridges = @ \cup {Name}], "up")
     \/ Name \in host.bridges /\ ToRollback /\ UNCHANGED fails
     \/ Failing /\ ToRollback

\* turn_on_interface raises an exception that nothing rolls back.
OvsUp ==
  /\ dom.pc = "up"
  /\ \/ Proceed(host, "ports")
     \/ Failing /\ Raised

\* The loop over the interfaces; the port with the default route is configured first.
OvsPorts ==
  /\ dom.pc = "ports"
  /\ \/ /\ dom.todo = {}
        /\ Answered("ok")
        /\ UNCHANGED <<hostVars, history>>
     \/ \E i \in dom.todo :
          /\ dom' = [dom EXCEPT !.todo = @ \ {i}, !.cur = i,
                       !.pc = IF i = dom.main /\ i \notin host.bridges THEN "flush" ELSE "addport"]
          /\ UNCHANGED <<hostVars, domQ, reply, history>>

\* _configure_main_port, command by command.
OvsFlush ==
  /\ dom.pc = "flush"
  /\ \/ Proceed(Flushed(host, dom.main), "ip")
     \/ Failing /\ ToRollback

OvsSetIp ==
  /\ dom.pc = "ip"
  /\ \/ Proceed(WithAddress(host, Name), "route")
     \/ Failing /\ ToRollback

OvsSetRoute ==
  /\ dom.pc = "route"
  /\ \/ CanRoute(host) /\ Proceed([host EXCEPT !.route = Name, !.alias = @ \cup {dom.main}], "addport")
     \/ ~CanRoute(host) /\ ToRollback /\ UNCHANGED fails
     \/ Failing /\ ToRollback

OvsAddPort ==
  /\ dom.pc = "addport"
  /\ \/ CanAddPort(dom.cur) /\ Proceed(AddedPort(host, dom.cur, Name), "ports")
     \/ ~CanAddPort(dom.cur) /\ ToRollback /\ UNCHANGED fails
     \/ Failing /\ ToRollback

\* Mutant of Recovered: the main port is not given an address.
Recovered_NoDhcp(h) == h

\* The second half of _rollback_on_failure: the main port gets an address if it
\* has none; a main port that is gone raises.
Recovered(h) ==
  IF dom.main \in Present(h) /\ dom.main \notin h.addr THEN Dhclient(h, dom.main) ELSE h

\* _rollback_on_failure deletes the bridge of that name, whoever made it.
OvsRollback ==
  /\ dom.pc = "rollback"
  /\ \/ /\ Name \in host.bridges
        /\ host' = Recovered(Removed(host, Name))
        /\ UNCHANGED fails
     \/ Name \notin host.bridges /\ UNCHANGED <<host, fails>>
     \/ Failing /\ UNCHANGED host
  /\ Answered("err")
  /\ UNCHANGED <<manager, conf, bkp, crashes, reused, shared, stale>>

-----------------------------------------------------------------------------
(* OVSInterface.delete *)

\* The ports whose alias says that they gave their address to the bridge.
Lenders == {p \in host.alias : host.in[p] = Name}

\* get_ports_in_bridge and the loop, of which only a lender needs anything.
OvsList ==
  /\ dom.pc = "list"
  /\ \/ /\ Name \in host.bridges
        /\ IF Lenders = {} THEN dom' = [dom EXCEPT !.pc = "delbr"]
           ELSE \E p \in Lenders : dom' = [dom EXCEPT !.pc = "restore", !.cur = p]
        /\ UNCHANGED <<hostVars, domQ, reply, history>>
     \/ Name \notin host.bridges /\ Raised /\ UNCHANGED fails
     \/ Failing /\ Raised

\* _restore_main_port: the address of the bridge, or one by DHCP for the device of
\* the default route; then the bridge is flushed and the route set.
OvsRestore ==
  /\ dom.pc = "restore"
  /\ \/ Proceed(IF Name \in host.addr THEN WithAddress(host, dom.cur)
                ELSE Dhclient(host, dom.main), "unflush")
     \/ Failing /\ Raised

OvsUnflush ==
  /\ dom.pc = "unflush"
  /\ \/ Proceed(Flushed(host, Name), "unroute")
     \/ Failing /\ Raised

OvsUnroute ==
  /\ dom.pc = "unroute"
  /\ \/ /\ CanRoute(host)
        /\ \E n \in host.addr : Proceed([host EXCEPT !.route = n], "delbr")
     \/ ~CanRoute(host) /\ Raised /\ UNCHANGED fails
     \/ Failing /\ Raised

OvsDelBr ==
  /\ dom.pc = "delbr"
  /\ \/ /\ host' = Removed(host, Name)
        /\ Answered("ok")
        /\ UNCHANGED <<manager, conf, bkp, history>>
     \/ Failing /\ Raised

-----------------------------------------------------------------------------
(* NetplanInterface *)

\* create: the file of the main port is made and named MAIN_PORT, or backed up.
MainFile(m) == IF conf[m].there THEN conf[m] ELSE [NoConf EXCEPT !.there = TRUE, !.addr = TRUE, !.main = TRUE]
BackedUp(m) == IF conf[m].there THEN [bkp EXCEPT ![m] = conf[m]] ELSE bkp

\* _prepare_ifaces_for_creating: an interface without a file gets one that says
\* what it has; the main port hands its parameters to the bridge.
PortFile(c, n) ==
  LET file == IF c[n].there THEN c[n]
              ELSE [NoConf EXCEPT !.there = TRUE, !.addr = (n \in host.addr)]
  IN IF n = dom.main THEN [file EXCEPT !.addr = FALSE] ELSE file

\* A name that is no device, or a bridge's, raises when its turn comes: the files of
\* those before it are rewritten.
NpFiles ==
  /\ dom.pc = "files"
  /\ \E done \in SUBSET (dom.todo \cap Ports) :
       /\ dom.todo \subseteq Ports => done = dom.todo
       /\ LET c == [conf EXCEPT ![dom.main] = MainFile(dom.main)] IN
          conf' = [n \in Ifaces |-> IF n \in done THEN PortFile(c, n) ELSE c[n]]
  /\ bkp' = BackedUp(dom.main)
  /\ IF dom.todo \subseteq Ports
     THEN dom' = [dom EXCEPT !.pc = "file"] /\ UNCHANGED <<domQ, reply>>
     ELSE Answered("err")
  /\ UNCHANGED <<manager, host, history>>

\* create_ovs_bridge_yaml_file
BridgeFile == [there |-> TRUE, addr |-> dom.main \in dom.todo, main |-> FALSE, ports |-> dom.todo]

NpBridgeFile ==
  /\ dom.pc = "file"
  /\ conf' = [conf EXCEPT ![Name] = BridgeFile]
  /\ dom' = [dom EXCEPT !.pc = "apply"]
  /\ UNCHANGED <<manager, host, bkp, domQ, reply, history>>

\* Mutant of Restored: the parameters stay with the bridge.
Restored_NotMoved(p) ==
  CASE bkp[p].there -> bkp[p]
    [] ~bkp[p].there /\ conf[p].main -> conf[p]
    [] OTHER -> NoConf

\* _prepare_ifaces_for_deleting: the backup of a port's file, or the parameters
\* of the bridge in a file named MAIN_PORT; any other file is removed.
Restored(p) ==
  CASE bkp[p].there -> bkp[p]
    [] ~bkp[p].there /\ conf[p].main -> [conf[p] EXCEPT !.addr = conf[Name].addr]
    [] OTHER -> NoConf

\* A port without a file raises when its turn comes.
NpUnfile ==
  /\ dom.pc = "unfile"
  /\ IF Name \in Bridges /\ conf[Name].there
     THEN LET ports == conf[Name].ports
              all == \A p \in ports : conf[p].there
          IN /\ \E done \in SUBSET {p \in ports : conf[p].there} :
                  /\ all => done = ports
                  /\ conf' = [n \in Ifaces |-> CASE n \in done -> Restored(n)
                                                [] n = Name /\ all -> NoConf
                                                [] OTHER -> conf[n]]
                  /\ bkp' = [n \in Ifaces |-> IF n \in done THEN NoConf ELSE bkp[n]]
             /\ IF all THEN dom' = [dom EXCEPT !.pc = "apply"] /\ UNCHANGED <<domQ, reply>>
                ELSE Answered("err")
             /\ UNCHANGED <<manager, host, history>>
     ELSE Raised /\ UNCHANGED fails

\* netplan apply, which raises when the files do not agree.
NpApply ==
  /\ dom.pc = "apply"
  /\ \/ /\ Valid
        /\ \E r \in Addressed \cup {NoIface} :
             /\ r = NoIface => Addressed = {}
             /\ host.route \in Addressed => r = host.route
             /\ host' = Configured(r)
        /\ Answered("ok")
        /\ UNCHANGED <<manager, conf, bkp, history>>
     \/ ~Valid /\ Raised /\ UNCHANGED fails
     \/ Failing /\ Raised

-----------------------------------------------------------------------------
(* PhysicalInterface and VirtualInterface: ip link set up, down. *)

\* Routes over a device that is turned off are gone, and do not come back.
Switched(h, op, n) ==
  [h EXCEPT !.route = IF op = "disable" /\ @ = n THEN NoIface ELSE @]

SwitchIface ==
  /\ domQ # <<>> /\ dom.pc = "idle" /\ Request.op \in {"enable", "disable"}
  /\ host' = IF Name \in Present(host) THEN Switched(host, Request.op, Name) ELSE host
  /\ Answered("ok")
  /\ UNCHANGED <<manager, conf, bkp, history>>

\* The process dies: the request starts over.
DomainCrash ==
  /\ dom.pc # "idle"
  /\ MayFail /\ crashes' = crashes + 1
  /\ dom' = IdleDriver
  /\ UNCHANGED <<hostVars, domQ, reply, fails, reused, shared, stale>>

DriverStep ==
  \/ TakeRequest \/ SwitchIface
  \/ OvsAdd \/ OvsUp \/ OvsPorts \/ OvsFlush \/ OvsSetIp \/ OvsSetRoute \/ OvsAddPort \/ OvsRollback
  \/ OvsList \/ OvsRestore \/ OvsUnflush \/ OvsUnroute \/ OvsDelBr
  \/ NpFiles \/ NpBridgeFile \/ NpUnfile \/ NpApply
=============================================================================
