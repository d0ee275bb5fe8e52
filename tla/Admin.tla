------------------------------- MODULE Admin -------------------------------
(***************************************************************************)
(* The web server (src/src/web.rs) beside the boot: one thread that takes  *)
(* one connection at a time, rewrites the configuration file (config.rs)   *)
(* and switches the iptables rule.  The process may be killed between any  *)
(* two steps, by the restart that the page itself asks for among others.   *)
(*                                                                         *)
(* The browser, with the page of web_page.html, and systemd are external.  *)
(* The file is edited by hand only before the first boot; a reboot of the  *)
(* machine writes its disks out.                                           *)
(***************************************************************************)
EXTENDS Boot

CONSTANT MaxQueue  \* connections waiting for the server

ASSUME AdminAssumption == MaxQueue \in Nat \ {0}

(* What the page sends; "silent" stands for a client that sends nothing    *)
(* and for requests that change nothing, "poke" for the server's own.      *)
Requests ==
    [op : {"config", "restart", "shutdown", "silent", "poke"}]
      \cup [op : {"save"}, device : Devices \cup {None}]
      \cup [op : {"toggle"}, enable : BOOLEAN]

VARIABLES
    web,     \* "off", or where the server stands
    queue,   \* connections not yet accepted
    req,     \* the request it is handling
    draft,   \* the configuration it is about to save
    stop,    \* self.shutdown
    kill,    \* systemctl restart was spawned
    page,    \* the endpoints the page offers, None before it is opened
    room,    \* whether the disk has room for the file and its backup
    chosen   \* the device last saved from the page (for ChosenIsUsed)

server == <<web, queue, req, draft, stop, kill>>
adminVars == <<server, page, room, chosen>>
vars == <<bootVars, adminVars>>

WebOff ==
    /\ web = "off" /\ queue = <<>> /\ req = None /\ draft = None
    /\ stop = FALSE /\ kill = FALSE

Init ==
    /\ BootInit /\ WebOff
    /\ room \in IF works THEN BOOLEAN ELSE {TRUE}   \* one thing goes wrong at a time
    /\ page = None /\ chosen = None

-----------------------------------------------------------------------------
(* The browser: a save comes from an open page and carries one of the      *)
(* endpoints it offers, or none when it offers none.                       *)
Offered(r) ==
    r.op = "save" =>
        /\ page # None
        /\ IF page = {} THEN r.device = None ELSE r.device \in page

Asks(r) ==
    /\ Event /\ r.op # "poke"
    /\ web \notin {"off", "stopped"} /\ Len(queue) < MaxQueue
    /\ Offered(r)
    /\ queue' = Append(queue, r)
    /\ UNCHANGED <<world, rules, process, web, req, draft, stop, kill, page, room, chosen>>

-----------------------------------------------------------------------------
(* The server: each handler reads the file first, and answers an error if  *)
(* it does not parse.                                                      *)

Accept ==
    /\ web = "accept" /\ queue # <<>>
    /\ IF stop THEN web' = "stopped" /\ queue' = <<>> /\ req' = None
       ELSE web' = "read" /\ queue' = Tail(queue) /\ req' = Head(queue)
    /\ UNCHANGED <<bootVars, draft, stop, kill, page, room, chosen>>

Handling(op) == web = "read" /\ req.op = op

Answered == web' = "accept" /\ req' = None /\ draft' = None

(* Mutant: a connection has no read timeout.                               *)
HandleOther_Waits ==
    /\ Handling("poke") /\ Answered
    /\ UNCHANGED <<bootVars, queue, stop, kill, page, room, chosen>>

(* Nothing comes for 5 s, or nothing that changes anything.                *)
HandleOther ==
    /\ Handling("silent") \/ Handling("poke")
    /\ Answered
    /\ UNCHANGED <<bootVars, queue, stop, kill, page, room, chosen>>

HandleConfig ==
    /\ Handling("config") /\ Answered
    /\ page' = IF file = Torn THEN page ELSE Heard
    /\ UNCHANGED <<bootVars, queue, stop, kill, room, chosen>>

Loads == file # Torn

LoadFails ==
    /\ web = "read" /\ req.op \in {"save", "toggle", "shutdown"} /\ ~Loads
    /\ Answered
    /\ UNCHANGED <<bootVars, queue, stop, kill, page, room, chosen>>

Saves(c) ==
    /\ draft' = c /\ web' = "copy"
    /\ UNCHANGED <<world, events, process, queue, req, stop, kill, page, room, chosen>>

DeviceName(d) == IF d = None THEN None ELSE NameOf[d]

(* Mutant: the request is merged into the configuration loaded at boot.    *)
HandleSave_FromBoot ==
    /\ Handling("save") /\ Loads /\ UNCHANGED rules
    /\ Saves([cfg EXCEPT !.host = req.device, !.target = DeviceName(req.device)])

HandleSave ==
    /\ Handling("save") /\ Loads /\ UNCHANGED rules
    /\ Saves([file EXCEPT !.host = req.device, !.target = DeviceName(req.device)])

(* The host whose rule it is; an empty one is not an address.              *)
naa_host == IF file.iptables # None THEN file.iptables.naa_host ELSE file.host

WithRule(on) == [file EXCEPT !.iptables = [enable |-> on, naa_host |-> naa_host]]

(* Mutant: the rule is made for naa.host, whatever [iptables] says.        *)
HandleToggle_Host ==
    /\ Handling("toggle") /\ Loads
    /\ IF req.enable
         THEN Added(file.host) /\ rules' = rules \cup {file.host}
         ELSE Removed(file.host) /\ rules' = IF works THEN rules \ {file.host} ELSE rules
    /\ Saves(WithRule(req.enable))

(* The rule is switched first, then the configuration is saved.            *)
HandleToggle ==
    /\ Handling("toggle") /\ Loads
    /\ IF req.enable
         THEN Added(naa_host) /\ rules' = rules \cup {naa_host}
         ELSE Removed(naa_host) /\ rules' = IF works THEN rules \ {naa_host} ELSE rules
    /\ Saves(WithRule(req.enable))

ToggleFails ==
    /\ Handling("toggle") /\ Loads
    /\ IF req.enable THEN ~Added(naa_host) ELSE ~Removed(naa_host)
    /\ Answered
    /\ UNCHANGED <<bootVars, queue, stop, kill, page, room, chosen>>

(* It answers, then spawns systemctl.                                      *)
HandleRestart ==
    /\ Handling("restart") /\ Answered
    /\ kill' = TRUE
    /\ UNCHANGED <<bootVars, queue, stop, page, room, chosen>>

(* Mutant: the server is stopped but the configuration is left alone.      *)
HandleShutdown_Unsaved ==
    /\ Handling("shutdown") /\ Loads /\ UNCHANGED rules
    /\ Saves(file)

HandleShutdown ==
    /\ Handling("shutdown") /\ Loads /\ UNCHANGED rules
    /\ Saves([file EXCEPT !.web = FALSE])

-----------------------------------------------------------------------------
(* config::save: the file is copied to the backup, then truncated and      *)
(* written.  An error of the copy is ignored.                              *)

(* Mutant: the file is opened for writing before it is copied.             *)
CopyBegins_Opened ==
    /\ web = "copy" /\ web' = "copied"
    /\ bak' = Torn /\ file' = Torn
    /\ UNCHANGED <<works, present, rules, events, process>>
    /\ UNCHANGED <<queue, req, draft, stop, kill, page, room, chosen>>

CopyBegins ==
    /\ web = "copy" /\ web' = "copied"
    /\ bak' = Torn
    /\ UNCHANGED <<file, works, present, rules, events, process>>
    /\ UNCHANGED <<queue, req, draft, stop, kill, page, room, chosen>>

CopyEnds ==
    /\ web = "copied" /\ web' = "truncate"
    /\ bak' = IF room THEN file ELSE Torn
    /\ UNCHANGED <<file, works, present, rules, events, process>>
    /\ UNCHANGED <<queue, req, draft, stop, kill, page, room, chosen>>

Truncate ==
    /\ web = "truncate" /\ web' = "write"
    /\ file' = Torn
    /\ UNCHANGED <<bak, works, present, rules, events, process>>
    /\ UNCHANGED <<queue, req, draft, stop, kill, page, room, chosen>>

WriteEnds ==
    /\ web = "write" /\ room /\ web' = "reply"
    /\ file' = draft /\ draft' = None
    /\ chosen' = IF req.op = "save" THEN req.device ELSE chosen
    /\ UNCHANGED <<bak, works, present, rules, events, process>>
    /\ UNCHANGED <<queue, req, stop, kill, page, room>>

WriteFails ==
    /\ web = "write" /\ ~room /\ Answered
    /\ UNCHANGED <<bootVars, queue, stop, kill, page, room, chosen>>

(* Mutant: the listener is not poked.                                      *)
Reply_NoPoke ==
    /\ web = "reply" /\ Answered
    /\ stop' = (stop \/ req.op = "shutdown")
    /\ UNCHANGED <<bootVars, queue, kill, page, room, chosen>>

(* "ok"; after a shutdown the server connects to itself to wake up.        *)
Reply ==
    /\ web = "reply" /\ Answered
    /\ IF req.op = "shutdown" THEN stop' = TRUE /\ queue' = Append(queue, [op |-> "poke"])
       ELSE UNCHANGED <<stop, queue>>
    /\ UNCHANGED <<bootVars, kill, page, room, chosen>>

Serves ==
    \/ Accept \/ HandleOther \/ HandleConfig \/ LoadFails
    \/ HandleSave \/ HandleToggle \/ ToggleFails \/ HandleRestart \/ HandleShutdown
    \/ CopyBegins \/ CopyEnds \/ Truncate \/ WriteEnds \/ WriteFails \/ Reply

-----------------------------------------------------------------------------
(* The server is spawned with the other threads and goes with the process. *)

SpawnAll ==
    /\ Spawn
    /\ web' = IF cfg.web THEN "accept" ELSE "off"
    /\ UNCHANGED <<queue, req, draft, stop, kill, page, room, chosen>>

WebGone ==
    /\ web' = "off" /\ queue' = <<>> /\ req' = None /\ draft' = None
    /\ stop' = FALSE /\ kill' = FALSE
    /\ UNCHANGED <<page, room, chosen>>

Killed == kill /\ Down /\ UNCHANGED <<rules, events>> /\ WebGone

Booting ==
    \/ (Start \/ TargetFound \/ NoTarget \/ AddRule) /\ UNCHANGED adminVars
    \/ (\E d \in Devices : Hears(d)) /\ UNCHANGED adminVars
    \/ SpawnAll

Next ==
    \/ Booting \/ Serves \/ Killed
    \/ \E r \in Requests : Asks(r)
    \/ (Dies \/ MachineRestarts) /\ WebGone
    \/ (\E d \in Devices : Switched(d)) /\ UNCHANGED adminVars

Spec == Init /\ [][Next]_vars

(* Fairness: systemd starts the process again and kills it when asked to,  *)
(* its threads run, and answers that are on their way arrive.  Nobody has  *)
(* to ask anything.                                                        *)
FairSpec ==
    /\ Spec
    /\ WF_vars(Booting /\ UNCHANGED events)
    /\ WF_vars(Serves)
    /\ WF_vars(Killed)

-----------------------------------------------------------------------------
Saving == web \in {"copy", "copied", "truncate", "write"}
Up == proc = "up"

(* The types of the state; the server runs only while the process does,    *)
(* and holds a request and a draft exactly while it works on them.         *)
TypeOK ==
    /\ BootTypeOK /\ room \in BOOLEAN
    /\ web \in {"off", "accept", "read", "reply", "stopped"} \/ Saving
    /\ ~Up => WebOff
    /\ queue \in Seq(Requests)
    /\ IF web \in {"read", "reply"} \/ Saving THEN req \in Requests ELSE req = None
    /\ IF Saving THEN draft \in Config ELSE draft = None
    /\ stop \in BOOLEAN /\ kill \in BOOLEAN
    /\ page \in (SUBSET Devices) \cup {None}
    /\ chosen \in Devices \cup {None}

(* Whenever the process or its server goes down in the middle of a save,   *)
(* one of the file and its backup is whole, if the disk has room.          *)
BackupHolds == room /\ file = Torn => bak \in Config

(* What a save changes against the version before it, now the backup, is   *)
(* what was asked for and nothing else: not what an earlier request, or    *)
(* one to the process before, has changed.                                 *)
AsAsked(new, old) ==
    CASE req.op = "save" ->
             new = [old EXCEPT !.host = req.device, !.target = DeviceName(req.device)]
      [] req.op = "toggle" ->
             /\ new = [old EXCEPT !.iptables = new.iptables]
             /\ old.iptables # None => new.iptables.naa_host = old.iptables.naa_host
      [] OTHER -> new = [old EXCEPT !.web = FALSE]
OnlyWhatWasAsked == web = "reply" /\ bak # Torn => AsAsked(file, bak)

(* "ok" to a toggle means that the rule for the host the configuration now *)
(* names is in the kernel, or is not, as asked, and will be set the same   *)
(* way by the next boot.                                                   *)
Told(c) ==
    /\ c.iptables # None /\ c.iptables.enable = req.enable
    /\ works => (c.iptables.naa_host \in rules <=> req.enable)
ToggleTold == web = "reply" /\ req.op = "toggle" => Told(file)

(* A rule that the file enables is in the kernel whenever the process is   *)
(* up and its server is not busy, after whatever crash, restart or reboot. *)
InPlace(c) ==
    c.iptables # None /\ c.iptables.enable /\ c.iptables.naa_host \in Addresses
      => c.iptables.naa_host \in rules
EnabledIsInPlace ==
    Up /\ web \in {"off", "accept", "stopped"} /\ works /\ file # Torn => InPlace(file)

(* A device saved from the page is the one the next boots serve, whichever *)
(* answers are lost and whether or not it is switched on.                  *)
ChosenIsUsed == proc \in {"rule", "spawn"} /\ chosen # None => target = chosen

(* A configuration that names or leaves no doubt about the endpoint, in    *)
(* the network as it is, brings the process up.                            *)
Endpoints == {d \in present : NameOf[d] # PROXY_NAME}
Bootable ==
    /\ file # Torn
    /\ \/ file.host \in Addresses
       \/ file.host = None /\ \E d \in Endpoints : file.target = NameOf[d]
       \/ file.host = None /\ file.target = None /\ \E d \in Endpoints : Endpoints = {d}
ComesUp == Bootable ~> (Up \/ ~Bootable)

(* Every connection is served or dropped: none waits for ever behind a     *)
(* client that sends nothing.                                              *)
Served == (queue # <<>>) ~> (queue = <<>>)

(* "Poke the listener to unblock accept()": once a shutdown is answered    *)
(* the server stops although nobody connects any more.                     *)
ShutdownEnds == stop ~> (web \in {"off", "stopped"})

(* A server that was shut down stays so across crashes and reboots.        *)
ShutDownForGood == [](web = "stopped" => [](web \in {"off", "stopped"}))

(* The status traffic reaches the proxy: redirected by a rule it listens   *)
(* on 14321, and with hqp_host and no rule on 4321.  README: "it listens   *)
(* on 14321 and uses an iptables PREROUTING rule to redirect NAA traffic"; *)
(* config.rs: "Enables the Status proxy to listen on 4321 directly".       *)
StatusReached ==
    Up => /\ rules # {} => status_listen_port(cfg) = 14321
          /\ rules = {} /\ cfg.hqp_host => status_listen_port(cfg) = 4321

(* "To avoid breaking resolve_target": what the page saves resolves, with  *)
(* the endpoints found at this boot.                                       *)
SaveKeepsTarget ==
    [][web = "write" /\ web' = "reply" /\ req.op = "save" =>
         resolve_target(file', found) # None]_vars
=============================================================================
