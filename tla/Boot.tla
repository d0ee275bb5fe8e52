-------------------------------- MODULE Boot --------------------------------
(***************************************************************************)
(* The process from the start of main to its accept loops (src/src/main.rs)*)
(* under systemd: it loads the configuration (config.rs), searches for NAA *)
(* endpoints (discovery.rs), resolves which of them to serve, puts the     *)
(* iptables rule in place (iptables.rs) and starts its threads.            *)
(*                                                                         *)
(* The devices on the network, the kernel's table of rules and systemd are *)
(* external.  Admin adds the web server, the only writer of the file.      *)
(***************************************************************************)
EXTENDS Naturals, Sequences

CONSTANTS
    Devices,     \* addresses that may answer a search
    NameOf,      \* the name each answers with
    PROXY_NAME,  \* the name a proxy answers with
    Hosts,       \* texts a host may be given as ...
    Addresses,   \* ... and those of them that are IPv4 addresses
    Configs,     \* configuration files written by hand
    None,        \* an absent field or section
    Torn,        \* a file cut off while it was written
    MaxEvents    \* bound on losses, crashes, requests and devices going on and off

(* What the boot looks at: of hqp_host and [web] whether they are set (and *)
(* enabled); of [iptables] all.                                            *)
Config ==
    [host : Hosts \cup {None},
     target : {NameOf[d] : d \in Devices} \cup {None},
     hqp_host : BOOLEAN,
     iptables : [enable : BOOLEAN, naa_host : Hosts] \cup {None},
     web : BOOLEAN]

ASSUME BootAssumption ==
    /\ Devices \subseteq Addresses /\ Addresses \subseteq Hosts
    /\ None \notin Hosts \cup [enable : BOOLEAN, naa_host : Hosts]
    /\ \A d \in Devices : NameOf[d] # None
    /\ Configs \subseteq Config /\ Torn \notin Config \cup {None}
    /\ MaxEvents \in Nat

VARIABLES
    file, bak,   \* the configuration file and its backup
    rules,       \* source addresses the kernel redirects from port 4321 to 14321
    works,       \* whether the process may run iptables
    present,     \* devices that are switched on
    events,      \* bound
    proc,        \* "down", "search", "rule", "spawn" or "up"
    cfg,         \* the configuration it has loaded
    answers,     \* answers of each device on their way, one per multicast group
    found,       \* the endpoints found
    target       \* the address it serves

world == <<file, bak, works, present>>
process == <<proc, cfg, answers, found, target>>
bootVars == <<world, rules, events, process>>

Event == events < MaxEvents /\ events' = events + 1

BootInit ==
    /\ file \in Configs /\ bak = None
    /\ rules = {} /\ works \in BOOLEAN
    /\ present \in SUBSET Devices
    /\ events = 0
    /\ proc = "down" /\ cfg = None
    /\ answers = [d \in Devices |-> 0] /\ found = <<>> /\ target = None

-----------------------------------------------------------------------------
(* iptables: -C, then -A or -D, of the one rule for a source address.      *)

(* add_rule returns Ok; so does remove_rule when iptables does not run at  *)
(* all, since no rule is then found to remove.                             *)
Added(host) == host \in Addresses /\ works
Removed(host) == host \in Addresses

-----------------------------------------------------------------------------
(* A request to each multicast group, and who answers it: endpoints, and   *)
(* the responder of any other instance.  This one's does not run yet.      *)
Searches == [d \in Devices |-> IF d \in present THEN 2 ELSE 0]

(* Mutant: a file that does not parse is read as if it did.                *)
Start_Anyhow ==
    /\ proc = "down"
    /\ proc' = "search" /\ cfg' = file
    /\ answers' = Searches
    /\ UNCHANGED <<world, rules, events, found, target>>

(* config::load: a file that does not parse ends the process, and systemd  *)
(* tries again for ever.                                                   *)
Start ==
    /\ proc = "down" /\ file # Torn
    /\ proc' = "search" /\ cfg' = file
    /\ answers' = Searches
    /\ UNCHANGED <<world, rules, events, found, target>>

Heard == {found[i] : i \in DOMAIN found}

(* Mutant: an address is listed once per answer.                           *)
Hears_Twice(d) ==
    /\ proc = "search" /\ answers[d] > 0
    /\ answers' = [answers EXCEPT ![d] = @ - 1]
    /\ found' = IF NameOf[d] = PROXY_NAME THEN found ELSE Append(found, d)
    /\ UNCHANGED <<world, rules, events, proc, cfg, target>>

(* An answer arrives: not from a proxy, and each address once.             *)
Hears(d) ==
    /\ proc = "search" /\ answers[d] > 0
    /\ answers' = [answers EXCEPT ![d] = @ - 1]
    /\ found' = IF NameOf[d] = PROXY_NAME \/ d \in Heard THEN found ELSE Append(found, d)
    /\ UNCHANGED <<world, rules, events, proc, cfg, target>>

First(S) == CHOOSE i \in S : \A j \in S : i <= j
Named(name, endpoints) == {i \in DOMAIN endpoints : NameOf[endpoints[i]] = name}

(* Mutant: only what was discovered counts, the first of it if in doubt.   *)
resolve_target_Discovered(c, endpoints) ==
    IF Named(c.target, endpoints) # {} THEN endpoints[First(Named(c.target, endpoints))]
    ELSE IF endpoints # <<>> THEN endpoints[1] ELSE None

(* The address to serve, or None when the process exits: the target by its *)
(* name, else the host configured (whose text must be an address: unwrap), *)
(* else the only endpoint found if none of the two is configured.          *)
resolve_target(c, endpoints) ==
    IF c.target # None /\ Named(c.target, endpoints) # {}
        THEN endpoints[First(Named(c.target, endpoints))]
    ELSE IF c.host # None THEN IF c.host \in Addresses THEN c.host ELSE None
    ELSE IF c.target = None /\ Len(endpoints) = 1 THEN endpoints[1] ELSE None

(* Three seconds without an answer.  Those on their way are lost.          *)
AllHeard == \A d \in Devices : answers[d] = 0
SearchOver == proc = "search" /\ IF AllHeard THEN UNCHANGED events ELSE Event

TargetFound ==
    /\ SearchOver /\ resolve_target(cfg, found) # None
    /\ proc' = "rule" /\ target' = resolve_target(cfg, found)
    /\ answers' = [d \in Devices |-> 0]
    /\ UNCHANGED <<world, rules, cfg, found>>

(* Nothing of the process is left.                                         *)
Down ==
    /\ proc' = "down" /\ cfg' = None
    /\ answers' = [d \in Devices |-> 0] /\ found' = <<>> /\ target' = None
    /\ UNCHANGED world

NoTarget ==
    /\ SearchOver /\ resolve_target(cfg, found) = None
    /\ Down /\ UNCHANGED rules

(* Mutant: the rule is made for the endpoint served.                       *)
AddRule_Target ==
    /\ proc = "rule" /\ proc' = "spawn"
    /\ rules' = IF cfg.iptables # None /\ cfg.iptables.enable /\ Added(target)
                    THEN rules \cup {target} ELSE rules
    /\ UNCHANGED <<world, events, cfg, answers, found, target>>

(* The rule, if enabled; a failure is only logged.                         *)
AddRule ==
    /\ proc = "rule" /\ proc' = "spawn"
    /\ rules' = IF cfg.iptables # None /\ cfg.iptables.enable /\ Added(cfg.iptables.naa_host)
                    THEN rules \cup {cfg.iptables.naa_host} ELSE rules
    /\ UNCHANGED <<world, events, cfg, answers, found, target>>

(* The threads are spawned.                                                *)
Spawn ==
    /\ proc = "spawn" /\ proc' = "up"
    /\ UNCHANGED <<world, rules, events, cfg, answers, found, target>>

(* The port the status proxy listens on, 0 for none.                       *)
status_listen_port(c) ==
    IF c.iptables # None THEN 14321 ELSE IF c.hqp_host THEN 4321 ELSE 0

-----------------------------------------------------------------------------
(* The process is killed or crashes; with the machine go the rules.        *)
Dies == Event /\ proc # "down" /\ Down /\ UNCHANGED rules
MachineRestarts == Event /\ Down /\ rules' = {}

(* A device is switched on or off; one that goes does not answer any more. *)
Switched(d) ==
    /\ Event
    /\ present' = IF d \in present THEN present \ {d} ELSE present \cup {d}
    /\ answers' = [answers EXCEPT ![d] = 0]
    /\ UNCHANGED <<file, bak, works, rules, proc, cfg, found, target>>

-----------------------------------------------------------------------------
Found == proc \in {"rule", "spawn", "up"}

BootTypeOK ==
    /\ file \in Config \cup {Torn} /\ bak \in Config \cup {None, Torn}
    /\ rules \subseteq Addresses /\ works \in BOOLEAN
    /\ present \subseteq Devices /\ events \in 0..MaxEvents
    /\ proc \in {"down", "search"} \/ Found
    /\ IF proc = "down" THEN cfg = None ELSE cfg \in Config
    /\ answers \in [Devices -> 0..2]
    /\ found \in Seq(Devices)
    /\ IF Found THEN target \in Addresses ELSE target = None
=============================================================================
