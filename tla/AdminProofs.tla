---------------------------- MODULE AdminProofs ----------------------------
(***************************************************************************)
(* Proofs about Boot and Admin, for any devices, hosts, configurations and *)
(* bounds.                                                                 *)
(***************************************************************************)
EXTENDS Admin, WellFoundedInduction, TLAPS

-----------------------------------------------------------------------------
(* What the handlers make of a configuration is one.                       *)

LEMMA NaaHostTyped ==
    ASSUME file \in Config
    PROVE  naa_host \in Hosts \cup {None}
BY DEF naa_host, Config

LEMMA SaveTyped ==
    ASSUME file \in Config, NEW d \in Devices \cup {None}
    PROVE  [file EXCEPT !.host = d, !.target = DeviceName(d)] \in Config
BY BootAssumption DEF Config, DeviceName

LEMMA WithRuleTyped ==
    ASSUME file \in Config, naa_host \in Addresses, NEW on \in BOOLEAN
    PROVE  WithRule(on) \in Config
BY BootAssumption DEF WithRule, Config

LEMMA WebOffTyped ==
    ASSUME file \in Config
    PROVE  [file EXCEPT !.web = FALSE] \in Config
BY DEF Config

LEMMA RequestTyped ==
    ASSUME NEW r \in Requests
    PROVE  /\ r.op = "save" => r.device \in Devices \cup {None}
           /\ r.op = "toggle" => r.enable \in BOOLEAN
BY DEF Requests

(* First is the least of a set of indices.                                 *)
LEMMA FirstIsIn ==
    ASSUME NEW S, S \subseteq Nat, S # {}
    PROVE  First(S) \in S
<1> DEFINE less == {ss \in Nat \X Nat : ss[1] < ss[2]}
<1>1. IsWellFoundedOn(less, Nat)
  BY NatLessThanWellFounded DEF OpToRel
<1>2. PICK x \in S : \A y \in S : <<y, x>> \notin less
  <2> HIDE DEF less
  <2> QED BY <1>1, WFMin
<1>3. ASSUME NEW y \in S PROVE x <= y
  <2>1. <<y, x>> \in less <=> y < x
    OBVIOUS
  <2> QED BY <1>2, <2>1
<1> QED BY <1>3 DEF First

(* A target found is an address.                                           *)
LEMMA ResolveTyped ==
    ASSUME NEW c \in Config, NEW endpoints \in Seq(Devices),
           resolve_target(c, endpoints) # None
    PROVE  resolve_target(c, endpoints) \in Addresses
<1> USE BootAssumption
<1>1. CASE c.target # None /\ Named(c.target, endpoints) # {}
  <2> DEFINE S == Named(c.target, endpoints)
  <2>1. resolve_target(c, endpoints) = endpoints[First(S)]
    BY <1>1 DEF resolve_target
  <2>2. S \subseteq DOMAIN endpoints
    BY DEF Named
  <2>3. First(S) \in S
    BY <1>1, <2>2, FirstIsIn
  <2> QED BY <2>1, <2>2, <2>3
<1>2. CASE ~(c.target # None /\ Named(c.target, endpoints) # {})
  BY <1>2 DEF resolve_target
<1> QED BY <1>1, <1>2

-----------------------------------------------------------------------------
LEMMA InitTypes == Init => TypeOK
<1> SUFFICES ASSUME Init PROVE TypeOK
  OBVIOUS
<1> USE BootAssumption
<1>1. BootTypeOK
  BY DEF Init, BootInit, BootTypeOK, Found
<1>2. WebOff /\ room \in BOOLEAN /\ page = None /\ chosen = None /\ proc = "down"
  BY DEF Init, BootInit
<1>3. <<>> \in Seq(Requests)
  OBVIOUS
<1> QED
  BY <1>1, <1>2, <1>3 DEF WebOff, TypeOK, Up, Saving

(* The process, when it goes down.                                         *)
LEMMA DownTypes ==
    ASSUME TypeOK, Down, WebGone, rules' \subseteq Addresses, events' \in 0..MaxEvents
    PROVE  TypeOK'
<1>1. BootTypeOK'
  BY BootAssumption DEF TypeOK, BootTypeOK, Down, world, Found
<1>2. <<>> \in Seq(Requests)
  OBVIOUS
<1>3. /\ room' \in BOOLEAN /\ page' \in (SUBSET Devices) \cup {None}
      /\ chosen' \in Devices \cup {None}
  BY DEF TypeOK, WebGone
<1> QED
  BY <1>1, <1>2, <1>3 DEF TypeOK, WebGone, WebOff, Up, Saving

LEMMA StepTypes == TypeOK /\ [Next]_vars => TypeOK'
<1> SUFFICES ASSUME TypeOK, [Next]_vars PROVE TypeOK'
  OBVIOUS
<1> USE BootAssumption, AdminAssumption
<1> USE DEF world, process, bootVars, server, adminVars, Up, Found, Saving, WebOff
<1>1. CASE UNCHANGED vars
  BY <1>1 DEF vars, TypeOK, BootTypeOK
<1>2. CASE Start /\ UNCHANGED adminVars
  <2>1. BootTypeOK'
    BY <1>2 DEF TypeOK, BootTypeOK, Start, Searches
  <2> QED BY <1>2, <2>1 DEF TypeOK, Start
<1>3. ASSUME NEW d \in Devices, Hears(d), UNCHANGED adminVars
      PROVE  TypeOK'
  <2>1. BootTypeOK'
    BY <1>3 DEF TypeOK, BootTypeOK, Hears
  <2> QED BY <1>3, <2>1 DEF TypeOK, Hears
<1>4. CASE TargetFound /\ UNCHANGED adminVars
  <2>1. target' \in Addresses
    BY <1>4, ResolveTyped DEF TypeOK, BootTypeOK, TargetFound, SearchOver
  <2>2. events' \in 0..MaxEvents
    BY <1>4 DEF TypeOK, BootTypeOK, TargetFound, SearchOver, Event
  <2>3. BootTypeOK'
    BY <1>4, <2>1, <2>2 DEF TypeOK, BootTypeOK, TargetFound, SearchOver
  <2> QED BY <1>4, <2>3 DEF TypeOK, TargetFound, SearchOver
<1>5. CASE NoTarget /\ UNCHANGED adminVars
  <2>1. events' \in 0..MaxEvents
    BY <1>5 DEF TypeOK, BootTypeOK, NoTarget, SearchOver, Event
  <2>2. WebGone
    BY <1>5 DEF TypeOK, WebGone, NoTarget, SearchOver
  <2> QED BY <1>5, <2>1, <2>2, DownTypes DEF NoTarget, TypeOK, BootTypeOK
<1>6. CASE AddRule /\ UNCHANGED adminVars
  <2>1. BootTypeOK'
    BY <1>6 DEF TypeOK, BootTypeOK, AddRule, Added
  <2> QED BY <1>6, <2>1 DEF TypeOK, AddRule
<1>7. CASE SpawnAll
  <2>1. BootTypeOK'
    BY <1>7 DEF TypeOK, BootTypeOK, SpawnAll, Spawn
  <2> QED BY <1>7, <2>1 DEF TypeOK, SpawnAll, Spawn
<1>8. CASE Serves
  <2> DEFINE ServerTypes ==
        /\ web' \in {"off", "accept", "read", "reply", "stopped"} \/ Saving'
        /\ queue' \in Seq(Requests)
        /\ IF web' \in {"read", "reply"} \/ Saving' THEN req' \in Requests ELSE req' = None
        /\ IF Saving' THEN draft' \in Config ELSE draft' = None
        /\ stop' \in BOOLEAN /\ kill' \in BOOLEAN
        /\ page' \in (SUBSET Devices) \cup {None}
        /\ chosen' \in Devices \cup {None}
  <2>0. web # "off" /\ proc = "up"
    BY <1>8 DEF TypeOK, Serves, Accept, HandleOther, HandleConfig, LoadFails,
        HandleSave, HandleToggle, ToggleFails, HandleRestart, HandleShutdown, Handling,
        CopyBegins, CopyEnds, Truncate, WriteEnds, WriteFails, Reply
  <2> SUFFICES BootTypeOK' /\ room' = room /\ proc' = "up" /\ ServerTypes
    BY DEF TypeOK
  <2>1. CASE Accept
    <3>1. Head(queue) \in Requests /\ Tail(queue) \in Seq(Requests) /\ <<>> \in Seq(Requests)
      BY <2>1 DEF Accept, TypeOK
    <3>2. BootTypeOK' /\ proc' = proc /\ room' = room
      BY <2>1 DEF Accept, TypeOK, BootTypeOK
    <3>3. web' \in {"read", "stopped"} /\ draft' = None
      BY <2>1 DEF Accept, TypeOK
    <3>4. web' = "read" => req' \in Requests
      BY <2>1, <3>1 DEF Accept
    <3>5. web' = "stopped" => req' = None
      BY <2>1 DEF Accept
    <3>6. queue' \in Seq(Requests)
      BY <2>1, <3>1 DEF Accept
    <3>7. /\ stop' \in BOOLEAN /\ kill' \in BOOLEAN
          /\ page' \in (SUBSET Devices) \cup {None}
          /\ chosen' \in Devices \cup {None}
      BY <2>1 DEF Accept, TypeOK
    <3> QED BY <2>0, <3>2, <3>3, <3>4, <3>5, <3>6, <3>7
  <2>2. CASE HandleOther \/ LoadFails \/ ToggleFails \/ HandleRestart \/ WriteFails
    BY <2>0, <2>2 DEF HandleOther, LoadFails, ToggleFails, HandleRestart, WriteFails,
        Answered, TypeOK, BootTypeOK
  <2>3. CASE HandleConfig
    <3>1. Heard \subseteq Devices
      BY DEF Heard, TypeOK, BootTypeOK
    <3> QED BY <2>0, <2>3, <3>1 DEF HandleConfig, Answered, TypeOK, BootTypeOK
  <2>4. CASE HandleSave
    <3>1. draft' \in Config
      BY <2>4, SaveTyped, RequestTyped
         DEF HandleSave, Handling, Loads, Saves, TypeOK, BootTypeOK
    <3> QED BY <2>0, <2>4, <3>1 DEF HandleSave, Handling, Saves, TypeOK, BootTypeOK
  <2>5. CASE HandleToggle
    <3>1. file \in Config /\ naa_host \in Addresses /\ req.enable \in BOOLEAN
      BY <2>5, RequestTyped DEF HandleToggle, Handling, Loads, Added, Removed, TypeOK, BootTypeOK
    <3>2. draft' \in Config
      BY <2>5, <3>1, WithRuleTyped DEF HandleToggle, Saves
    <3>3. rules' \subseteq Addresses
      BY <2>5, <3>1 DEF HandleToggle, TypeOK, BootTypeOK
    <3> QED BY <2>0, <2>5, <3>2, <3>3 DEF HandleToggle, Handling, Saves, TypeOK, BootTypeOK
  <2>6. CASE HandleShutdown
    <3>1. draft' \in Config
      BY <2>6, WebOffTyped DEF HandleShutdown, Loads, Saves, TypeOK, BootTypeOK
    <3> QED BY <2>0, <2>6, <3>1 DEF HandleShutdown, Handling, Saves, TypeOK, BootTypeOK
  <2>7. CASE CopyBegins \/ CopyEnds \/ Truncate
    BY <2>0, <2>7 DEF CopyBegins, CopyEnds, Truncate, TypeOK, BootTypeOK
  <2>8. CASE WriteEnds
    BY <2>0, <2>8, RequestTyped DEF WriteEnds, TypeOK, BootTypeOK
  <2>9. CASE Reply
    <3>1. [op |-> "poke"] \in Requests
      BY DEF Requests
    <3>2. queue' \in Seq(Requests)
      BY <2>9, <3>1 DEF Reply, TypeOK
    <3>3. stop' \in BOOLEAN
      BY <2>9 DEF Reply, TypeOK
    <3> QED BY <2>0, <2>9, <3>2, <3>3 DEF Reply, Answered, TypeOK, BootTypeOK
  <2> QED BY <1>8, <2>1, <2>2, <2>3, <2>4, <2>5, <2>6, <2>7, <2>8, <2>9 DEF Serves
<1>9. CASE Killed
  BY <1>9, DownTypes DEF Killed, TypeOK, BootTypeOK
<1>10. ASSUME NEW r \in Requests, Asks(r)
       PROVE  TypeOK'
  <2>1. events' \in 0..MaxEvents /\ queue' \in Seq(Requests)
    BY <1>10 DEF Asks, Event, TypeOK, BootTypeOK
  <2> QED BY <1>10, <2>1 DEF Asks, TypeOK, BootTypeOK
<1>11. CASE (Dies \/ MachineRestarts) /\ WebGone
  <2>1. events' \in 0..MaxEvents
    BY <1>11 DEF Dies, MachineRestarts, Event, TypeOK, BootTypeOK
  <2> QED BY <1>11, <2>1, DownTypes DEF Dies, MachineRestarts, TypeOK, BootTypeOK
<1>12. ASSUME NEW d \in Devices, Switched(d), UNCHANGED adminVars
       PROVE  TypeOK'
  <2>1. events' \in 0..MaxEvents /\ present' \subseteq Devices /\ answers' \in [Devices -> 0..2]
    BY <1>12 DEF Switched, Event, TypeOK, BootTypeOK
  <2> QED BY <1>12, <2>1 DEF Switched, TypeOK, BootTypeOK
<1> QED
  BY <1>1, <1>2, <1>3, <1>4, <1>5, <1>6, <1>7, <1>8, <1>9, <1>10, <1>11, <1>12
     DEF Next, Booting

(* Configuration, rules, process and server are well typed; the server     *)
(* runs only while the process does, and holds a request and a draft       *)
(* exactly while it works on them.                                         *)
THEOREM AdminTypeCorrect == Spec => []TypeOK
BY InitTypes, StepTypes, PTL DEF Spec

-----------------------------------------------------------------------------
(* The inductive invariant.                                                *)

(* At every step of a save, a whole copy of the configuration is left.     *)
Whole ==
    /\ web \in {"copy", "copied", "truncate", "reply"} => file # Torn
    /\ web = "truncate" => bak \in {file, Torn} /\ (room => bak = file)
    /\ web = "write" => file = Torn
    /\ BackupHolds

(* What is being saved is what was asked for, made from the file.          *)
AskedFor ==
    /\ Saving \/ web = "reply" => req.op \in {"save", "toggle", "shutdown"}
    /\ web \in {"copy", "copied", "truncate"} => AsAsked(draft, file)
    /\ web = "write" /\ bak # Torn => AsAsked(draft, bak)
    /\ OnlyWhatWasAsked

(* From the moment the rule is switched.                                   *)
Promised ==
    /\ Saving /\ req.op = "toggle" => Told(draft)
    /\ ToggleTold

(* The boot works on what the file says.                                   *)
Loaded == proc \in {"search", "rule", "spawn"} => cfg = file

(* The rule is there from the boot on and for what is about to be saved.   *)
RuleThere ==
    works => /\ proc = "spawn" => InPlace(cfg)
             /\ Up /\ ~Saving /\ file # Torn => InPlace(file)
             /\ Saving => InPlace(draft)

(* The file names the device chosen, by address and by name.               *)
Names(c) == chosen # None => c.host = chosen /\ c.target = NameOf[chosen]
ChosenKept ==
    /\ file # Torn => Names(file)
    /\ Saving => IF req.op = "save"
                   THEN draft.host = req.device /\ draft.target = DeviceName(req.device)
                   ELSE Names(draft)

DistinctNames == \A d, e \in Devices : NameOf[d] = NameOf[e] => d = e
TargetChosen == DistinctNames => ChosenIsUsed

(* A shutdown is in the file before the server is told to stop.            *)
ShutDown ==
    /\ Saving /\ req.op = "shutdown" => ~draft.web
    /\ web = "reply" /\ req.op = "shutdown" => ~file.web
    /\ stop => web \in {"accept", "stopped"} /\ file # Torn /\ ~file.web
    /\ web = "stopped" => stop

IInv ==
    /\ TypeOK /\ Whole /\ AskedFor /\ Promised /\ Loaded
    /\ RuleThere /\ ChosenKept /\ TargetChosen /\ ShutDown

-----------------------------------------------------------------------------
(* The device chosen is what a configuration that names it resolves to:    *)
(* by the name if it has answered, by the address if it has not.           *)
LEMMA NamesResolve ==
    ASSUME DistinctNames, NEW c \in Config, NEW endpoints \in Seq(Devices),
           NEW d \in Devices, c.host = d, c.target = NameOf[d]
    PROVE  resolve_target(c, endpoints) = d
<1> USE BootAssumption
<1>1. CASE Named(c.target, endpoints) # {}
  <2> DEFINE S == Named(c.target, endpoints)
  <2>1. S \subseteq DOMAIN endpoints /\ S \subseteq Nat
    BY DEF Named
  <2>2. First(S) \in S
    BY <1>1, <2>1, FirstIsIn
  <2>3. endpoints[First(S)] \in Devices /\ NameOf[endpoints[First(S)]] = NameOf[d]
    BY <2>1, <2>2 DEF Named
  <2>4. endpoints[First(S)] = d
    BY <2>3 DEF DistinctNames
  <2> QED BY <1>1, <2>4 DEF resolve_target
<1>2. CASE Named(c.target, endpoints) = {}
  BY <1>2 DEF resolve_target
<1> QED BY <1>1, <1>2

(* A process that is down owes nothing but the whole copy.                 *)
LEMMA DownHolds ==
    ASSUME IInv, TypeOK', Down, WebGone
    PROVE  IInv'
<1>1. ~Saving' /\ web' = "off" /\ proc' = "down" /\ stop' = FALSE
  BY DEF Down, WebGone, Saving
<1>2. UNCHANGED <<file, bak, works, room, chosen>>
  BY DEF Down, WebGone, world
<1>3. Whole'
  BY <1>1, <1>2 DEF IInv, Whole, BackupHolds
<1>4. AskedFor' /\ Promised' /\ Loaded' /\ RuleThere' /\ ShutDown'
  BY <1>1 DEF AskedFor, OnlyWhatWasAsked, Promised, ToggleTold, Loaded, RuleThere, Up, ShutDown
<1>5. ChosenKept'
  BY <1>1, <1>2 DEF IInv, ChosenKept, Names
<1>6. TargetChosen'
  BY <1>1 DEF TargetChosen, ChosenIsUsed
<1> QED BY <1>3, <1>4, <1>5, <1>6 DEF IInv

(* A request that ends without an answer of a save changes nothing that    *)
(* the invariant is about.                                                 *)
LEMMA AnsweredHolds ==
    ASSUME IInv, TypeOK', Answered, ~stop', ~Saving \/ file = Torn, web # "off",
           UNCHANGED <<file, bak, rules, works, proc, cfg, target, room, chosen>>
    PROVE  IInv'
<1>1. ~Saving' /\ web' = "accept"
  BY DEF Answered, Saving
<1>2. Whole'
  BY <1>1 DEF IInv, Whole, BackupHolds
<1>3. AskedFor' /\ Promised' /\ ShutDown'
  BY <1>1 DEF AskedFor, OnlyWhatWasAsked, Promised, ToggleTold, ShutDown
<1>4. Loaded' /\ TargetChosen' /\ ChosenKept'
  BY <1>1 DEF IInv, Loaded, TargetChosen, ChosenIsUsed, ChosenKept, Names
<1>5. RuleThere'
  BY <1>1 DEF IInv, RuleThere, InPlace, Up
<1> QED BY <1>2, <1>3, <1>4, <1>5 DEF IInv

LEMMA InitHolds == Init => IInv
<1> SUFFICES ASSUME Init PROVE IInv
  OBVIOUS
<1> USE BootAssumption
<1>1. TypeOK
  BY InitTypes
<1>2. /\ web = "off" /\ proc = "down" /\ stop = FALSE /\ chosen = None
      /\ file # Torn /\ ~Saving
  BY DEF Init, BootInit, WebOff, Saving
<1> QED
  BY <1>1, <1>2 DEF IInv, Whole, BackupHolds, AskedFor, OnlyWhatWasAsked, Promised, ToggleTold,
     Loaded, RuleThere, Up, ChosenKept, Names, TargetChosen, ChosenIsUsed, ShutDown

(* The boot.                                                               *)
LEMMA BootingHolds ==
    ASSUME IInv, TypeOK', Booting
    PROVE  IInv'
<1> USE BootAssumption
<1> USE DEF world
<1>1. CASE NoTarget /\ UNCHANGED adminVars
  <2>1. WebGone
    BY <1>1 DEF IInv, TypeOK, NoTarget, SearchOver, WebGone, WebOff, Up, adminVars, server
  <2> QED BY <1>1, <2>1, DownHolds DEF NoTarget
<1>2. SUFFICES ASSUME ~NoTarget PROVE IInv'
  BY <1>1 DEF NoTarget, SearchOver, Booting, SpawnAll, Spawn
<1>3. web = "off" /\ ~stop
  BY <1>2 DEF Booting, Start, Hears, TargetFound, SearchOver, AddRule, SpawnAll, Spawn,
      IInv, TypeOK, WebOff, Up
<1>4. /\ web' \in {"off", "accept"} /\ ~Saving' /\ ~stop'
      /\ UNCHANGED <<file, bak, works, room, chosen>>
  BY <1>2, <1>3 DEF Booting, Start, Hears, TargetFound, AddRule, SpawnAll, Spawn,
      adminVars, server, Saving
<1>5. Whole' /\ AskedFor' /\ Promised' /\ ShutDown' /\ ChosenKept'
  BY <1>4 DEF IInv, Whole, BackupHolds, AskedFor, OnlyWhatWasAsked, Promised, ToggleTold,
      ShutDown, ChosenKept, Names
<1>6. Loaded' /\ proc' # "down"
  BY <1>2, <1>4 DEF Booting, Start, Hears, TargetFound, SearchOver, AddRule, SpawnAll, Spawn,
      IInv, Loaded
<1>7. RuleThere'
  <2>1. CASE AddRule
    BY <1>4, <2>1 DEF AddRule, Added, RuleThere, InPlace, Up
  <2>2. CASE SpawnAll
    BY <1>4, <2>2 DEF SpawnAll, Spawn, IInv, Loaded, RuleThere, InPlace, Up
  <2>3. CASE ~AddRule /\ ~SpawnAll
    BY <1>2, <1>4, <2>3 DEF Booting, Start, Hears, TargetFound, SearchOver, RuleThere, Up
  <2> QED BY <2>1, <2>2, <2>3
<1>8. TargetChosen'
  <2>1. CASE TargetFound
    <3> SUFFICES ASSUME DistinctNames, chosen # None PROVE target' = chosen
      BY <1>4 DEF TargetChosen, ChosenIsUsed
    <3>1. cfg = file /\ cfg \in Config /\ found \in Seq(Devices) /\ chosen \in Devices
      BY <2>1 DEF TargetFound, SearchOver, IInv, TypeOK, BootTypeOK, Loaded
    <3>2. cfg.host = chosen /\ cfg.target = NameOf[chosen]
      BY <3>1 DEF IInv, ChosenKept, Names
    <3> QED BY <2>1, <3>1, <3>2, NamesResolve DEF TargetFound
  <2>2. CASE AddRule
    BY <1>4, <2>2 DEF AddRule, IInv, TargetChosen, ChosenIsUsed
  <2>3. CASE ~TargetFound /\ ~AddRule
    BY <1>2, <1>4, <2>3 DEF Booting, Start, Hears, SearchOver, SpawnAll, Spawn,
        TargetChosen, ChosenIsUsed
  <2> QED BY <2>1, <2>2, <2>3
<1> QED BY <1>5, <1>6, <1>7, <1>8 DEF IInv

(* A save begins: what has to be shown is about the draft.                 *)
LEMMA SaveBegins ==
    ASSUME IInv, TypeOK', web = "read", Loads, NEW c \in Config, Saves(c),
           req.op \in {"save", "toggle", "shutdown"},
           AsAsked(c, file),
           req.op = "toggle" => Told(c)',
           works => InPlace(c)',
           IF req.op = "save" THEN c.host = req.device /\ c.target = DeviceName(req.device)
                              ELSE Names(c),
           req.op = "shutdown" => ~c.web
    PROVE  IInv'
<1> USE DEF world, process
<1>1. /\ web' = "copy" /\ draft' = c /\ Saving' /\ file # Torn /\ proc = "up" /\ ~stop
      /\ UNCHANGED <<file, bak, works, req, stop, room, chosen, proc, cfg, target>>
  BY DEF Saves, Loads, Saving, IInv, TypeOK, WebOff, Up, ShutDown
<1>2. Whole'
  BY <1>1 DEF IInv, Whole, BackupHolds
<1>3. AskedFor'
  BY <1>1 DEF AskedFor, AsAsked, OnlyWhatWasAsked
<1>4. Promised'
  BY <1>1 DEF Promised, ToggleTold, Told
<1>5. Loaded' /\ TargetChosen'
  BY <1>1 DEF Loaded, TargetChosen, ChosenIsUsed
<1>6. RuleThere'
  BY <1>1 DEF RuleThere, InPlace
<1>7. ChosenKept'
  BY <1>1 DEF IInv, ChosenKept, Names, DeviceName
<1>8. ShutDown'
  BY <1>1 DEF ShutDown
<1> QED BY <1>2, <1>3, <1>4, <1>5, <1>6, <1>7, <1>8 DEF IInv

(* The server.                                                             *)
LEMMA ServesHolds ==
    ASSUME IInv, TypeOK', Serves
    PROVE  IInv'
<1> USE BootAssumption
<1> USE DEF world, process, bootVars
<1>0. TypeOK /\ web # "off" /\ proc = "up"
  BY DEF IInv, TypeOK, WebOff, Up, Serves, Accept, HandleOther, HandleConfig, LoadFails,
      HandleSave, HandleToggle, ToggleFails, HandleRestart, HandleShutdown, Handling,
      CopyBegins, CopyEnds, Truncate, WriteEnds, WriteFails, Reply
<1>1. CASE Accept
  <2>1. /\ web' \in {"read", "stopped"} /\ ~Saving' /\ ~Saving
        /\ (web' = "stopped" <=> stop) /\ web = "accept"
        /\ UNCHANGED <<file, bak, rules, works, proc, cfg, target, stop, room, chosen>>
    BY <1>1 DEF Accept, Saving
  <2>2. Whole' /\ AskedFor' /\ Promised' /\ Loaded' /\ ChosenKept' /\ TargetChosen'
    BY <2>1 DEF IInv, Whole, BackupHolds, AskedFor, OnlyWhatWasAsked, Promised, ToggleTold,
        Loaded, ChosenKept, Names, TargetChosen, ChosenIsUsed
  <2>3. RuleThere' /\ ShutDown'
    BY <2>1 DEF IInv, RuleThere, InPlace, Up, ShutDown
  <2> QED BY <2>2, <2>3 DEF IInv
<1>2. CASE HandleOther \/ HandleConfig \/ LoadFails \/ ToggleFails \/ HandleRestart
  <2>1. web = "read" /\ ~Saving /\ ~stop
    BY <1>2 DEF HandleOther, HandleConfig, LoadFails, ToggleFails, HandleRestart, Handling,
        Saving, IInv, ShutDown
  <2>2. /\ Answered /\ ~stop'
        /\ UNCHANGED <<file, bak, rules, works, proc, cfg, target, room, chosen>>
    BY <1>2, <2>1 DEF HandleOther, HandleConfig, LoadFails, ToggleFails, HandleRestart
  <2> QED BY <2>1, <2>2, <1>0, AnsweredHolds
<1>3. CASE HandleSave
  <2>1. /\ web = "read" /\ req.op = "save" /\ Loads /\ UNCHANGED <<rules, works>>
        /\ file \in Config /\ req.device \in Devices \cup {None}
    BY <1>0, <1>3, RequestTyped DEF HandleSave, Handling, Loads, Saves, TypeOK, BootTypeOK
  <2>2. PICK c \in Config :
          c = [file EXCEPT !.host = req.device, !.target = DeviceName(req.device)]
    BY <2>1, SaveTyped
  <2>3. Saves(c)
    BY <1>3, <2>2 DEF HandleSave
  <2>4. /\ c.host = req.device /\ c.target = DeviceName(req.device)
        /\ c.iptables = file.iptables /\ AsAsked(c, file)
    BY <2>1, <2>2 DEF AsAsked, Config
  <2>5. works => InPlace(c)'
    BY <1>0, <2>1, <2>4 DEF IInv, RuleThere, InPlace, Up, Saving, Loads
  <2> QED BY <2>1, <2>3, <2>4, <2>5, SaveBegins
<1>4. CASE HandleToggle
  <2>1. /\ web = "read" /\ req.op = "toggle" /\ Loads /\ UNCHANGED <<works, req>>
        /\ file \in Config /\ naa_host \in Addresses /\ req.enable \in BOOLEAN
    BY <1>0, <1>4, RequestTyped
       DEF HandleToggle, Handling, Loads, Added, Removed, TypeOK, BootTypeOK, Saves
  <2>2. PICK c \in Config : c = WithRule(req.enable)
    BY <2>1, WithRuleTyped
  <2>3. Saves(c)
    BY <1>4, <2>2 DEF HandleToggle
  <2>4. /\ c.iptables = [enable |-> req.enable, naa_host |-> naa_host] /\ c.iptables # None
        /\ c = [file EXCEPT !.iptables = c.iptables]
        /\ c.host = file.host /\ c.target = file.target
    BY <2>1, <2>2 DEF WithRule, Config
  <2>5. IF req.enable THEN works /\ naa_host \in rules' ELSE works => naa_host \notin rules'
    BY <1>4 DEF HandleToggle, Added
  <2>6. AsAsked(c, file)
    BY <2>1, <2>4 DEF AsAsked, naa_host
  <2>7. Told(c)' /\ (works => InPlace(c)')
    BY <2>1, <2>4, <2>5 DEF Told, InPlace
  <2>8. Names(c)
    BY <2>1, <2>4 DEF IInv, ChosenKept, Names, Loads
  <2> QED BY <2>1, <2>3, <2>6, <2>7, <2>8, SaveBegins
<1>5. CASE HandleShutdown
  <2>1. /\ web = "read" /\ req.op = "shutdown" /\ Loads /\ UNCHANGED <<rules, works>>
        /\ file \in Config
    BY <1>0, <1>5 DEF HandleShutdown, Handling, Loads, Saves, TypeOK, BootTypeOK
  <2>2. PICK c \in Config : c = [file EXCEPT !.web = FALSE]
    BY <2>1, WebOffTyped
  <2>3. Saves(c)
    BY <1>5, <2>2 DEF HandleShutdown
  <2>4. /\ ~c.web /\ c.iptables = file.iptables /\ c.host = file.host /\ c.target = file.target
        /\ AsAsked(c, file)
    BY <2>1, <2>2 DEF AsAsked, Config
  <2>5. works => InPlace(c)'
    BY <1>0, <2>1, <2>4 DEF IInv, RuleThere, InPlace, Up, Saving, Loads
  <2>6. Names(c)
    BY <2>1, <2>4 DEF IInv, ChosenKept, Names, Loads
  <2> QED BY <2>1, <2>3, <2>4, <2>5, <2>6, SaveBegins
<1>6. CASE CopyBegins \/ CopyEnds \/ Truncate
  <2>1. /\ Saving /\ Saving' /\ web' # "reply" /\ ~stop
        /\ UNCHANGED <<rules, works, proc, cfg, target, req, draft, stop, room, chosen>>
    BY <1>6 DEF CopyBegins, CopyEnds, Truncate, Saving, IInv, ShutDown
  <2>2. Whole'
    <3>1. file # Torn => file \in Config
      BY <1>0 DEF TypeOK, BootTypeOK
    <3> QED BY <1>6, <3>1 DEF IInv, Whole, BackupHolds, CopyBegins, CopyEnds, Truncate
  <2>3. AskedFor'
    BY <1>6, <2>1 DEF IInv, Whole, AskedFor, AsAsked, OnlyWhatWasAsked,
        CopyBegins, CopyEnds, Truncate
  <2>4. Promised' /\ Loaded' /\ TargetChosen' /\ ShutDown'
    BY <1>0, <2>1 DEF IInv, Promised, ToggleTold, Told, Loaded, TargetChosen, ChosenIsUsed,
        ShutDown, Saving
  <2>5. RuleThere'
    BY <2>1 DEF IInv, RuleThere, InPlace
  <2>6. ChosenKept'
    BY <1>6, <2>1 DEF IInv, ChosenKept, Names, DeviceName, CopyBegins, CopyEnds, Truncate
  <2> QED BY <2>2, <2>3, <2>4, <2>5, <2>6 DEF IInv
<1>7. CASE WriteEnds
  <2>1. /\ web = "write" /\ Saving /\ web' = "reply" /\ ~Saving' /\ file' = draft
        /\ draft # Torn /\ ~stop
        /\ UNCHANGED <<bak, rules, works, proc, cfg, target, req, stop, room>>
    BY <1>0, <1>7 DEF WriteEnds, Saving, TypeOK, IInv, ShutDown
  <2>2. Whole'
    BY <2>1 DEF Whole, BackupHolds
  <2>3. AskedFor' /\ Promised'
    BY <2>1 DEF IInv, AskedFor, AsAsked, OnlyWhatWasAsked, Promised, ToggleTold, Told
  <2>4. Loaded' /\ TargetChosen' /\ ShutDown'
    BY <1>0, <2>1 DEF IInv, Loaded, TargetChosen, ChosenIsUsed, ShutDown
  <2>5. RuleThere'
    BY <2>1 DEF IInv, RuleThere, InPlace
  <2>6. ChosenKept'
    BY <1>7, <2>1 DEF WriteEnds, IInv, ChosenKept, Names, DeviceName
  <2> QED BY <2>2, <2>3, <2>4, <2>5, <2>6 DEF IInv
<1>8. CASE WriteFails
  <2>1. /\ Answered /\ ~stop' /\ file = Torn
        /\ UNCHANGED <<file, bak, rules, works, proc, cfg, target, room, chosen>>
    BY <1>8 DEF WriteFails, IInv, Whole, ShutDown
  <2> QED BY <2>1, <1>0, AnsweredHolds
<1>9. CASE Reply
  <2>1. /\ web = "reply" /\ ~Saving /\ web' = "accept" /\ ~Saving'
        /\ UNCHANGED <<file, bak, rules, works, proc, cfg, target, room, chosen>>
    BY <1>9 DEF Reply, Answered, Saving
  <2>2. Whole' /\ AskedFor' /\ Promised' /\ Loaded' /\ ChosenKept' /\ TargetChosen'
    BY <2>1 DEF IInv, Whole, BackupHolds, AskedFor, OnlyWhatWasAsked, Promised, ToggleTold,
        Loaded, ChosenKept, Names, TargetChosen, ChosenIsUsed
  <2>3. RuleThere'
    BY <2>1 DEF IInv, RuleThere, InPlace, Up
  <2>4. ShutDown'
    BY <1>9, <2>1 DEF Reply, IInv, Whole, ShutDown
  <2> QED BY <2>2, <2>3, <2>4 DEF IInv
<1> QED BY <1>1, <1>2, <1>3, <1>4, <1>5, <1>6, <1>7, <1>8, <1>9 DEF Serves

LEMMA StepHolds == IInv /\ [Next]_vars => IInv'
<1> SUFFICES ASSUME IInv, [Next]_vars PROVE IInv'
  OBVIOUS
<1>0. TypeOK'
  BY StepTypes DEF IInv
<1> USE DEF IInv, Whole, BackupHolds, AskedFor, AsAsked, OnlyWhatWasAsked, Promised, ToggleTold,
     Told, Loaded, RuleThere, InPlace, ChosenKept, Names, TargetChosen, ChosenIsUsed, ShutDown,
     Saving, Up, world, process, bootVars, server, adminVars
<1>1. CASE UNCHANGED vars
  BY <1>0, <1>1 DEF vars
<1>2. CASE Booting
  BY <1>0, <1>2, BootingHolds
<1>3. CASE Serves
  BY <1>0, <1>3, ServesHolds
<1>4. CASE Killed
  BY <1>0, <1>4, DownHolds DEF Killed
<1>5. ASSUME NEW r \in Requests, Asks(r) PROVE IInv'
  BY <1>0, <1>5 DEF Asks
<1>6. CASE (Dies \/ MachineRestarts) /\ WebGone
  BY <1>0, <1>6, DownHolds DEF Dies, MachineRestarts
<1>7. ASSUME NEW d \in Devices, Switched(d), UNCHANGED adminVars PROVE IInv'
  BY <1>0, <1>7 DEF Switched
<1> QED BY <1>1, <1>2, <1>3, <1>4, <1>5, <1>6, <1>7 DEF Next

LEMMA SpecHolds == Spec => []IInv
BY InitHolds, StepHolds, PTL DEF Spec

(* Whenever a save is cut off, by a crash or a reboot between any two of   *)
(* its steps, the file or its backup is whole, if the disk has room.       *)
THEOREM BackupAlwaysHolds == Spec => []BackupHolds
<1>1. IInv => BackupHolds
  BY DEF IInv, Whole
<1> QED BY <1>1, SpecHolds, PTL

(* A request changes what it asks for and nothing else, whatever requests, *)
(* crashes and boots came before it.                                       *)
THEOREM SavesWhatWasAsked == Spec => []OnlyWhatWasAsked
<1>1. IInv => OnlyWhatWasAsked
  BY DEF IInv, AskedFor
<1> QED BY <1>1, SpecHolds, PTL

(* A toggle that is answered "ok" has switched the rule of the host that   *)
(* the saved configuration names.                                          *)
THEOREM ToggleIsTold == Spec => []ToggleTold
<1>1. IInv => ToggleTold
  BY DEF IInv, Promised
<1> QED BY <1>1, SpecHolds, PTL

(* While the process is up and not in the middle of a request, the rule    *)
(* that the file enables is in the kernel, where iptables works.           *)
THEOREM EnabledRuleIsInPlace == Spec => []EnabledIsInPlace
<1>1. IInv => EnabledIsInPlace
  BY DEF IInv, RuleThere, EnabledIsInPlace, Saving
<1> QED BY <1>1, SpecHolds, PTL

(* Where no two devices have the same name, every boot after a save from   *)
(* the page serves the device saved, whichever answers are lost.           *)
THEOREM ChosenDeviceIsUsed == ASSUME DistinctNames PROVE Spec => []ChosenIsUsed
<1>1. IInv => ChosenIsUsed
  BY DEF IInv, TargetChosen
<1> QED BY <1>1, SpecHolds, PTL

-----------------------------------------------------------------------------
(* A server that has stopped because it was told to is never seen again:   *)
(* the file every later process loads says so.                             *)
Closed == web \in {"off", "stopped"} /\ (file = Torn \/ ~file.web)

LEMMA ClosedStays == IInv /\ Closed /\ [Next]_vars => Closed'
<1> SUFFICES ASSUME IInv, Closed, [Next]_vars PROVE Closed'
  OBVIOUS
<1> USE DEF Closed, world, process, bootVars, server, adminVars
<1>1. CASE UNCHANGED vars
  BY <1>1 DEF vars
<1>2. CASE SpawnAll
  <2>1. cfg = file
    BY <1>2 DEF SpawnAll, Spawn, IInv, Loaded
  <2>2. ~cfg.web
    BY <1>2, <2>1, BootAssumption DEF SpawnAll, Spawn, IInv, TypeOK, BootTypeOK
  <2> QED BY <1>2, <2>2 DEF SpawnAll, Spawn
<1>3. CASE Booting /\ ~SpawnAll
  BY <1>3 DEF Booting, Start, Hears, TargetFound, NoTarget, Down, AddRule
<1>4. CASE Serves
  BY <1>4 DEF Serves, Accept, HandleOther, HandleConfig, LoadFails, HandleSave, HandleToggle,
      ToggleFails, HandleRestart, HandleShutdown, Handling, CopyBegins, CopyEnds, Truncate,
      WriteEnds, WriteFails, Reply
<1>5. CASE Killed \/ ((Dies \/ MachineRestarts) /\ WebGone)
  BY <1>5 DEF Killed, Dies, MachineRestarts, Down, WebGone
<1>6. ASSUME NEW r \in Requests, Asks(r) PROVE Closed'
  BY <1>6 DEF Asks
<1>7. ASSUME NEW d \in Devices, Switched(d), UNCHANGED adminVars PROVE Closed'
  BY <1>7 DEF Switched
<1> QED BY <1>1, <1>2, <1>3, <1>4, <1>5, <1>6, <1>7 DEF Next

(* A shutdown from the page holds across restarts, crashes and reboots.    *)
THEOREM StaysShutDown == Spec => ShutDownForGood
<1>1. IInv => (web = "stopped" => Closed)
  BY DEF IInv, ShutDown, Closed
<1>2. Closed => web \in {"off", "stopped"}
  BY DEF Closed
<1> QED BY <1>1, <1>2, ClosedStays, SpecHolds, PTL DEF Spec, ShutDownForGood
=============================================================================
