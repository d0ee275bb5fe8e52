----------------------------- MODULE RoonClient -----------------------------
(***************************************************************************)
(* src/src/roon.rs: the thread that follows one zone of a Roon Core and    *)
(* publishes what it plays in the metadata shared with the frame proxy.    *)
(*                                                                         *)
(* Roon Core, the user who approves the extension and the WebSocket are    *)
(* external, modelled from the messages the code sends and expects.  A     *)
(* track stands for its title, artist and album, some or all of which may  *)
(* be empty; a cover for its image key; a length for the track it is the   *)
(* length of.                                                              *)
(***************************************************************************)
EXTENDS Integers, Sequences

CONSTANTS
    Tracks,      \* what a zone may play
    Images,      \* image keys
    ImageOf,     \* the image key of a track, or None
    HasLength,   \* the tracks that have a length (a radio station has none)
    Names,       \* display names of Roon's zones
    Zone,        \* the one to follow (cfg.zone)
    MaxSeek,     \* last seek position
    None,        \* an absent field, an empty string
    OthersPlay,  \* whether other zones play, and so have seek positions
    MayVanish,   \* whether a connection may be lost without either end told
    MaxEvents    \* bound on what happens to the zones and connections, and on restarts

ASSUME RoonAssumption ==
    /\ Zone \in Names
    /\ None \notin Tracks \cup Images
    /\ ImageOf \in [Tracks -> Images \cup {None}]
    /\ HasLength \subseteq Tracks
    /\ MaxSeek \in Nat /\ None \notin 0..MaxSeek
    /\ OthersPlay \in BOOLEAN /\ MayVanish \in BOOLEAN
    /\ MaxEvents \in Nat

VARIABLES
    pc,              \* "down", "info", "loop" or "download"
    meta,            \* SharedMetadata: the metadata
    zones,           \* SharedMetadata: the names of the zones seen
    last_image_key,  \* key of the cover last asked for on this connection
    core_id,         \* whether the core's id is known
    saved,           \* whether the token file holds a token
    pending,         \* the metadata apply_zone_update is working on
    link,            \* the connection: "none", "open", "closed" or "lost"
    inbox, outbox,   \* messages from and to Roon
    playing,         \* Roon: what each of its zones is doing
    session,         \* Roon: how far the connection has got
    asked,           \* Roon: its requests that are not answered
    events           \* bound

client == <<pc, meta, zones, last_image_key, core_id, saved, pending>>
network == <<link, inbox, outbox>>
roon == <<playing, session, asked, events>>
vars == <<client, network, roon>>

Absent == [track |-> None, seek |-> None, state |-> "absent"]
Stopped == [track |-> None, seek |-> None, state |-> "stopped"]
ZoneStates ==
    {Absent, Stopped} \cup
    [track : Tracks, seek : {None}, state : {"loading"}] \cup
    [track : Tracks, seek : 0..MaxSeek, state : {"playing", "paused"}]

Metadata ==
    [track : Tracks \cup {None}, cover : Images \cup {None},
     length : Tracks \cup {None}, seek : 0..MaxSeek \cup {None},
     state : {"playing", "paused", None}]
NoMetadata ==
    [track |-> None, cover |-> None, length |-> None, seek |-> None, state |-> None]

(* What Roon sends: the replies to info and register, updates of the zones *)
(* listed, the position of the first zone of those reported, and requests. *)
(* That no message is of two of these kinds is an assumption about Roon:   *)
(* of zones, zones_changed and zones_added in one body the code would see  *)
(* but the first (run_once).                                               *)
Requests == {"ping", "subscribe_pairing"}
ZoneLists == UNION {[names -> ZoneStates] : names \in SUBSET Names}
FromRoon ==
    [kind : {"info", "token", "zones_removed"}]
      \cup [kind : {"zones", "zones_changed", "zones_added"}, list : ZoneLists]
      \cup [kind : {"zones_seek_changed"}, first : 0..MaxSeek]
      \cup [kind : {"request"}, request : Requests]

(* What it is sent; a response says whether it names the core.             *)
ToRoon ==
    [kind : {"info", "subscribe_zones"}]
      \cup [kind : {"register"}, token : BOOLEAN]
      \cup [kind : {"response"}, request : Requests, core : BOOLEAN]

Init ==
    /\ pc = "down" /\ meta = NoMetadata /\ zones = {}
    /\ last_image_key = None /\ core_id = FALSE /\ saved = FALSE
    /\ pending = NoMetadata
    /\ link = "none" /\ inbox = <<>> /\ outbox = <<>>
    /\ playing \in [Names -> {Absent, Stopped}]
    /\ session = "none" /\ asked = {} /\ events = 0

-----------------------------------------------------------------------------
(* Roon Core and its user.                                                 *)

Event == events < MaxEvents /\ events' = events + 1

Tell(message) ==
    inbox' = IF link = "open" /\ session = "subscribed" THEN Append(inbox, message) ELSE inbox

(* It works off what the client sent.                                      *)
Answers ==
    /\ link = "open" /\ outbox # <<>> /\ outbox' = Tail(outbox)
    /\ LET m == Head(outbox)
       IN  \/ /\ m.kind = "info"
              /\ inbox' = Append(inbox, [kind |-> "info"])
              /\ UNCHANGED <<session, asked>>
           \/ /\ m.kind = "register"
              /\ inbox' = IF m.token THEN Append(inbox, [kind |-> "token"]) ELSE inbox
              /\ session' = IF m.token THEN "registered" ELSE "waiting"
              /\ UNCHANGED asked
           \/ /\ m.kind = "subscribe_zones"
              /\ LET names == {n \in Names : playing[n] # Absent}
                 IN  inbox' = Append(inbox, [kind |-> "zones",
                                             list |-> [n \in names |-> playing[n]]])
              /\ session' = "subscribed"
              /\ UNCHANGED asked
           \/ /\ m.kind = "response"
              /\ asked' = IF m.request = "subscribe_pairing" /\ ~m.core THEN asked
                                                                        ELSE asked \ {m.request}
              /\ UNCHANGED <<inbox, session>>
    /\ UNCHANGED <<client, link, playing, events>>

(* The user approves the extension in Roon's settings.                     *)
Approves ==
    /\ link = "open" /\ session = "waiting"
    /\ session' = "registered"
    /\ inbox' = Append(inbox, [kind |-> "token"])
    /\ UNCHANGED <<client, link, outbox, playing, asked, events>>

(* A zone appears, stops, or loads, plays or pauses a track.               *)
Plays(n, z) ==
    /\ Event /\ z # playing[n] /\ z # Absent
    /\ n = Zone \/ OthersPlay \/ z = Stopped
    /\ playing' = [playing EXCEPT ![n] = z]
    /\ Tell([kind |-> IF playing[n] = Absent THEN "zones_added" ELSE "zones_changed",
             list |-> [m \in {n} |-> z]])
    /\ UNCHANGED <<client, link, outbox, session, asked>>

(* A zone goes; of zones_removed the client takes no notice.               *)
Disappears(n) ==
    /\ Event /\ playing[n] # Absent
    /\ playing' = [playing EXCEPT ![n] = Absent]
    /\ Tell([kind |-> "zones_removed"])
    /\ UNCHANGED <<client, link, outbox, session, asked>>

(* Time passes in every zone that plays; Roon reports all of them at once, *)
(* in the order it likes.                                                  *)
Seeks ==
    LET moving == {n \in Names : playing[n].state = "playing" /\ playing[n].seek < MaxSeek}
    IN  /\ Event /\ moving # {}
        /\ playing' = [n \in Names |-> IF n \in moving THEN [playing[n] EXCEPT !.seek = @ + 1]
                                                       ELSE playing[n]]
        /\ \E first \in moving :
             Tell([kind |-> "zones_seek_changed", first |-> playing'[first].seek])
        /\ UNCHANGED <<client, link, outbox, session, asked>>

(* Roon asks something of the services the extension provides, once it has *)
(* them: an assumption about Roon, for recv_response would take a request  *)
(* for the reply it waits for, and never answer it.                        *)
Asks(request) ==
    /\ Event /\ link = "open" /\ session \in {"registered", "subscribed"}
    /\ request \notin asked
    /\ asked' = asked \cup {request}
    /\ inbox' = Append(inbox, [kind |-> "request", request |-> request])
    /\ UNCHANGED <<client, link, outbox, playing, session>>

(* Roon closes the connection, or the network takes it away.               *)
Breaks ==
    /\ Event /\ link = "open"
    /\ \/ link' = "closed"
       \/ MayVanish /\ link' = "lost"
    /\ UNCHANGED <<client, inbox, outbox, playing, session, asked>>

Roon ==
    \/ Answers \/ Approves \/ Seeks \/ Breaks
    \/ \E n \in Names : Disappears(n) \/ \E z \in ZoneStates : Plays(n, z)
    \/ \E request \in Requests : Asks(request)

-----------------------------------------------------------------------------
(* The client.                                                             *)

Send(message) == outbox' = Append(outbox, message)

(* run_once ends, whatever the reason; run starts it again 5 s later.      *)
Down ==
    /\ pc' = "down" /\ link' = "none" /\ inbox' = <<>> /\ outbox' = <<>>
    /\ session' = "none" /\ asked' = {}

(* Connected, and info asked for.  A connect that fails changes nothing.   *)
Connect ==
    /\ pc = "down"
    /\ link' = "open" /\ pc' = "info"
    /\ last_image_key' = None /\ core_id' = FALSE
    /\ Send([kind |-> "info"])
    /\ UNCHANGED <<meta, zones, saved, pending, inbox, roon>>

(* recv_response takes any message for the reply.                          *)
RecvInfo ==
    /\ pc = "info" /\ inbox # <<>>
    /\ inbox' = Tail(inbox)
    /\ core_id' = (Head(inbox).kind = "info")
    /\ Send([kind |-> "register", token |-> saved])
    /\ pc' = "loop"
    /\ UNCHANGED <<meta, zones, last_image_key, saved, pending, link, roon>>

(* There is no patience with a slow reply: 60 s without it are an error.   *)
InfoTimesOut ==
    /\ pc = "info" /\ inbox = <<>>
    /\ \/ link = "open" /\ Event
       \/ link = "lost" /\ UNCHANGED events
    /\ Down
    /\ UNCHANGED <<meta, zones, last_image_key, core_id, saved, pending, playing>>

(* Mutant: the event loop goes on after a close.                           *)
Fails_Continues ==
    /\ link = "closed" \/ (link = "lost" /\ outbox # <<>>)
    /\ \/ pc = "loop" /\ UNCHANGED vars
       \/ /\ pc = "info" /\ Down
          /\ UNCHANGED <<meta, zones, last_image_key, core_id, saved, pending, playing, events>>

(* A close is read, or a read or write fails.  In the event loop a read    *)
(* that times out does not count: a lost connection is noticed only by     *)
(* what was sent on it and not acknowledged.                               *)
Fails ==
    /\ pc \in {"info", "loop"}
    /\ link = "closed" \/ (link = "lost" /\ outbox # <<>>)
    /\ Down
    /\ UNCHANGED <<meta, zones, last_image_key, core_id, saved, pending, playing, events>>

(* A read that times out in the event loop is tried again.                 *)
ReadTimesOut ==
    /\ pc = "loop" /\ inbox = <<>> /\ link \in {"open", "lost"}
    /\ UNCHANGED vars

(* The event loop reads a message of the given kind.                       *)
Reads(kinds) ==
    /\ pc = "loop" /\ inbox # <<>> /\ Head(inbox).kind \in kinds
    /\ inbox' = Tail(inbox)

(* Mutant: only the pairing service answers.                               *)
HandleRequest_PairingOnly ==
    /\ Reads({"request"})
    /\ LET request == Head(inbox).request
       IN  IF request = "subscribe_pairing"
           THEN Send([kind |-> "response", request |-> request, core |-> core_id])
           ELSE UNCHANGED outbox
    /\ UNCHANGED <<client, link, roon>>

HandleRequest ==
    /\ Reads({"request"})
    /\ LET request == Head(inbox).request
       IN  Send([kind |-> "response", request |-> request,
                 core |-> request = "subscribe_pairing" /\ core_id])
    /\ UNCHANGED <<client, link, roon>>

(* Paired: the file may not be written, or be left without a token.        *)
HandleToken ==
    /\ Reads({"token"})
    /\ saved' \in BOOLEAN
    /\ Send([kind |-> "subscribe_zones"])
    /\ UNCHANGED <<pc, meta, zones, last_image_key, core_id, pending, link, roon>>

(* What is published of a zone's state.                                    *)
PlayState(state) ==
    CASE state \in {"playing", "loading"} -> "playing"
      [] state = "paused" -> "paused"
      [] OTHER -> None

(* Mutant: the state is published as Roon names it.                        *)
apply_zone_update_RawState(m, z) ==
    [m EXCEPT !.track = IF z.track = None THEN @ ELSE z.track,
              !.length = IF z.track \in HasLength THEN z.track ELSE @,
              !.seek = IF z.seek = None THEN @ ELSE z.seek,
              !.state = z.state]

(* Mutant: the position is left to zones_seek_changed.                     *)
apply_zone_update_NoSeek(m, z) ==
    [m EXCEPT !.track = IF z.track = None THEN @ ELSE z.track,
              !.length = IF z.track \in HasLength THEN z.track ELSE @,
              !.state = PlayState(z.state)]

(* All of the update but the cover; a field it lacks is left as it is.     *)
apply_zone_update(m, z) ==
    [track  |-> IF z.track = None THEN m.track ELSE z.track,
     cover  |-> m.cover,
     length |-> IF z.track \in HasLength THEN z.track ELSE m.length,
     seek   |-> IF z.seek = None THEN m.seek ELSE z.seek,
     state  |-> PlayState(z.state)]

NeedsCover(z) ==
    z.track # None /\ ImageOf[z.track] \notin {None, last_image_key}

(* Mutant: the initial list of zones is not looked at.                     *)
ZoneUpdates_ChangesOnly == {"zones_changed", "zones_added"}

ZoneUpdates == {"zones", "zones_changed", "zones_added"}

(* Mutant: the names of the update replace those seen before.              *)
WithNames_Replaced(list) == DOMAIN list

WithNames(list) == zones \cup DOMAIN list

(* Zone updates: all names are remembered, the zone followed is applied.   *)
(* A new image key holds the update back until the cover is there.         *)
HandleZones ==
    /\ Reads(ZoneUpdates)
    /\ LET list == Head(inbox).list
       IN  /\ zones' = WithNames(list)
           /\ \/ /\ Zone \in DOMAIN list /\ NeedsCover(list[Zone])
                 /\ last_image_key' = ImageOf[list[Zone].track]
                 /\ pending' = apply_zone_update(meta, list[Zone])
                 /\ pc' = "download" /\ UNCHANGED meta
              \/ /\ Zone \in DOMAIN list /\ ~NeedsCover(list[Zone])
                 /\ meta' = apply_zone_update(meta, list[Zone])
                 /\ UNCHANGED <<pc, last_image_key, pending>>
              \/ /\ Zone \notin DOMAIN list
                 /\ UNCHANGED <<pc, meta, last_image_key, pending>>
    /\ UNCHANGED <<core_id, saved, outbox, link, roon>>

(* Mutant: a download that fails leaves the cover as it was.               *)
DownloadEnds_Keeps ==
    /\ pc = "download" /\ pc' = "loop"
    /\ \E cover \in {last_image_key, pending.cover} :
         meta' = [pending EXCEPT !.cover = cover]
    /\ pending' = NoMetadata
    /\ UNCHANGED <<zones, last_image_key, core_id, saved, network, roon>>

(* The cover came, or the download failed (5 s at most); all is published. *)
DownloadEnds ==
    /\ pc = "download" /\ pc' = "loop"
    /\ \E cover \in {last_image_key, None} : meta' = [pending EXCEPT !.cover = cover]
    /\ pending' = NoMetadata
    /\ UNCHANGED <<zones, last_image_key, core_id, saved, network, roon>>

(* apply_zones_seek: the first entry, of whatever zone it is.              *)
HandleSeek ==
    /\ Reads({"zones_seek_changed"})
    /\ meta' = [meta EXCEPT !.seek = Head(inbox).first]
    /\ UNCHANGED <<pc, zones, last_image_key, core_id, saved, pending, outbox, link, roon>>

(* Nothing in it that the code looks for.                                  *)
Ignores ==
    /\ pc = "loop" /\ inbox # <<>> /\ inbox' = Tail(inbox)
    /\ Head(inbox).kind \notin ZoneUpdates \cup {"request", "token", "zones_seek_changed"}
    /\ UNCHANGED <<client, outbox, link, roon>>

Client ==
    \/ Connect \/ RecvInfo \/ InfoTimesOut \/ Fails \/ HandleRequest \/ HandleToken
    \/ HandleZones \/ DownloadEnds \/ HandleSeek \/ Ignores

(* The process is killed, or crashes, and systemd starts it again: only    *)
(* the token file is left.                                                 *)
Restart ==
    /\ Event /\ Down
    /\ meta' = NoMetadata /\ zones' = {}
    /\ last_image_key' = None /\ core_id' = FALSE /\ pending' = NoMetadata
    /\ UNCHANGED <<saved, playing>>

Next == Client \/ ReadTimesOut \/ Restart \/ Roon

Spec == Init /\ [][Next]_vars

(* The client's thread runs, Roon answers and closes what it does not      *)
(* keep, and the user approves the extension when asked to.                *)
FairSpec ==
    /\ Spec
    /\ WF_vars(Client) /\ WF_vars(Approves) /\ WF_vars(Answers)

-----------------------------------------------------------------------------
(* The types of the state; while a cover is downloaded, last_image_key is  *)
(* the key of the track the update held back is about.                     *)
TypeOK ==
    /\ pc \in {"down", "info", "loop", "download"}
    /\ meta \in Metadata /\ pending \in Metadata
    /\ zones \subseteq Names
    /\ last_image_key \in Images \cup {None}
    /\ core_id \in BOOLEAN /\ saved \in BOOLEAN
    /\ link \in {"none", "open", "closed", "lost"}
    /\ inbox \in Seq(FromRoon) /\ outbox \in Seq(ToRoon)
    /\ playing \in [Names -> ZoneStates]
    /\ session \in {"none", "waiting", "registered", "subscribed"}
    /\ asked \subseteq Requests
    /\ events \in 0..MaxEvents
    /\ pc = "download" => /\ pending.track # None
                          /\ last_image_key = ImageOf[pending.track]
                          /\ last_image_key # None

(* Subscribed, and every message either way worked off.                    *)
Quiet ==
    /\ pc = "loop" /\ link = "open" /\ session = "subscribed"
    /\ inbox = <<>> /\ outbox = <<>>

(* What the NAA can be given to display is what the zone plays, whatever   *)
(* happened while the connection was down and however updates interleaved  *)
(* with downloads.  (A zone that stops keeps its last track.)              *)
Shown ==
    playing[Zone] # Absent =>
        /\ playing[Zone].track \in {None, meta.track}
        /\ meta.state = CASE playing[Zone] = Stopped -> None
                          [] playing[Zone].state = "paused" -> "paused"
                          [] OTHER -> "playing"
Displayed == Quiet => Shown

(* The position displayed is the position of the zone followed.            *)
SeekShown == Quiet => playing[Zone].seek \in {None, meta.seek}

(* The frame proxy, which may read at any moment, never finds a track with *)
(* the cover or the length of another.                                     *)
OwnCover == meta.cover # None => meta.track # None /\ meta.cover = ImageOf[meta.track]
OwnLength == meta.length \in {None, meta.track}
OwnDetails == OwnCover /\ OwnLength

(* Roon gets its answer to every request, and the core that asks for the   *)
(* pairing is told that it is paired.                                      *)
Answered == Quiet => asked = {}

(* Every zone of Roon's can be chosen in the web page.                     *)
ZonesListed == Quiet => \A n \in Names : playing[n] # Absent => n \in zones

(* Once no more happens, the metadata becomes what the zone plays and      *)
(* stays so: connections that break or never got ready are replaced.       *)
CatchesUp == <>[]Shown
=============================================================================
