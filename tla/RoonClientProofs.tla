-------------------------- MODULE RoonClientProofs --------------------------
(***************************************************************************)
(* The types of RoonClient, and that a track is never published with the   *)
(* cover or the length of another, for any tracks, zones and number of     *)
(* events, as long as every track has a cover and a length.  The second    *)
(* needs KeyIsShown: last_image_key, which decides that the cover already  *)
(* published may stay, is the key of the track already published.          *)
(***************************************************************************)
EXTENDS RoonClient, SequenceLemmas

LEMMA TypeInit == Init => TypeOK
<1> SUFFICES ASSUME Init PROVE TypeOK
  OBVIOUS
<1>1. NoMetadata \in Metadata
  BY DEF NoMetadata, Metadata
<1>2. inbox \in Seq(FromRoon) /\ outbox \in Seq(ToRoon)
  BY EmptySeq DEF Init
<1>3. playing \in [Names -> ZoneStates]
  BY DEF Init, ZoneStates
<1>4. /\ pc = "down" /\ link = "none" /\ session = "none"
      /\ zones = {} /\ asked = {} /\ events = 0
      /\ meta = NoMetadata /\ pending = NoMetadata
      /\ last_image_key = None /\ core_id = FALSE /\ saved = FALSE
  BY DEF Init
<1>5. 0 \in 0..MaxEvents
  BY RoonAssumption DEF RoonAssumption
<1> QED
  BY <1>1, <1>2, <1>3, <1>4, <1>5 DEF TypeOK

(* A zone's state that has a track is one of a zone that plays it.         *)
LEMMA ZoneStateType ==
    ASSUME NEW z \in ZoneStates
    PROVE  /\ z.track \in Tracks \cup {None} /\ z.seek \in 0..MaxSeek \cup {None}
           /\ z.state = "playing" => z \in [track : Tracks, seek : 0..MaxSeek,
                                            state : {"playing", "paused"}]
BY DEF ZoneStates, Absent, Stopped

LEMMA ListType ==
    ASSUME TypeOK, inbox # <<>>
    PROVE  /\ Head(inbox) \in FromRoon /\ Tail(inbox) \in Seq(FromRoon)
           /\ Head(inbox).kind \in ZoneUpdates => Head(inbox).list \in ZoneLists
           /\ Head(inbox).kind = "zones_seek_changed" => Head(inbox).first \in 0..MaxSeek
           /\ Head(inbox).kind = "request" => Head(inbox).request \in Requests
<1>1. Head(inbox) \in FromRoon /\ Tail(inbox) \in Seq(FromRoon)
  BY HeadTailProperties DEF TypeOK
<1> QED
  BY <1>1 DEF FromRoon, ZoneUpdates

LEMMA ZoneListType ==
    ASSUME NEW list \in ZoneLists
    PROVE  DOMAIN list \subseteq Names /\ \A n \in DOMAIN list : list[n] \in ZoneStates
BY DEF ZoneLists

LEMMA ListIsZoneList ==
    ASSUME NEW names \in SUBSET Names, NEW list \in [names -> ZoneStates]
    PROVE  list \in ZoneLists
BY DEF ZoneLists

LEMMA UpdateType ==
    ASSUME NEW m \in Metadata, NEW z \in ZoneStates
    PROVE  /\ apply_zone_update(m, z) \in Metadata
           /\ apply_zone_update(m, z).cover = m.cover
           /\ apply_zone_update(m, z).track = IF z.track = None THEN m.track ELSE z.track
           /\ apply_zone_update(m, z).length = IF z.track \in HasLength THEN z.track ELSE m.length
<1> DEFINE track == IF z.track = None THEN m.track ELSE z.track
           length == IF z.track \in HasLength THEN z.track ELSE m.length
           seek == IF z.seek = None THEN m.seek ELSE z.seek
           state == PlayState(z.state)
<1>1. /\ z.track \in Tracks \cup {None} /\ z.seek \in 0..MaxSeek \cup {None}
      /\ HasLength \subseteq Tracks
  BY ZoneStateType, RoonAssumption DEF RoonAssumption
<1>2. /\ m.track \in Tracks \cup {None} /\ m.length \in Tracks \cup {None}
      /\ m.seek \in 0..MaxSeek \cup {None} /\ m.cover \in Images \cup {None}
      /\ DOMAIN m = {"track", "cover", "length", "seek", "state"}
  BY DEF Metadata
<1>3. apply_zone_update(m, z) =
        [track |-> track, cover |-> m.cover, length |-> length, seek |-> seek, state |-> state]
  BY DEF apply_zone_update
<1>4. /\ track \in Tracks \cup {None} /\ length \in Tracks \cup {None}
      /\ seek \in 0..MaxSeek \cup {None} /\ state \in {"playing", "paused", None}
  BY <1>1, <1>2 DEF PlayState
<1> HIDE DEF track, length, seek, state
<1>5. apply_zone_update(m, z) \in Metadata
  BY <1>2, <1>3, <1>4 DEF Metadata
<1>6. /\ apply_zone_update(m, z).cover = m.cover
      /\ apply_zone_update(m, z).track = track /\ apply_zone_update(m, z).length = length
  BY <1>3
<1> QED
  BY <1>5, <1>6 DEF track, length

LEMMA FromRoonTypes ==
    ASSUME inbox \in Seq(FromRoon)
    PROVE  /\ Append(inbox, [kind |-> "info"]) \in Seq(FromRoon)
           /\ Append(inbox, [kind |-> "token"]) \in Seq(FromRoon)
           /\ Append(inbox, [kind |-> "zones_removed"]) \in Seq(FromRoon)
           /\ \A k \in {"zones", "zones_changed", "zones_added"}, list \in ZoneLists :
                Append(inbox, [kind |-> k, list |-> list]) \in Seq(FromRoon)
           /\ \A f \in 0..MaxSeek :
                Append(inbox, [kind |-> "zones_seek_changed", first |-> f]) \in Seq(FromRoon)
           /\ \A r \in Requests :
                Append(inbox, [kind |-> "request", request |-> r]) \in Seq(FromRoon)
<1>1. /\ [kind |-> "info"] \in FromRoon /\ [kind |-> "token"] \in FromRoon
      /\ [kind |-> "zones_removed"] \in FromRoon
  BY DEF FromRoon
<1>2. \A k \in {"zones", "zones_changed", "zones_added"}, list \in ZoneLists :
        [kind |-> k, list |-> list] \in FromRoon
  BY DEF FromRoon
<1>3. \A f \in 0..MaxSeek : [kind |-> "zones_seek_changed", first |-> f] \in FromRoon
  BY DEF FromRoon
<1>4. \A r \in Requests : [kind |-> "request", request |-> r] \in FromRoon
  BY DEF FromRoon
<1> QED
  BY <1>1, <1>2, <1>3, <1>4, AppendProperties

LEMMA ToRoonTypes ==
    ASSUME outbox \in Seq(ToRoon)
    PROVE  /\ Append(outbox, [kind |-> "info"]) \in Seq(ToRoon)
           /\ Append(outbox, [kind |-> "subscribe_zones"]) \in Seq(ToRoon)
           /\ \A t \in BOOLEAN : Append(outbox, [kind |-> "register", token |-> t]) \in Seq(ToRoon)
           /\ \A r \in Requests, c \in BOOLEAN :
                Append(outbox, [kind |-> "response", request |-> r, core |-> c]) \in Seq(ToRoon)
<1>1. /\ [kind |-> "info"] \in ToRoon /\ [kind |-> "subscribe_zones"] \in ToRoon
      /\ \A t \in BOOLEAN : [kind |-> "register", token |-> t] \in ToRoon
      /\ \A r \in Requests, c \in BOOLEAN :
           [kind |-> "response", request |-> r, core |-> c] \in ToRoon
  BY DEF ToRoon
<1> QED
  BY <1>1, AppendProperties

(* The update held back while a cover is downloaded.                       *)
LEMMA HeldBack ==
    ASSUME TypeOK, NEW z \in ZoneStates, NeedsCover(z),
           last_image_key' = ImageOf[z.track], pending' = apply_zone_update(meta, z)
    PROVE  /\ pending' \in Metadata /\ pending'.track = z.track /\ z.track \in Tracks
           /\ last_image_key' \in Images /\ last_image_key' = ImageOf[pending'.track]
           /\ pending'.track # None /\ last_image_key' # None
<1>1. meta \in Metadata
  BY DEF TypeOK
<1>2. z.track # None /\ ImageOf[z.track] # None /\ z.track \in Tracks
  BY ZoneStateType DEF NeedsCover
<1>3. pending' \in Metadata /\ pending'.track = z.track
  BY <1>1, <1>2, UpdateType
<1>4. ImageOf[z.track] \in Images
  BY <1>2, RoonAssumption DEF RoonAssumption
<1> QED
  BY <1>2, <1>3, <1>4

LEMMA TypeStep ==
    ASSUME TypeOK, [Next]_vars
    PROVE  TypeOK'
<1> USE RoonAssumption DEF RoonAssumption
<1> DEFINE Held == pc = "download" => /\ pending.track # None
                                      /\ last_image_key = ImageOf[pending.track]
                                      /\ last_image_key # None
<1>1. CASE Connect
  BY <1>1, ToRoonTypes DEF TypeOK, Connect, Send, roon
<1>2. CASE RecvInfo
  BY <1>2, ToRoonTypes, ListType DEF TypeOK, RecvInfo, Send, roon
<1>3. CASE InfoTimesOut
  BY <1>3, EmptySeq DEF TypeOK, InfoTimesOut, Down, Event
<1>4. CASE Fails
  BY <1>4, EmptySeq DEF TypeOK, Fails, Down
<1>5. CASE HandleRequest
  <2>1. Head(inbox).request \in Requests /\ Tail(inbox) \in Seq(FromRoon)
    BY <1>5, ListType DEF HandleRequest, Reads
  <2>2. outbox' \in Seq(ToRoon)
    <3>1. (Head(inbox).request = "subscribe_pairing" /\ core_id) \in BOOLEAN
      BY DEF TypeOK
    <3> QED
      BY <1>5, <2>1, <3>1, ToRoonTypes DEF HandleRequest, Send, TypeOK
  <2> QED
    BY <1>5, <2>1, <2>2 DEF TypeOK, HandleRequest, Reads, client, roon
<1>6. CASE HandleToken
  BY <1>6, ToRoonTypes, ListType DEF TypeOK, HandleToken, Reads, Send, roon
<1>7. CASE HandleZones
  <2> DEFINE list == Head(inbox).list
  <2>1. /\ list \in ZoneLists /\ inbox' \in Seq(FromRoon)
        /\ DOMAIN list \subseteq Names /\ \A n \in DOMAIN list : list[n] \in ZoneStates
    BY <1>7, ListType, ZoneListType DEF HandleZones, Reads
  <2>2. /\ zones' = WithNames(list)
        /\ UNCHANGED <<core_id, saved, outbox, link, playing, session, asked, events>>
        /\ pc = "loop"
    BY <1>7 DEF HandleZones, Reads, roon
  <2>3. zones' \subseteq Names
    BY <2>1, <2>2 DEF WithNames, TypeOK
  <2>4. CASE /\ Zone \in DOMAIN list /\ NeedsCover(list[Zone])
             /\ last_image_key' = ImageOf[list[Zone].track]
             /\ pending' = apply_zone_update(meta, list[Zone])
             /\ pc' = "download" /\ UNCHANGED meta
    <3>1. /\ pending' \in Metadata /\ last_image_key' \in Images
          /\ pending'.track # None /\ last_image_key' # None
          /\ last_image_key' = ImageOf[pending'.track]
      BY <2>1, <2>4, HeldBack
    <3> QED
      BY <2>1, <2>2, <2>3, <2>4, <3>1 DEF TypeOK
  <2>5. CASE /\ Zone \in DOMAIN list /\ ~NeedsCover(list[Zone])
             /\ meta' = apply_zone_update(meta, list[Zone])
             /\ UNCHANGED <<pc, last_image_key, pending>>
    <3>1. meta' \in Metadata
      BY <2>1, <2>5, UpdateType DEF TypeOK
    <3> QED
      BY <2>1, <2>2, <2>3, <2>5, <3>1 DEF TypeOK
  <2>6. CASE UNCHANGED <<pc, meta, last_image_key, pending>>
    BY <2>1, <2>2, <2>3, <2>6 DEF TypeOK
  <2> QED
    BY <1>7, <2>4, <2>5, <2>6 DEF HandleZones
<1>8. CASE DownloadEnds
  <2>1. meta' \in Metadata
    BY <1>8 DEF DownloadEnds, TypeOK, Metadata
  <2>2. NoMetadata \in Metadata
    BY DEF NoMetadata, Metadata
  <2> QED
    BY <1>8, <2>1, <2>2 DEF DownloadEnds, TypeOK, network, roon
<1>9. CASE HandleSeek
  <2>1. meta' \in Metadata /\ inbox' \in Seq(FromRoon)
    BY <1>9, ListType DEF HandleSeek, Reads, TypeOK, Metadata
  <2> QED
    BY <1>9, <2>1 DEF HandleSeek, Reads, TypeOK, roon
<1>10. CASE Ignores
  BY <1>10, ListType DEF Ignores, TypeOK, client, roon
<1>11. CASE ReadTimesOut \/ UNCHANGED vars
  BY <1>11 DEF ReadTimesOut, vars, client, network, roon, TypeOK
<1>12. CASE Restart
  <2>1. NoMetadata \in Metadata
    BY DEF NoMetadata, Metadata
  <2>2. /\ pc' = "down" /\ meta' = NoMetadata /\ pending' = NoMetadata /\ zones' = {}
        /\ last_image_key' = None /\ core_id' = FALSE /\ UNCHANGED <<saved, playing>>
        /\ link' = "none" /\ inbox' = <<>> /\ outbox' = <<>>
        /\ session' = "none" /\ asked' = {}
    BY <1>12 DEF Restart, Down
  <2>3. events' \in 0..MaxEvents
    BY <1>12 DEF Restart, Event, TypeOK
  <2> QED
    BY <2>1, <2>2, <2>3, EmptySeq DEF TypeOK
<1>13. CASE Answers
  <2>1. Tail(outbox) \in Seq(ToRoon)
    BY <1>13, HeadTailProperties DEF Answers, TypeOK
  <2> DEFINE names == {n \in Names : playing[n] # Absent}
             list == [n \in names |-> playing[n]]
  <2>2. list \in ZoneLists
    <3>1. names \in SUBSET Names /\ list \in [names -> ZoneStates]
      BY DEF TypeOK
    <3> HIDE DEF names, list
    <3> QED
      BY <3>1, ListIsZoneList
  <2>3. inbox' \in Seq(FromRoon)
    BY <1>13, <2>2, FromRoonTypes DEF Answers, TypeOK
  <2>4. session' \in {"none", "waiting", "registered", "subscribed"} /\ asked' \subseteq Requests
    BY <1>13 DEF Answers, TypeOK
  <2> QED
    BY <1>13, <2>1, <2>3, <2>4 DEF Answers, TypeOK, client
<1>14. CASE Approves
  BY <1>14, FromRoonTypes DEF Approves, TypeOK, client
<1>15. CASE Seeks
  <2> DEFINE moving == {n \in Names : playing[n].state = "playing" /\ playing[n].seek < MaxSeek}
  <2>1. playing' = [n \in Names |-> IF n \in moving THEN [playing[n] EXCEPT !.seek = @ + 1]
                                                    ELSE playing[n]]
    BY <1>15 DEF Seeks
  <2>2. \A n \in moving : /\ [playing[n] EXCEPT !.seek = @ + 1] \in ZoneStates
                          /\ [playing[n] EXCEPT !.seek = @ + 1].seek \in 0..MaxSeek
    <3> SUFFICES ASSUME NEW n \in moving
                 PROVE  /\ [playing[n] EXCEPT !.seek = @ + 1] \in ZoneStates
                        /\ [playing[n] EXCEPT !.seek = @ + 1].seek \in 0..MaxSeek
      OBVIOUS
    <3>1. playing[n] \in [track : Tracks, seek : 0..MaxSeek, state : {"playing", "paused"}]
      BY ZoneStateType DEF TypeOK
    <3> QED
      BY <3>1 DEF ZoneStates
  <2>3. playing' \in [Names -> ZoneStates] /\ \A n \in moving : playing'[n].seek \in 0..MaxSeek
    BY <2>1, <2>2 DEF TypeOK
  <2>4. inbox' \in Seq(FromRoon)
    BY <1>15, <2>3, FromRoonTypes DEF Seeks, Tell, TypeOK
  <2> QED
    BY <1>15, <2>3, <2>4 DEF Seeks, Event, TypeOK, client
<1>16. CASE Breaks
  BY <1>16 DEF Breaks, Event, TypeOK, client
<1>17. ASSUME NEW n \in Names, Disappears(n) PROVE TypeOK'
  <2>1. playing' \in [Names -> ZoneStates]
    BY <1>17 DEF Disappears, TypeOK, ZoneStates
  <2>2. inbox' \in Seq(FromRoon)
    BY <1>17, FromRoonTypes DEF Disappears, Tell, TypeOK
  <2> QED
    BY <1>17, <2>1, <2>2 DEF Disappears, Event, TypeOK, client
<1>18. ASSUME NEW n \in Names, NEW z \in ZoneStates, Plays(n, z) PROVE TypeOK'
  <2>1. playing' \in [Names -> ZoneStates]
    BY <1>18 DEF Plays, TypeOK
  <2>2. [m \in {n} |-> z] \in ZoneLists
    BY ListIsZoneList
  <2>3. inbox' \in Seq(FromRoon)
    BY <1>18, <2>2, FromRoonTypes DEF Plays, Tell, TypeOK
  <2> QED
    BY <1>18, <2>1, <2>3 DEF Plays, Event, TypeOK, client
<1>19. ASSUME NEW r \in Requests, Asks(r) PROVE TypeOK'
  BY <1>19, FromRoonTypes DEF Asks, Event, TypeOK, client
<1> QED
  BY <1>1, <1>2, <1>3, <1>4, <1>5, <1>6, <1>7, <1>8, <1>9, <1>10, <1>11, <1>12, <1>13,
     <1>14, <1>15, <1>16, <1>17, <1>18, <1>19 DEF Next, Client, Roon

-----------------------------------------------------------------------------
(* Tracks as a player's library has them; a radio station is not one.      *)
Detailed == HasLength = Tracks /\ \A t \in Tracks : ImageOf[t] # None

KeyIsShown ==
    last_image_key # None /\ pc # "download" =>
        meta.track # None /\ ImageOf[meta.track] = last_image_key

HeldLength == pc = "download" => pending.length = pending.track

DetailsInv == TypeOK /\ OwnDetails /\ KeyIsShown /\ HeldLength

LEMMA DetailsInit == Init => DetailsInv
BY TypeInit DEF Init, DetailsInv, NoMetadata, OwnDetails, OwnCover, OwnLength, KeyIsShown, HeldLength

LEMMA DetailsStep ==
    ASSUME Detailed, DetailsInv, [Next]_vars
    PROVE  DetailsInv'
<1>0. TypeOK /\ TypeOK'
  BY TypeStep DEF DetailsInv
<1>1. CASE Restart
  BY <1>0, <1>1 DEF Restart, Down, NoMetadata, DetailsInv, OwnDetails, OwnCover, OwnLength,
                    KeyIsShown, HeldLength
<1>2. CASE HandleZones
  <2> DEFINE list == Head(inbox).list
             z == list[Zone]
  <2>1. Zone \in DOMAIN list => z \in ZoneStates
    BY <1>0, <1>2, ListType, ZoneListType DEF HandleZones, Reads
  <2>2. pc = "loop"
    BY <1>2 DEF HandleZones, Reads
  <2>3. CASE /\ Zone \in DOMAIN list /\ NeedsCover(z)
             /\ last_image_key' = ImageOf[z.track] /\ pending' = apply_zone_update(meta, z)
             /\ pc' = "download" /\ UNCHANGED meta
    <3>1. z.track \in Tracks /\ z.track # None /\ meta \in Metadata
      BY <1>0, <2>1, <2>3, HeldBack DEF TypeOK, NeedsCover
    <3>2. pending'.length = pending'.track
      BY <2>1, <2>3, <3>1, UpdateType DEF Detailed
    <3> QED
      BY <1>0, <2>3, <3>2 DEF DetailsInv, OwnDetails, OwnCover, OwnLength, KeyIsShown, HeldLength
  <2>4. CASE /\ Zone \in DOMAIN list /\ ~NeedsCover(z)
             /\ meta' = apply_zone_update(meta, z)
             /\ UNCHANGED <<pc, last_image_key, pending>>
    <3>1. /\ meta \in Metadata /\ meta'.cover = meta.cover
          /\ meta'.track = IF z.track = None THEN meta.track ELSE z.track
          /\ meta'.length = IF z.track \in HasLength THEN z.track ELSE meta.length
      BY <1>0, <2>1, <2>4, UpdateType DEF TypeOK
    <3>2. z.track \in Tracks \cup {None} /\ None \notin Tracks
      BY <2>1, <2>4, ZoneStateType, RoonAssumption DEF RoonAssumption
    <3>3. CASE z.track = None
      <4>1. z.track \notin HasLength
        BY <3>2, <3>3 DEF Detailed
      <4> QED
        BY <1>0, <2>2, <2>4, <3>1, <3>3, <4>1
           DEF DetailsInv, OwnDetails, OwnCover, OwnLength, KeyIsShown, HeldLength
    <3>4. CASE z.track # None
      <4>1. z.track \in HasLength /\ ImageOf[z.track] # None /\ ImageOf[z.track] = last_image_key
        BY <2>4, <3>2, <3>4 DEF Detailed, NeedsCover
      <4>2. ImageOf[meta.track] = last_image_key
        BY <2>2, <4>1 DEF DetailsInv, KeyIsShown
      <4> QED
        BY <1>0, <2>2, <2>4, <3>1, <3>4, <4>1, <4>2
           DEF DetailsInv, OwnDetails, OwnCover, OwnLength, KeyIsShown, HeldLength
    <3> QED
      BY <3>3, <3>4
  <2>5. CASE UNCHANGED <<pc, meta, last_image_key, pending>>
    BY <1>0, <2>5 DEF DetailsInv, OwnDetails, OwnCover, OwnLength, KeyIsShown, HeldLength
  <2> QED
    BY <1>2, <2>3, <2>4, <2>5 DEF HandleZones
<1>3. CASE DownloadEnds
  <2>1. PICK cover \in {last_image_key, None} : meta' = [pending EXCEPT !.cover = cover]
    BY <1>3 DEF DownloadEnds
  <2>2. /\ pending \in Metadata /\ pending.track # None /\ pending.length = pending.track
        /\ last_image_key = ImageOf[pending.track] /\ pc' = "loop" /\ UNCHANGED last_image_key
    BY <1>0, <1>3 DEF DownloadEnds, TypeOK, DetailsInv, HeldLength
  <2>3. meta'.cover = cover /\ meta'.track = pending.track /\ meta'.length = pending.length
    BY <2>1, <2>2 DEF Metadata
  <2> QED
    BY <1>0, <2>1, <2>2, <2>3
       DEF DetailsInv, OwnDetails, OwnCover, OwnLength, KeyIsShown, HeldLength
<1>4. CASE HandleSeek
  <2>1. /\ meta'.cover = meta.cover /\ meta'.track = meta.track /\ meta'.length = meta.length
        /\ UNCHANGED <<pc, last_image_key, pending>>
    BY <1>0, <1>4 DEF HandleSeek, TypeOK, Metadata
  <2> QED
    BY <1>0, <2>1 DEF DetailsInv, OwnDetails, OwnCover, OwnLength, KeyIsShown, HeldLength
<1>5. CASE Connect
  BY <1>0, <1>5 DEF Connect, DetailsInv, OwnDetails, OwnCover, OwnLength, KeyIsShown, HeldLength
<1>6. CASE RecvInfo \/ InfoTimesOut \/ Fails
  <2>1. UNCHANGED <<meta, last_image_key, pending>> /\ pc # "download" /\ pc' # "download"
    BY <1>6 DEF RecvInfo, InfoTimesOut, Fails, Down
  <2> QED
    BY <1>0, <2>1 DEF DetailsInv, OwnDetails, OwnCover, OwnLength, KeyIsShown, HeldLength
<1>7. CASE UNCHANGED <<pc, meta, last_image_key, pending>>
  BY <1>0, <1>7 DEF DetailsInv, OwnDetails, OwnCover, OwnLength, KeyIsShown, HeldLength
<1>8. CASE \/ HandleRequest \/ HandleToken \/ Ignores \/ ReadTimesOut \/ Roon \/ UNCHANGED vars
  <2>1. UNCHANGED <<pc, meta, last_image_key, pending>>
    BY <1>8 DEF HandleRequest, HandleToken, Ignores, ReadTimesOut, Roon, Answers, Approves, Seeks,
                Breaks, Disappears, Plays, Asks, client, vars
  <2> QED
    BY <1>7, <2>1
<1> QED
  BY <1>1, <1>2, <1>3, <1>4, <1>5, <1>6, <1>8 DEF Next, Client

-----------------------------------------------------------------------------
(* The client's state is well typed, every message is one the other end    *)
(* knows, and a download is always for the track of the update held back.  *)
THEOREM RoonTypeCorrect == Spec => []TypeOK
BY TypeInit, TypeStep, PTL DEF Spec

(* Whatever connections break and downloads fail, the frame proxy never    *)
(* reads a track with the cover or the length of another, if every track   *)
(* has an image key and a length.                                          *)
THEOREM TrackHasItsOwnDetails == ASSUME Detailed PROVE Spec => []OwnDetails
<1>1. ASSUME DetailsInv, [Next]_vars PROVE DetailsInv'
  BY <1>1, DetailsStep
<1>2. DetailsInv => OwnDetails
  BY DEF DetailsInv
<1> QED
  BY <1>1, <1>2, DetailsInit, PTL DEF Spec

-----------------------------------------------------------------------------
(***************************************************************************)
(* What RoonClient shows once every message is worked off: the state of    *)
(* the zone followed, its position, the names of all zones, and an answer  *)
(* to every request.  Each is a promise about messages in flight.  What is *)
(* not shown yet is on its way: of the messages that carry it the latest   *)
(* carries what the zone does now, and if none is left, the update held    *)
(* back (while a cover is downloaded) or the metadata published does.      *)
(***************************************************************************)
Ready == link = "open" /\ session = "subscribed"

(* The messages that carry the state and the position of the zone followed.*)
StateMessages == {m \in FromRoon : m.kind \in ZoneUpdates /\ Zone \in DOMAIN m.list}
SeekMessages ==
    {m \in StateMessages : m.list[Zone].seek # None}
      \cup {m \in FromRoon : m.kind = "zones_seek_changed"}

TellsState(z) ==
    {m \in StateMessages : m.list[Zone].track = z.track /\ m.list[Zone].state = z.state}
ShowsState(z) ==
    {m \in Metadata : /\ z.track \in {None, m.track}
                      /\ m.state = PlayState(z.state)}

Position(m) == IF m.kind = "zones_seek_changed" THEN m.first ELSE m.list[Zone].seek
TellsSeek(seek) == {m \in SeekMessages : Position(m) = seek}
ShowsSeek(seek) == {m \in Metadata : m.seek = seek}

(* The metadata as it will be when a download under way has ended.         *)
Coming == IF pc = "download" THEN pending ELSE meta

(* Nothing but the reply to info comes before that was read.               *)
InOrder ==
    /\ pc = "down" => /\ link = "none" /\ session = "none"
                      /\ inbox = <<>> /\ outbox = <<>> /\ asked = {}
    /\ pc = "info" => /\ session = "none" /\ asked = {}
                      /\ \A i \in DOMAIN inbox : inbox[i].kind = "info"
                      /\ \A i \in DOMAIN outbox : outbox[i].kind = "info"
    /\ pc \in {"loop", "download"} => core_id

(* A request of Roon's, or the response that settles it, is on its way.    *)
Settles(m, r) == m.kind = "response" /\ m.request = r /\ (r = "subscribe_pairing" => m.core)
Carried(r) ==
    \/ \E i \in DOMAIN inbox : inbox[i].kind = "request" /\ inbox[i].request = r
    \/ \E i \in DOMAIN outbox : Settles(outbox[i], r)
AnswersComing == link = "open" => \A r \in asked : Carried(r)

NamesComing ==
    Ready => \A n \in Names : playing[n] # Absent =>
        \/ n \in zones
        \/ \E i \in DOMAIN inbox : inbox[i].kind \in ZoneUpdates /\ n \in DOMAIN inbox[i].list

StateComing ==
    Ready /\ playing[Zone] # Absent =>
        Due(inbox, StateMessages, TellsState(playing[Zone]), Coming, ShowsState(playing[Zone]))

OthersRest == \A n \in Names \ {Zone} : playing[n].state # "playing"
SeekComing ==
    Ready /\ playing[Zone].seek # None =>
        Due(inbox, SeekMessages, TellsSeek(playing[Zone].seek), Coming,
            ShowsSeek(playing[Zone].seek))

-----------------------------------------------------------------------------
-----------------------------------------------------------------------------
LEMMA OrderStep ==
    ASSUME TypeOK, InOrder, [Next]_vars
    PROVE  InOrder'
<1>1. CASE Connect
  <2>1. /\ pc' = "info" /\ link' = "open" /\ session' = "none" /\ asked' = {}
        /\ inbox' = <<>> /\ outbox' = <<[kind |-> "info"]>>
    BY <1>1 DEF Connect, Send, roon, InOrder
  <2> QED
    BY <2>1 DEF InOrder
<1>2. CASE RecvInfo
  <2>1. Head(inbox).kind = "info"
    BY <1>2, TailPlaces DEF RecvInfo, InOrder, TypeOK
  <2>2. core_id' = TRUE
    BY <1>2, <2>1 DEF RecvInfo
  <2> QED
    BY <1>2, <2>2 DEF RecvInfo, InOrder
<1>3. CASE InfoTimesOut \/ Fails \/ Restart
  <2>1. /\ pc' = "down" /\ link' = "none" /\ session' = "none"
        /\ inbox' = <<>> /\ outbox' = <<>> /\ asked' = {}
    BY <1>3 DEF InfoTimesOut, Fails, Restart, Down
  <2> QED
    BY <2>1 DEF InOrder
<1>4. CASE \/ HandleRequest \/ HandleToken \/ HandleZones \/ DownloadEnds \/ HandleSeek
           \/ Ignores
  <2>1. pc \in {"loop", "download"} /\ pc' \in {"loop", "download"} /\ core_id' = core_id
    BY <1>4 DEF HandleRequest, HandleToken, HandleZones, DownloadEnds, HandleSeek, Ignores, Reads,
                client
  <2> QED
    BY <2>1 DEF InOrder
<1>5. CASE ReadTimesOut \/ UNCHANGED vars
  BY <1>5 DEF ReadTimesOut, vars, client, network, roon, InOrder
<1>6. ASSUME UNCHANGED <<pc, core_id>>, pc \notin {"info", "down"}
      PROVE  InOrder'
  BY <1>6 DEF InOrder
<1>7. CASE Answers
  <2>1. UNCHANGED <<pc, core_id>> /\ pc # "down"
    BY <1>7 DEF Answers, client, InOrder
  <2>2. CASE pc = "info"
    <3>1. /\ Head(outbox).kind = "info" /\ outbox' = Tail(outbox)
          /\ \A i \in DOMAIN outbox' : outbox'[i].kind = "info"
      BY <1>7, <2>2, TailPlaces DEF Answers, InOrder, TypeOK
    <3>2. inbox' = Append(inbox, [kind |-> "info"]) /\ UNCHANGED <<session, asked>>
      BY <1>7, <3>1 DEF Answers
    <3>3. [kind |-> "info"] \in FromRoon
      BY DEF FromRoon
    <3>4. \A i \in DOMAIN inbox' : inbox'[i].kind = "info"
      BY <2>2, <3>2, <3>3, AppendPlaces DEF InOrder, TypeOK
    <3> QED
      BY <2>1, <2>2, <3>1, <3>2, <3>4 DEF InOrder
  <2> QED
    BY <1>6, <2>1, <2>2
<1>8. CASE Approves
  BY <1>6, <1>8 DEF Approves, client, InOrder
<1>9. ASSUME NEW r \in Requests, Asks(r) PROVE InOrder'
  BY <1>6, <1>9 DEF Asks, client, InOrder
<1>10. CASE Seeks \/ \E n \in Names : Disappears(n) \/ \E z \in ZoneStates : Plays(n, z)
  <2>1. /\ UNCHANGED <<pc, core_id, link, outbox, session, asked>>
        /\ inbox' = inbox \/ session = "subscribed"
    BY <1>10 DEF Seeks, Disappears, Plays, Tell, client
  <2> QED
    BY <2>1 DEF InOrder
<1>11. CASE Breaks
  BY <1>11 DEF Breaks, client, InOrder
<1> QED
  BY <1>1, <1>2, <1>3, <1>4, <1>5, <1>7, <1>8, <1>9, <1>10, <1>11 DEF Next, Client, Roon

(* A request is carried until the response to it has settled it.           *)
LEMMA AnswersStep ==
    ASSUME TypeOK, InOrder, AnswersComing, [Next]_vars
    PROVE  AnswersComing'
<1> SUFFICES ASSUME link' = "open", NEW r \in asked'
             PROVE  Carried(r)'
  BY DEF AnswersComing
<1> USE DEF Carried
<1>0. inbox \in Seq(FromRoon) /\ outbox \in Seq(ToRoon)
  BY DEF TypeOK
<1>1. ASSUME link = "open", r \in asked, UNCHANGED outbox \/ \E m \in ToRoon : outbox' = Append(outbox, m),
             UNCHANGED inbox \/ (\E m \in FromRoon : inbox' = Append(inbox, m))
               \/ (inbox # <<>> /\ inbox' = Tail(inbox) /\ Head(inbox).kind # "request")
      PROVE  Carried(r)'
  <2>1. \A i \in DOMAIN outbox : \E j \in DOMAIN outbox' : outbox'[j] = outbox[i]
    BY <1>0, <1>1, AppendPlaces
  <2>2. \A i \in DOMAIN inbox : inbox[i].kind = "request" =>
           \E j \in DOMAIN inbox' : inbox'[j] = inbox[i]
    <3>1. CASE UNCHANGED inbox \/ \E m \in FromRoon : inbox' = Append(inbox, m)
      BY <1>0, <3>1, AppendPlaces
    <3>2. CASE inbox # <<>> /\ inbox' = Tail(inbox) /\ Head(inbox).kind # "request"
      BY <1>0, <3>2, TailPlaces
    <3> QED
      BY <1>1, <3>1, <3>2
  <2>3. Carried(r)
    BY <1>1 DEF AnswersComing
  <2> QED
    BY <2>1, <2>2, <2>3 DEF Settles
<1>2. CASE Connect \/ RecvInfo \/ InfoTimesOut \/ Fails \/ Restart
  <2>1. asked' = {}
    BY <1>2 DEF Connect, RecvInfo, InfoTimesOut, Fails, Restart, Down, InOrder, roon
  <2> QED
    BY <2>1
<1>3. CASE HandleRequest
  <2> DEFINE request == Head(inbox).request
             m == [kind |-> "response", request |-> request,
                   core |-> request = "subscribe_pairing" /\ core_id]
  <2>1. /\ inbox # <<>> /\ inbox' = Tail(inbox) /\ outbox' = Append(outbox, m)
        /\ link = "open" /\ r \in asked /\ core_id /\ request \in Requests
    BY <1>3, ListType DEF HandleRequest, Reads, Send, roon, client, InOrder
  <2>2. m \in ToRoon
    BY <2>1 DEF ToRoon
  <2>3. Settles(m, request)
    BY <2>1 DEF Settles
  <2> HIDE DEF m
  <2>4. /\ \E j \in DOMAIN outbox' : outbox'[j] = m
        /\ \A i \in DOMAIN outbox : \E j \in DOMAIN outbox' : outbox'[j] = outbox[i]
    BY <1>0, <2>1, <2>2, AppendPlaces
  <2>5. \A i \in DOMAIN inbox : inbox[i] = Head(inbox) \/ \E j \in DOMAIN inbox' : inbox'[j] = inbox[i]
    BY <1>0, <2>1, TailPlaces
  <2>6. Carried(r)
    BY <2>1 DEF AnswersComing
  <2> QED
    BY <2>3, <2>4, <2>5, <2>6 DEF Settles
<1>4. CASE HandleToken
  <2>1. [kind |-> "subscribe_zones"] \in ToRoon
    BY DEF ToRoon
  <2> QED
    BY <1>1, <1>4, <2>1 DEF HandleToken, Reads, Send, roon
<1>5. CASE HandleZones \/ HandleSeek
  BY <1>1, <1>5 DEF HandleZones, HandleSeek, Reads, ZoneUpdates, roon
<1>6. CASE Ignores \/ DownloadEnds \/ ReadTimesOut \/ UNCHANGED vars
  BY <1>1, <1>6 DEF Ignores, DownloadEnds, ReadTimesOut, roon, vars, network
<1>7. CASE Approves
  <2>1. [kind |-> "token"] \in FromRoon
    BY DEF FromRoon
  <2> QED
    BY <1>1, <1>7, <2>1 DEF Approves
<1>8. CASE Seeks \/ (\E n \in Names : Disappears(n) \/ \E z \in ZoneStates : Plays(n, z)) \/ Breaks
  <2>1. UNCHANGED <<outbox, asked>> /\ (link = "open" \/ link' = link)
    BY <1>8 DEF Seeks, Disappears, Plays, Breaks
  <2>2. inbox' = inbox \/ \E m : inbox' = Append(inbox, m)
    BY <1>8 DEF Seeks, Disappears, Plays, Tell, Breaks
  <2>3. inbox' \in Seq(FromRoon)
    BY TypeStep DEF TypeOK
  <2>4. \A i \in DOMAIN inbox : i \in DOMAIN inbox' /\ inbox'[i] = inbox[i]
    BY <1>0, <2>2, <2>3
  <2> QED
    BY <2>1, <2>4 DEF AnswersComing, Settles
<1>9. CASE Answers
  <2> DEFINE m == Head(outbox)
  <2>1. outbox # <<>> /\ outbox' = Tail(outbox) /\ link = "open" /\ m \in ToRoon
    BY <1>0, <1>9, TailPlaces DEF Answers
  <2>2. r \in asked /\ ~Settles(m, r)
    BY <1>9, <2>1 DEF Answers, Settles, TypeOK
  <2>3. \A i \in DOMAIN outbox : outbox[i] = m \/ \E j \in DOMAIN outbox' : outbox'[j] = outbox[i]
    BY <1>0, <2>1, TailPlaces
  <2>4. inbox' = inbox \/ \E k : inbox' = Append(inbox, k)
    BY <1>9 DEF Answers
  <2>5. \A i \in DOMAIN inbox : i \in DOMAIN inbox' /\ inbox'[i] = inbox[i]
    <3>1. inbox' \in Seq(FromRoon)
      BY TypeStep DEF TypeOK
    <3> QED
      BY <1>0, <2>4, <3>1
  <2>6. Carried(r)
    BY <2>1, <2>2 DEF AnswersComing
  <2> QED
    BY <2>2, <2>3, <2>5, <2>6
<1>10. ASSUME NEW q \in Requests, Asks(q) PROVE Carried(r)'
  <2>1. [kind |-> "request", request |-> q] \in FromRoon
    BY DEF FromRoon
  <2>2. CASE r = q
    BY <1>0, <1>10, <2>1, <2>2, AppendPlaces DEF Asks
  <2>3. CASE r \in asked
    BY <1>1, <1>10, <2>1, <2>3 DEF Asks
  <2> QED
    BY <1>10, <2>2, <2>3 DEF Asks
<1> QED
  BY <1>2, <1>3, <1>4, <1>5, <1>6, <1>7, <1>8, <1>9, <1>10 DEF Next, Client, Roon

(* A zone there is was seen, or is in a list on its way.                   *)
LEMMA NamesStep ==
    ASSUME TypeOK, InOrder, NamesComing, [Next]_vars
    PROVE  NamesComing'
<1> SUFFICES ASSUME Ready', NEW n \in Names, playing'[n] # Absent
             PROVE  \/ n \in zones'
                    \/ \E i \in DOMAIN inbox' : inbox'[i].kind \in ZoneUpdates
                                                /\ n \in DOMAIN inbox'[i].list
  BY DEF NamesComing, ZoneUpdates
<1> DEFINE Lists(q) == \E i \in DOMAIN q : q[i].kind \in ZoneUpdates /\ n \in DOMAIN q[i].list
<1>0. /\ inbox \in Seq(FromRoon) /\ outbox \in Seq(ToRoon) /\ inbox' \in Seq(FromRoon)
      /\ playing \in [Names -> ZoneStates]
  BY TypeStep DEF TypeOK
<1>1. Ready /\ playing[n] # Absent => n \in zones \/ Lists(inbox)
  BY DEF NamesComing
<1>2. ASSUME NEW m, inbox' = Append(inbox, m)
      PROVE  /\ Lists(inbox) => Lists(inbox')
             /\ m.kind \in ZoneUpdates /\ n \in DOMAIN m.list => Lists(inbox')
  <2>1. /\ \A i \in DOMAIN inbox : i \in DOMAIN inbox' /\ inbox'[i] = inbox[i]
        /\ Len(inbox) + 1 \in DOMAIN inbox' /\ inbox'[Len(inbox) + 1] = m
    BY <1>0, <1>2
  <2> QED
    BY <2>1
<1>3. ASSUME inbox # <<>>, inbox' = Tail(inbox)
      PROVE  Lists(inbox) => \/ Lists(inbox')
                             \/ Head(inbox).kind \in ZoneUpdates /\ n \in DOMAIN Head(inbox).list
  <2>1. \A i \in DOMAIN inbox : inbox[i] = Head(inbox) \/ \E j \in DOMAIN inbox' : inbox'[j] = inbox[i]
    BY <1>0, <1>3, TailPlaces
  <2> QED
    BY <2>1
<1>4. CASE Connect \/ RecvInfo \/ InfoTimesOut \/ Fails \/ Restart
  <2>1. session' = "none"
    BY <1>4 DEF Connect, RecvInfo, InfoTimesOut, Fails, Restart, Down, InOrder, roon
  <2> QED
    BY <2>1 DEF Ready
<1>5. CASE HandleZones
  <2>1. /\ inbox # <<>> /\ inbox' = Tail(inbox) /\ zones' = zones \cup DOMAIN Head(inbox).list
        /\ Ready /\ playing' = playing
    BY <1>5 DEF HandleZones, Reads, WithNames, Ready, roon
  <2> QED
    BY <1>1, <1>3, <2>1
<1>6. CASE HandleRequest \/ HandleToken \/ HandleSeek \/ Ignores
  <2>1. /\ inbox # <<>> /\ inbox' = Tail(inbox) /\ zones' = zones
        /\ Ready /\ playing' = playing /\ Head(inbox).kind \notin ZoneUpdates
    BY <1>6 DEF HandleRequest, HandleToken, HandleSeek, Ignores, Reads, Ready, ZoneUpdates, roon,
                client
  <2> QED
    BY <1>1, <1>3, <2>1
<1>7. CASE DownloadEnds \/ ReadTimesOut \/ Breaks \/ UNCHANGED vars
  BY <1>1, <1>7 DEF DownloadEnds, ReadTimesOut, Breaks, vars, client, network, roon, Ready
<1>8. CASE Approves
  BY <1>8 DEF Approves, Ready
<1>9. CASE Answers
  <2>1. UNCHANGED <<zones, playing, link>>
    BY <1>9 DEF Answers, client
  <2>2. CASE UNCHANGED <<inbox, session>>
    BY <1>1, <2>1, <2>2 DEF Ready
  <2>3. CASE inbox' = Append(inbox, [kind |-> "info"]) /\ UNCHANGED session
    BY <1>1, <1>2, <2>1, <2>3 DEF Ready
  <2>4. CASE Head(outbox).kind = "subscribe_zones"
    <3> DEFINE names == {k \in Names : playing[k] # Absent}
               m == [kind |-> "zones", list |-> [k \in names |-> playing[k]]]
    <3>1. inbox' = Append(inbox, m)
      BY <1>9, <2>4 DEF Answers
    <3>2. m.kind \in ZoneUpdates /\ n \in DOMAIN m.list
      BY <2>1 DEF ZoneUpdates
    <3> HIDE DEF m
    <3> QED
      BY <1>2, <3>1, <3>2
  <2> QED
    BY <1>9, <2>2, <2>3, <2>4 DEF Answers, Ready
<1>10. CASE Seeks
  <2>1. Ready /\ zones' = zones /\ \E m : inbox' = Append(inbox, m)
    BY <1>10 DEF Seeks, Tell, Ready, client
  <2>2. playing[n] # Absent
    <3> DEFINE moving == {k \in Names : playing[k].state = "playing" /\ playing[k].seek < MaxSeek}
    <3>1. n \notin moving => playing'[n] = playing[n]
      BY <1>10 DEF Seeks
    <3> QED
      BY <3>1 DEF Absent
  <2> QED
    BY <1>1, <1>2, <2>1, <2>2
<1>11. ASSUME NEW k \in Names, Disappears(k) PROVE n \in zones' \/ Lists(inbox')
  <2>1. Ready /\ zones' = zones /\ inbox' = Append(inbox, [kind |-> "zones_removed"])
    BY <1>11 DEF Disappears, Tell, Ready, client
  <2>2. playing[n] # Absent
    BY <1>0, <1>11 DEF Disappears
  <2> QED
    BY <1>1, <1>2, <2>1, <2>2
<1>12. ASSUME NEW k \in Names, NEW z \in ZoneStates, Plays(k, z) PROVE n \in zones' \/ Lists(inbox')
  <2> DEFINE m == [kind |-> IF playing[k] = Absent THEN "zones_added" ELSE "zones_changed",
                   list |-> [l \in {k} |-> z]]
  <2>1. Ready /\ zones' = zones /\ inbox' = Append(inbox, m)
    BY <1>12 DEF Plays, Tell, Ready, client
  <2>2. m.kind \in ZoneUpdates /\ DOMAIN m.list = {k}
    BY DEF ZoneUpdates
  <2>3. n # k => playing[n] # Absent
    BY <1>0, <1>12 DEF Plays
  <2> HIDE DEF m
  <2> QED
    BY <1>1, <1>2, <2>1, <2>2, <2>3
<1>13. ASSUME NEW r \in Requests, Asks(r) PROVE n \in zones' \/ Lists(inbox')
  BY <1>1, <1>2, <1>13 DEF Asks, Ready, client
<1> QED
  BY <1>4, <1>5, <1>6, <1>7, <1>8, <1>9, <1>10, <1>11, <1>12, <1>13 DEF Next, Client, Roon

-----------------------------------------------------------------------------
(* What a step can be to the zone followed.                                *)
Takes == Ready /\ inbox # <<>> /\ inbox' = Tail(inbox) /\ playing' = playing

StaysShown ==
    /\ Ready /\ inbox' = inbox /\ playing'[Zone] = playing[Zone] /\ Coming' \in Metadata
    /\ Coming'.track = Coming.track /\ Coming'.seek = Coming.seek /\ Coming'.state = Coming.state
TakesOther ==
    /\ Takes /\ Coming' = Coming
    /\ Head(inbox) \notin StateMessages /\ Head(inbox).kind # "zones_seek_changed"
TakesState ==
    /\ Takes /\ Head(inbox) \in StateMessages
    /\ Coming' = apply_zone_update(Coming, Head(inbox).list[Zone])
TakesSeek ==
    /\ Takes /\ Head(inbox) \in FromRoon /\ Head(inbox).kind = "zones_seek_changed"
    /\ Coming' = [Coming EXCEPT !.seek = Head(inbox).first]
HearsOther ==
    /\ Ready /\ Coming' = Coming /\ playing'[Zone] = playing[Zone]
    /\ \E m \in FromRoon : /\ m \notin StateMessages /\ m.kind # "zones_seek_changed"
                           /\ inbox' = Append(inbox, m)
HearsState ==
    /\ Coming' = Coming
    /\ \E m \in StateMessages : m.list[Zone] = playing'[Zone] /\ inbox' = Append(inbox, m)
HearsSeek ==
    /\ Ready /\ Coming' = Coming
    /\ playing'[Zone].track = playing[Zone].track /\ playing'[Zone].state = playing[Zone].state
    /\ \E m \in FromRoon : /\ m.kind = "zones_seek_changed" /\ inbox' = Append(inbox, m)
                           /\ OthersRest => m.first = playing'[Zone].seek
IsGone == playing'[Zone] = Absent

LEMMA FollowedZone ==
    ASSUME TypeOK, InOrder, [Next]_vars, Ready'
    PROVE  \/ StaysShown \/ TakesOther \/ TakesState \/ TakesSeek
           \/ HearsOther \/ HearsState \/ HearsSeek \/ IsGone
<1> USE RoonAssumption DEF RoonAssumption
<1>0. /\ inbox \in Seq(FromRoon) /\ outbox \in Seq(ToRoon)
      /\ playing \in [Names -> ZoneStates] /\ meta \in Metadata /\ pending \in Metadata
  BY DEF TypeOK
<1>1. CASE Connect \/ RecvInfo \/ InfoTimesOut \/ Fails \/ Restart
  <2>1. session' = "none"
    BY <1>1 DEF Connect, RecvInfo, InfoTimesOut, Fails, Restart, Down, InOrder, roon
  <2> QED
    BY <2>1 DEF Ready
<1>2. CASE HandleRequest \/ HandleToken \/ Ignores
  <2>1. /\ Takes /\ Coming' = Coming
        /\ Head(inbox).kind \notin ZoneUpdates \cup {"zones_seek_changed"}
    BY <1>2 DEF HandleRequest, HandleToken, Ignores, Reads, Takes, Ready, Coming, ZoneUpdates,
                roon, client
  <2> QED
    BY <2>1 DEF TakesOther, StateMessages
<1>3. CASE HandleZones
  <2> DEFINE m == Head(inbox)
  <2>1. Takes /\ pc = "loop" /\ m.kind \in ZoneUpdates /\ m \in FromRoon
    BY <1>3, ListType DEF HandleZones, Reads, Takes, Ready, roon
  <2>2. CASE Zone \notin DOMAIN m.list
    BY <1>3, <2>1, <2>2 DEF HandleZones, Coming, TakesOther, StateMessages, ZoneUpdates
  <2>3. CASE Zone \in DOMAIN m.list
    BY <1>3, <2>1, <2>3 DEF HandleZones, Coming, TakesState, StateMessages
  <2> QED
    BY <2>2, <2>3
<1>4. CASE DownloadEnds
  <2>1. PICK cover \in {last_image_key, None} : meta' = [pending EXCEPT !.cover = cover]
    BY <1>4 DEF DownloadEnds
  <2>2. /\ Ready /\ inbox' = inbox /\ playing' = playing
        /\ Coming = pending /\ Coming' = meta'
    BY <1>4 DEF DownloadEnds, Ready, Coming, network, roon
  <2>3. cover \in Images \cup {None}
    BY <2>1 DEF TypeOK
  <2>4. /\ meta' \in Metadata /\ meta'.track = pending.track
        /\ meta'.seek = pending.seek /\ meta'.state = pending.state
    BY <1>0, <2>1, <2>3 DEF Metadata
  <2> QED
    BY <2>2, <2>4 DEF StaysShown
<1>5. CASE HandleSeek
  BY <1>5, ListType DEF HandleSeek, Reads, TakesSeek, Takes, Ready, Coming, roon
<1>6. CASE ReadTimesOut \/ Breaks \/ UNCHANGED vars
  BY <1>0, <1>6 DEF ReadTimesOut, Breaks, vars, client, network, roon, StaysShown, Ready, Coming
<1>7. CASE Approves
  BY <1>7 DEF Approves, Ready
<1>8. CASE Answers
  <2>1. Coming' = Coming /\ playing' = playing /\ link = "open"
    BY <1>8 DEF Answers, client, Coming
  <2>2. CASE UNCHANGED <<inbox, session>>
    BY <1>0, <2>1, <2>2 DEF StaysShown, Ready, Coming
  <2>3. CASE inbox' = Append(inbox, [kind |-> "info"]) /\ UNCHANGED session
    <3>1. [kind |-> "info"] \in FromRoon
      BY DEF FromRoon
    <3> QED
      BY <2>1, <2>3, <3>1 DEF HearsOther, Ready, StateMessages, ZoneUpdates
  <2>4. CASE Head(outbox).kind = "subscribe_zones" /\ playing[Zone] # Absent
    <3> DEFINE names == {k \in Names : playing[k] # Absent}
               list == [k \in names |-> playing[k]]
               m == [kind |-> "zones", list |-> list]
    <3>1. inbox' = Append(inbox, m)
      BY <1>8, <2>4 DEF Answers
    <3>2. list \in ZoneLists
      <4>1. names \in SUBSET Names /\ list \in [names -> ZoneStates]
        BY <1>0
      <4> HIDE DEF names, list
      <4> QED
        BY <4>1, ListIsZoneList
    <3>3. m.kind = "zones" /\ Zone \in DOMAIN m.list /\ m.list[Zone] = playing'[Zone]
      BY <2>1, <2>4
    <3>4. m \in FromRoon
      BY <3>2 DEF FromRoon
    <3> HIDE DEF m
    <3> QED
      BY <2>1, <3>1, <3>3, <3>4 DEF HearsState, StateMessages, ZoneUpdates
  <2>5. CASE playing[Zone] = Absent
    BY <2>1, <2>5 DEF IsGone
  <2> QED
    BY <1>8, <2>2, <2>3, <2>4, <2>5 DEF Answers, Ready
<1>9. CASE Seeks
  <2> DEFINE moving == {k \in Names : playing[k].state = "playing" /\ playing[k].seek < MaxSeek}
  <2>1. playing' = [k \in Names |-> IF k \in moving THEN [playing[k] EXCEPT !.seek = @ + 1]
                                                    ELSE playing[k]]
    BY <1>9 DEF Seeks
  <2>2. PICK first \in moving : inbox' = Append(inbox, [kind |-> "zones_seek_changed",
                                                        first |-> playing'[first].seek])
    BY <1>9 DEF Seeks, Tell, Ready
  <2>3. Ready /\ Coming' = Coming
    BY <1>9 DEF Seeks, Ready, Coming, client
  <2>4. playing'[Zone].track = playing[Zone].track /\ playing'[Zone].state = playing[Zone].state
    <3>1. DOMAIN playing[Zone] = {"track", "seek", "state"}
      BY <1>0 DEF ZoneStates, Absent, Stopped
    <3>2. Zone \in Names
      OBVIOUS
    <3>3. CASE Zone \in moving
      BY <2>1, <3>1, <3>2, <3>3
    <3>4. CASE Zone \notin moving
      BY <2>1, <3>2, <3>4
    <3> QED
      BY <3>3, <3>4
  <2>5. playing'[first].seek \in 0..MaxSeek
    <3>1. playing[first] \in [track : Tracks, seek : 0..MaxSeek, state : {"playing", "paused"}]
      BY <1>0, <2>2, ZoneStateType
    <3> QED
      BY <2>1, <2>2, <3>1
  <2>6. OthersRest => first = Zone
    BY <2>2 DEF OthersRest
  <2> DEFINE m == [kind |-> "zones_seek_changed", first |-> playing'[first].seek]
  <2>7. m \in FromRoon /\ m.kind = "zones_seek_changed" /\ m.first = playing'[first].seek
    BY <2>5 DEF FromRoon
  <2> QED
    BY <2>2, <2>3, <2>4, <2>6, <2>7 DEF HearsSeek
<1>10. ASSUME NEW k \in Names, Disappears(k)
       PROVE  HearsOther \/ IsGone
  <2>1. Ready /\ inbox' = Append(inbox, [kind |-> "zones_removed"]) /\ Coming' = Coming
    BY <1>10 DEF Disappears, Tell, Ready, Coming, client
  <2>2. [kind |-> "zones_removed"] \in FromRoon
    BY DEF FromRoon
  <2>3. playing'[Zone] = playing[Zone] \/ playing'[Zone] = Absent
    BY <1>0, <1>10 DEF Disappears
  <2> QED
    BY <2>1, <2>2, <2>3 DEF HearsOther, IsGone, StateMessages, ZoneUpdates
<1>11. ASSUME NEW k \in Names, NEW z \in ZoneStates, Plays(k, z)
       PROVE  HearsOther \/ HearsState
  <2> DEFINE m == [kind |-> IF playing[k] = Absent THEN "zones_added" ELSE "zones_changed",
                   list |-> [l \in {k} |-> z]]
  <2>1. Ready /\ inbox' = Append(inbox, m) /\ Coming' = Coming
    BY <1>11 DEF Plays, Tell, Ready, Coming, client
  <2>2. m \in FromRoon
    <3>1. [l \in {k} |-> z] \in ZoneLists
      BY ListIsZoneList
    <3> QED
      BY <3>1 DEF FromRoon
  <2>3. m.kind \in ZoneUpdates /\ m.kind # "zones_seek_changed"
        /\ DOMAIN m.list = {k} /\ m.list[k] = z
    BY DEF ZoneUpdates
  <2>4. /\ k # Zone => playing'[Zone] = playing[Zone]
        /\ k = Zone => playing'[Zone] = z
    BY <1>0, <1>11 DEF Plays
  <2> HIDE DEF m
  <2>5. CASE k = Zone
    BY <2>1, <2>2, <2>3, <2>4, <2>5 DEF HearsState, StateMessages
  <2>6. CASE k # Zone
    BY <2>1, <2>2, <2>3, <2>4, <2>6 DEF HearsOther, StateMessages
  <2> QED
    BY <2>5, <2>6
<1>12. ASSUME NEW r \in Requests, Asks(r) PROVE HearsOther
  <2>1. [kind |-> "request", request |-> r] \in FromRoon
    BY DEF FromRoon
  <2> QED
    BY <1>12, <2>1 DEF Asks, HearsOther, Ready, Coming, client, StateMessages, ZoneUpdates
<1> QED
  BY <1>1, <1>2, <1>3, <1>4, <1>5, <1>6, <1>7, <1>8, <1>9, <1>10, <1>11, <1>12
     DEF Next, Client, Roon

LEMMA StateStep ==
    ASSUME TypeOK, InOrder, StateComing, [Next]_vars
    PROVE  StateComing'
<1> SUFFICES ASSUME Ready', playing'[Zone] # Absent
             PROVE  Due(inbox', StateMessages, TellsState(playing'[Zone]), Coming',
                        ShowsState(playing'[Zone]))
  BY DEF StateComing, StateMessages, TellsState, ShowsState, ZoneUpdates
<1> DEFINE z == playing[Zone]
           News == TellsState(z)
           Good == ShowsState(z)
<1>0. inbox \in Seq(FromRoon) /\ Coming \in Metadata /\ z \in ZoneStates
  BY RoonAssumption DEF TypeOK, Coming, RoonAssumption
<1>1. Ready /\ z # Absent => Due(inbox, StateMessages, News, Coming, Good)
  BY DEF StateComing
<1>2. CASE StaysShown
  <2>1. Coming \in Good => Coming' \in Good
    BY <1>2 DEF StaysShown, ShowsState
  <2> QED
    BY <1>1, <1>2, <2>1 DEF StaysShown, Due, LatestIn, NoneOf
<1>3. CASE TakesOther
  <2>1. Ready /\ inbox # <<>> /\ inbox' = Tail(inbox) /\ playing' = playing /\ Coming' = Coming
        /\ Head(inbox) \notin StateMessages
    BY <1>3 DEF TakesOther, Takes
  <2> HIDE DEF News, Good
  <2>2. Due(Tail(inbox), StateMessages, News, Coming, Good)
    BY <1>0, <1>1, <2>1, TailDue
  <2> QED
    BY <2>1, <2>2 DEF News, Good
<1>4. CASE TakesState
  <2> DEFINE y == Head(inbox).list[Zone]
             later == apply_zone_update(Coming, y)
  <2>1. Ready /\ inbox # <<>> /\ inbox' = Tail(inbox) /\ playing' = playing /\ Coming' = later
        /\ Head(inbox) \in StateMessages
    BY <1>4 DEF TakesState, Takes
  <2>2. y \in ZoneStates
    BY <2>1, ZoneListType DEF StateMessages, ZoneUpdates, FromRoon
  <2>3. Head(inbox) \in News => later \in Good
    <3>1. later \in Metadata /\ later.track = IF y.track = None THEN Coming.track ELSE y.track
      BY <1>0, <2>2, UpdateType
    <3>2. later.state = PlayState(y.state)
      BY DEF apply_zone_update
    <3>3. y.state \in {"loading", "playing", "paused", "stopped"} \/ y = Absent
      BY <2>2 DEF ZoneStates, Stopped
    <3>4. z.state = "absent" => z = Absent
      BY <1>0 DEF ZoneStates, Stopped
    <3>5. ASSUME Head(inbox) \in News PROVE y.track = z.track /\ y.state = z.state
      BY <3>5 DEF TellsState
    <3> HIDE DEF y, later
    <3> QED
      BY <2>1, <3>1, <3>2, <3>3, <3>4, <3>5 DEF ShowsState, Absent
  <2> HIDE DEF News, Good, later
  <2>4. Due(Tail(inbox), StateMessages, News, later, Good)
    BY <1>0, <1>1, <2>1, <2>3, TailDue
  <2> QED
    BY <2>1, <2>4 DEF News, Good
<1>5. CASE TakesSeek
  <2> DEFINE later == [Coming EXCEPT !.seek = Head(inbox).first]
  <2>1. Ready /\ inbox # <<>> /\ inbox' = Tail(inbox) /\ playing' = playing /\ Coming' = later
        /\ Head(inbox) \notin StateMessages
    BY <1>5 DEF TakesSeek, Takes, StateMessages, ZoneUpdates
  <2>2. later \in Metadata /\ later.track = Coming.track /\ later.state = Coming.state
    BY <1>0, <1>5 DEF TakesSeek, FromRoon, Metadata
  <2>3. Coming \in Good => later \in Good
    BY <2>2 DEF ShowsState
  <2> HIDE DEF News, Good, later
  <2>4. Due(Tail(inbox), StateMessages, News, later, Good)
    BY <1>0, <1>1, <2>1, <2>3, TailDue
  <2> QED
    BY <2>1, <2>4 DEF News, Good
<1>6. CASE HearsOther
  <2>1. PICK m \in FromRoon : m \notin StateMessages /\ inbox' = Append(inbox, m)
    BY <1>6 DEF HearsOther
  <2>2. Ready /\ playing'[Zone] = z /\ Coming' = Coming
    BY <1>6 DEF HearsOther
  <2> HIDE DEF News, Good
  <2>3. Due(Append(inbox, m), StateMessages, News, Coming, Good)
    BY <1>0, <1>1, <2>1, <2>2, AppendDue
  <2> QED
    BY <2>1, <2>2, <2>3 DEF News, Good
<1>7. CASE HearsState
  <2>1. PICK m \in StateMessages : m.list[Zone] = playing'[Zone] /\ inbox' = Append(inbox, m)
    BY <1>7 DEF HearsState
  <2>2. m \in FromRoon /\ m \in StateMessages \cap TellsState(playing'[Zone])
    BY <2>1 DEF TellsState, StateMessages
  <2>3. Due(Append(inbox, m), StateMessages, TellsState(playing'[Zone]), Coming,
            ShowsState(playing'[Zone]))
    BY <1>0, <2>2, AppendDue
  <2> QED
    BY <1>7, <2>1, <2>3 DEF HearsState
<1>8. CASE HearsSeek
  <2>1. PICK m \in FromRoon : m.kind = "zones_seek_changed" /\ inbox' = Append(inbox, m)
    BY <1>8 DEF HearsSeek
  <2>2. m \notin StateMessages
    BY <2>1 DEF StateMessages, ZoneUpdates
  <2>3. Ready /\ Coming' = Coming /\ playing'[Zone].track = z.track /\ playing'[Zone].state = z.state
    BY <1>8 DEF HearsSeek
  <2>4. playing'[Zone] \in ZoneStates
    BY TypeStep, RoonAssumption DEF TypeOK, RoonAssumption
  <2>5. z # Absent
    BY <1>0, <2>3, <2>4 DEF ZoneStates, Absent, Stopped
  <2>6. TellsState(playing'[Zone]) = News /\ ShowsState(playing'[Zone]) = Good
    BY <2>3 DEF TellsState, ShowsState
  <2> HIDE DEF News, Good
  <2>7. Due(Append(inbox, m), StateMessages, News, Coming, Good)
    BY <1>0, <1>1, <2>1, <2>2, <2>3, <2>5, AppendDue
  <2> QED
    BY <2>1, <2>3, <2>6, <2>7
<1> QED
  BY <1>2, <1>3, <1>4, <1>5, <1>6, <1>7, <1>8, FollowedZone DEF IsGone

(* A zone rests as long as it is not followed and no other may play.       *)
LEMMA RestStep ==
    ASSUME ~OthersPlay, TypeOK, OthersRest, [Next]_vars
    PROVE  OthersRest'
<1>1. CASE Seeks
  <2> DEFINE moving == {n \in Names : playing[n].state = "playing" /\ playing[n].seek < MaxSeek}
  <2>1. \A n \in Names : n \notin moving => playing'[n] = playing[n]
    BY <1>1 DEF Seeks
  <2> QED
    BY <2>1 DEF OthersRest
<1>2. ASSUME NEW n \in Names, Disappears(n) PROVE OthersRest'
  BY <1>2 DEF Disappears, OthersRest, TypeOK, Absent
<1>3. ASSUME NEW n \in Names, NEW z \in ZoneStates, Plays(n, z) PROVE OthersRest'
  BY <1>3 DEF Plays, OthersRest, TypeOK, Stopped
<1>4. CASE UNCHANGED playing
  BY <1>4 DEF OthersRest
<1>5. CASE Client \/ Restart
  BY <1>4, <1>5 DEF Client, Connect, RecvInfo, InfoTimesOut, Fails, HandleRequest, HandleToken,
                    HandleZones, DownloadEnds, HandleSeek, Ignores, Restart, roon
<1>6. CASE ReadTimesOut \/ UNCHANGED vars
  BY <1>4, <1>6 DEF ReadTimesOut, vars, roon
<1>7. CASE Answers \/ Approves \/ Breaks \/ \E r \in Requests : Asks(r)
  BY <1>4, <1>7 DEF Answers, Approves, Breaks, Asks
<1> QED
  BY <1>1, <1>2, <1>3, <1>5, <1>6, <1>7 DEF Next, Roon

LEMMA SeekStep ==
    ASSUME TypeOK, InOrder, OthersRest, SeekComing, [Next]_vars
    PROVE  SeekComing'
<1> SUFFICES ASSUME Ready', playing'[Zone].seek # None
             PROVE  Due(inbox', SeekMessages, TellsSeek(playing'[Zone].seek), Coming',
                        ShowsSeek(playing'[Zone].seek))
  BY DEF SeekComing, StateMessages, SeekMessages, TellsSeek, ShowsSeek, Position, ZoneUpdates
<1> DEFINE z == playing[Zone]
           News == TellsSeek(z.seek)
           Good == ShowsSeek(z.seek)
<1>0. inbox \in Seq(FromRoon) /\ Coming \in Metadata /\ z \in ZoneStates
  BY RoonAssumption DEF TypeOK, Coming, RoonAssumption
<1>1. Ready /\ z.seek # None => Due(inbox, SeekMessages, News, Coming, Good)
  BY DEF SeekComing
<1>2. CASE StaysShown
  <2>1. Coming \in Good => Coming' \in Good
    BY <1>2 DEF StaysShown, ShowsSeek
  <2> QED
    BY <1>1, <1>2, <2>1 DEF StaysShown, Due, LatestIn, NoneOf
<1>3. CASE TakesOther
  <2>1. Ready /\ inbox # <<>> /\ inbox' = Tail(inbox) /\ playing' = playing /\ Coming' = Coming
        /\ Head(inbox) \notin SeekMessages
    BY <1>3 DEF TakesOther, Takes, SeekMessages
  <2> HIDE DEF News, Good
  <2>2. Due(Tail(inbox), SeekMessages, News, Coming, Good)
    BY <1>0, <1>1, <2>1, TailDue
  <2> QED
    BY <2>1, <2>2 DEF News, Good
<1>4. CASE TakesState
  <2> DEFINE m == Head(inbox)
             y == m.list[Zone]
             later == apply_zone_update(Coming, y)
  <2>1. Ready /\ inbox # <<>> /\ inbox' = Tail(inbox) /\ playing' = playing /\ Coming' = later
        /\ m \in StateMessages
    BY <1>4 DEF TakesState, Takes
  <2>2. y \in ZoneStates
    BY <2>1, ZoneListType DEF StateMessages, ZoneUpdates, FromRoon
  <2>3. later \in Metadata /\ later.seek = IF y.seek = None THEN Coming.seek ELSE y.seek
    BY <1>0, <2>2, UpdateType DEF apply_zone_update
  <2>4. m.kind # "zones_seek_changed"
    BY <2>1 DEF StateMessages, ZoneUpdates
  <2>5. m \in News => later \in Good
    <3>1. ASSUME m \in News PROVE y.seek = z.seek /\ y.seek # None
      BY <2>4, <3>1 DEF TellsSeek, Position, SeekMessages
    <3> HIDE DEF y, later
    <3> QED
      BY <2>3, <3>1 DEF ShowsSeek
  <2>6. m \notin SeekMessages /\ Coming \in Good => later \in Good
    <3>1. m \notin SeekMessages => y.seek = None
      BY <2>1 DEF SeekMessages
    <3> HIDE DEF y, later
    <3> QED
      BY <2>3, <3>1 DEF ShowsSeek
  <2> HIDE DEF News, Good, later
  <2>7. Due(Tail(inbox), SeekMessages, News, later, Good)
    BY <1>0, <1>1, <2>1, <2>5, <2>6, TailDue
  <2> QED
    BY <2>1, <2>7 DEF News, Good
<1>5. CASE TakesSeek
  <2> DEFINE m == Head(inbox)
             later == [Coming EXCEPT !.seek = m.first]
  <2>1. Ready /\ inbox # <<>> /\ inbox' = Tail(inbox) /\ playing' = playing /\ Coming' = later
        /\ m \in SeekMessages /\ m.kind = "zones_seek_changed"
    BY <1>5 DEF TakesSeek, Takes, SeekMessages
  <2>2. later \in Metadata /\ later.seek = m.first
    BY <1>0, <1>5 DEF TakesSeek, FromRoon, Metadata
  <2>3. m \in News => later \in Good
    BY <2>1, <2>2 DEF TellsSeek, ShowsSeek, Position
  <2> HIDE DEF News, Good, later
  <2>4. Due(Tail(inbox), SeekMessages, News, later, Good)
    BY <1>0, <1>1, <2>1, <2>3, TailDue
  <2> QED
    BY <2>1, <2>4 DEF News, Good
<1>6. CASE HearsOther
  <2>1. PICK m \in FromRoon : /\ m \notin StateMessages /\ m.kind # "zones_seek_changed"
                              /\ inbox' = Append(inbox, m)
    BY <1>6 DEF HearsOther
  <2>2. Ready /\ playing'[Zone] = z /\ Coming' = Coming /\ m \notin SeekMessages
    BY <1>6, <2>1 DEF HearsOther, SeekMessages
  <2> HIDE DEF News, Good
  <2>3. Due(Append(inbox, m), SeekMessages, News, Coming, Good)
    BY <1>0, <1>1, <2>1, <2>2, AppendDue
  <2> QED
    BY <2>1, <2>2, <2>3 DEF News, Good
<1>7. CASE HearsState
  <2>1. PICK m \in StateMessages : m.list[Zone] = playing'[Zone] /\ inbox' = Append(inbox, m)
    BY <1>7 DEF HearsState
  <2>2. m \in FromRoon /\ m \in SeekMessages \cap TellsSeek(playing'[Zone].seek)
    BY <2>1 DEF TellsSeek, StateMessages, SeekMessages, Position, ZoneUpdates
  <2>3. Due(Append(inbox, m), SeekMessages, TellsSeek(playing'[Zone].seek), Coming,
            ShowsSeek(playing'[Zone].seek))
    BY <1>0, <2>2, AppendDue
  <2> QED
    BY <1>7, <2>1, <2>3 DEF HearsState
<1>8. CASE HearsSeek
  <2>1. PICK m \in FromRoon : /\ m.kind = "zones_seek_changed" /\ inbox' = Append(inbox, m)
                              /\ m.first = playing'[Zone].seek
    BY <1>8 DEF HearsSeek
  <2>2. m \in SeekMessages \cap TellsSeek(playing'[Zone].seek)
    BY <2>1 DEF TellsSeek, SeekMessages, Position
  <2>3. Due(Append(inbox, m), SeekMessages, TellsSeek(playing'[Zone].seek), Coming,
            ShowsSeek(playing'[Zone].seek))
    BY <1>0, <2>2, AppendDue
  <2> QED
    BY <1>8, <2>1, <2>3 DEF HearsSeek
<1> QED
  BY <1>2, <1>3, <1>4, <1>5, <1>6, <1>7, <1>8, FollowedZone DEF IsGone, Absent

-----------------------------------------------------------------------------
LEMMA DisplayInit == Init => InOrder /\ AnswersComing /\ NamesComing /\ StateComing /\ SeekComing
BY DEF Init, InOrder, AnswersComing, NamesComing, StateComing, SeekComing, Ready

LEMMA OrderInv == Spec => []InOrder
BY TypeInit, TypeStep, DisplayInit, OrderStep, PTL DEF Spec

(* Every request of Roon's is answered, and the core that asks for the     *)
(* pairing told that it is paired, once nothing is in flight: whatever was *)
(* lost or closed before, and however its requests come between others.    *)
THEOREM RequestsAnswered == Spec => []Answered
<1>1. AnswersComing => Answered
  BY DEF AnswersComing, Answered, Quiet, Carried
<1> QED
  BY <1>1, TypeInit, TypeStep, DisplayInit, OrderInv, RoonTypeCorrect, AnswersStep, PTL DEF Spec

(* The web page offers every zone there is, once nothing is in flight.     *)
THEOREM ZonesOffered == Spec => []ZonesListed
<1>1. NamesComing => ZonesListed
  BY DEF NamesComing, ZonesListed, Quiet, Ready
<1> QED
  BY <1>1, DisplayInit, OrderInv, RoonTypeCorrect, NamesStep, PTL DEF Spec

(* Once nothing is in flight the metadata is what the zone followed plays, *)
(* also when its updates came while a cover was downloaded.                *)
THEOREM ZoneDisplayed == Spec => []Displayed
<1>1. TypeOK /\ StateComing => Displayed
  <2> SUFFICES ASSUME TypeOK, StateComing, Quiet, playing[Zone] # Absent
               PROVE  /\ playing[Zone].track \in {None, meta.track}
                      /\ meta.state = CASE playing[Zone] = Stopped -> None
                                        [] playing[Zone].state = "paused" -> "paused"
                                        [] OTHER -> "playing"
    BY DEF Displayed, Shown
  <2>1. meta \in ShowsState(playing[Zone])
    BY DEF StateComing, Quiet, Ready, Due, LatestIn, NoneOf, Coming
  <2>2. /\ playing[Zone].state \in {"stopped", "loading", "playing", "paused"}
        /\ playing[Zone].state = "stopped" <=> playing[Zone] = Stopped
    BY RoonAssumption DEF TypeOK, ZoneStates, Absent, Stopped, RoonAssumption
  <2> QED
    BY <2>1, <2>2 DEF ShowsState, PlayState
<1> QED
  BY <1>1, DisplayInit, OrderInv, RoonTypeCorrect, StateStep, PTL DEF Spec

(* So is the position, when only the zone followed plays: the first entry  *)
(* of zones_seek_changed is then its own.                                  *)
THEOREM PositionDisplayed == ASSUME ~OthersPlay PROVE Spec => []SeekShown
<1>1. Init => OthersRest
  BY DEF Init, OthersRest, Absent, Stopped
<1>2. ASSUME TypeOK, OthersRest, [Next]_vars PROVE OthersRest'
  BY <1>2, RestStep
<1>3. SeekComing => SeekShown
  BY DEF SeekComing, SeekShown, Quiet, Ready, Due, LatestIn, NoneOf, Coming, ShowsSeek
<1> QED
  BY <1>1, <1>2, <1>3, DisplayInit, OrderInv, RoonTypeCorrect, SeekStep, PTL DEF Spec
=============================================================================
