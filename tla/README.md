# RooNAA6 in TLA+

RooNAA6 sits between HQPlayer and an NAA v6 audio endpoint. It relays the audio
connection, replaces the metadata HQPlayer puts into it by what a Roon zone is
playing, relays the control ("status") connection in a similar way, answers
discovery requests in the endpoint's name, and has a small web page for its
configuration. This directory models the relays and the sessions around them, the
Roon client, and the process with its configuration from boot to web page; it
checks the models with TLC and proves their safety with TLAPS.

Paths are those of the repository; line numbers in `PROJECT.json` refer to
`src/src/*.rs` there.

## 1. Inventory

| Component | Code | State | Operations | Interacts through |
|---|---|---|---|---|
| Frame proxy | `proxy.rs` (`forward_hqp_to_naa`, `FrameProcessor`), `frame.rs` | position in the read buffer, header accumulator, queue of operations, sample width, keys last emitted, bytes collected | read, XML at the top or in the middle of a buffer, header, build operations, execute them, flush | TCP from HQPlayer and to the NAA; reads the shared metadata once per frame |
| Shared metadata | `metadata.rs` | one `Arc<Metadata>` behind a lock, list of zone names | get, set | written by the Roon thread; read by both relays and the web page |
| NAA sessions | `main.rs` 249-312, `forward_passthrough` | accepted and upstream socket, two threads, a channel | accept, connect, spawn, wait, shut down, join | channel, sockets, join |
| Status sessions | `main.rs` 167-235, `forward_status_to_naa` | the same | the same, without joins | the same |
| Status rewriting | `proxy.rs` 64-129 | none from read to read | rewrite the `song` attribute | shared metadata |
| Roon client | `roon.rs` | WebSocket, key of the last cover, core id, token file | connect, register, pair, subscribe, answer requests, apply updates, download covers, reconnect | Roon Core; shared metadata |
| Discovery | `discovery.rs` | none (endpoints found, at boot) | search for endpoints at boot; answer requests | UDP multicast |
| Boot | `main.rs` 30-165 | configuration loaded, resolved endpoint | load, search, resolve the target, apply the iptables rule, start the threads | configuration, discovery, iptables |
| Web administration | `web.rs`, the dropdown of `web_page.html` | stop flag, endpoints found at boot | status, read and save configuration, iptables, cover, restart, shutdown | configuration file, shared metadata, iptables, systemd |
| Configuration | `config.rs` | TOML file and its backup | load, save (copy, truncate, write) | file system |
| iptables | `iptables.rs` | kernel rule (external) | check, add, remove | kernel |

Not part of the system modelled: `python_prototype/` (not built), Debian packaging
(only its restart of the service matters), the rest of `web_page.html`.

What is hard here:

* **Framing.** Binary frames and XML share one TCP stream with nothing between
  them. The code must find every boundary by itself, whatever TCP cuts the
  stream into; one byte counted wrong shifts everything after it.
* **Concurrent metadata.** The Roon thread replaces the metadata at any moment,
  also between two frames of one buffer.
* **Remembered state.** The proxy emits only what has changed, so it must know
  what the endpoint displays, which a start message makes it forget.
* **Tear-down.** Two threads block in reads of different sockets; either may end
  first, and the other must then end without the help of its peer.
* **Reconnection.** Everything but a token is lost when the connection to Roon
  or the process goes; Roon moves on meanwhile; covers take seconds to load.
* **Text in a stream.** The status relay replaces an attribute in whatever one
  read returned; messages do not keep to reads.
* **Three copies of the configuration.** The file, the one loaded at boot and the
  one an open page shows, with a rule in the kernel that must agree with them,
  and a process that its own page kills.

What makes each part correct: the frame proxy hands on all audio and XML, in
order, and none of HQPlayer's sections, and knows what the endpoint displays; a
session touches no other and ends when one side closes; what Roon's zone plays is
what is published, each track with its own details; status messages change in
their song values only; a configuration survives any crash, changes only as asked,
and what it says of rule and endpoint is what happens. `PROJECT.json` lists the
hazards at their lines with the properties that would catch them.

## 2. Modules

```
NaaProtocol ── FrameProxy ── FrameProxyProperties ── MCFrameProxy
     │                             │  └── FrameProxyProofs ── FrameProxySafetyProofs
     └──── NaaStream ── INSTANCE ──┘                                └── FrameProxyNaaProofs
Sessions ───── MCSessions          RoonClient ─── MCRoonClient
     └── SessionsProofs                  └── RoonClientProofs
Boot ── Admin ── MCAdmin           StatusProxy ── MCStatusProxy
          └── AdminProofs                └── StatusProxyProofs

SequenceLemmas: what FrameProxyProofs, RoonClientProofs and StatusProxyProofs share
```

### NaaProtocol: the stream

A stream is a sequence of *units*, each labelled with the message it belongs to.
A frame is one unit per byte (header, then `[pcm][pos][meta][pic]`); an XML
message is four or five units, those whose place the code looks at: first `<`,
attributes, closing tag, `>`, optional newline. The labels are the truth that
properties speak of. The proxy sees only `IsLt`, `IsWhitespace`, `IsStart`, the
closing tag and, once it has a header, its fields. `IsStream` says what HQPlayer
may send: whole messages back to back, each frame using the sample width of the
last start message. Body bytes may look like `<`.

### FrameProxy: forward_hqp_to_naa

| Model | Code |
|---|---|
| `at`, `lim` | `pos` and the length of the buffer, counted from the start of the stream |
| `pc` | `read` (in `src.read`), `top` (buffer just read), `loop` (the while loop), `drain` (`execute_ops`), `closed` and `corrupt` (thread has returned) |
| `ops`, `header_buf`, `bits`, `last_meta_key`, `last_pos_key` | fields of `FrameProcessor`; for `header_buf` its length, its bytes being those before `at` |
| `out`, `dst` | the `Vec` of the buffer; what was written to the NAA |
| `shared`, `Set` | `SharedMetadata` and the Roon thread |
| `Read`, `ReadEnds` | `src.read`: any length TCP gives, end of stream, error |
| `TopOfBuffer`, `MidBufferXml` | the two XML branches, with `find_xml_end` and `handle_xml` |
| `AccumulateHeader`, `CompleteHeader`, `Resume`, `FlushOut` | the other branches of the loop |
| `DrainPass`, `DrainSkip`, `DrainEmit`, `DrainDone` | `execute_ops`, one operation at a time |
| `WriteAll` | `write_all`: all of it, or a prefix and the thread ends |

A header read out of step parses to any of `Garbage`. `SplitXml` says whether TCP
may cut an XML message; see the findings. The text of a built section is one
element `Meta(key, bits)`, `Pos(key)` or `Pic(cover)`; track, position and cover
are members of small sets. Nothing observable happens between the metadata being
read and the operations being queued, so `CompleteHeader` is one step.

### NaaStream: what the endpoint is promised

The abstract specification: a well-formed stream, in which a header announces
exactly the sections that follow, in order, audio is counted with the width in
force, and XML stands only between frames; a broken connection leaves a prefix.
`FrameProxyProperties!WellFramed` is its `StreamSpec` under the mapping `heard` =
what was handed on, `owed` = the operations still queued, `bits`, `open`.

What the NAA displays (`Displayed`) is said without folding over what it heard: it
is the latest section of a kind that no start message follows.

### Sessions: the accept loops

One module for both loops (`Loop = "naa"` or `"status"`), because the code is the
same but for the joins and for which side is accepted.

| Model | Code |
|---|---|
| `backlog` | the listener's queue |
| `mainpc`, `cur` | where the loop stands, in which session |
| `shut` | `shutdown(Both)` called on a socket |
| `thread`, `hold` | a relay thread: in `read`, in `write_all` with that much left, over, panicked |
| `unread`, `unsent` | the sockets' buffers, `Cap` units each |
| `done` | messages in the session's `mpsc` channel |
| `Recv` | `done_rx.recv()`: a message, or both senders dropped |
| `GivesUp` | `forward_hqp_to_naa` returning on a corrupt header |

What the bytes are is left to `FrameProxy`; here they are counted. The rewriting
thread may write more than it read, and in the NAA loop nothing at all.

### RoonClient: run, run_once

| Model | Code |
|---|---|
| `pc` | `down` (sleeping or connecting), `info` (in `recv_response`), `loop`, `download` (in `download_cover`) |
| `meta`, `zones` | the shared metadata |
| `last_image_key`, `core_id` | locals of `run_once`; of `core_id` only whether it is known |
| `saved` | whether the token file holds a token; a write may fail |
| `pending` | the copy `apply_zone_update` works on until it calls `set` |
| `link`, `inbox`, `outbox` | the WebSocket: `closed` is told to the client, `lost` is not |
| `playing`, `session`, `asked` | Roon Core, external |

A track stands for (title, artist, album), a cover for its key. Request ids are
left out: the code never compares them. A zone that stops keeps its last track,
as in the code; one that loads counts as playing. A track may be one with an empty
title. Two things are assumed about Roon. A message is of one kind: of `zones`,
`zones_changed` and `zones_added` in one body the code looks at the first only
(`roon.rs:130`), so `Displayed` and `ZonesListed` say nothing of a body with two.
And requests come only after registration: an earlier one would be taken for the
reply awaited (`roon.rs:45`), and `Answered` says nothing of it. Both are listed
as hazards. `MayVanish`
and `OthersPlay` switch on the two things that findings 2 and 3 are about: a
connection lost without a close, and another zone that plays.

### StatusProxy: forward_status_to_naa

| Model | Code |
|---|---|
| `at` | how much of HQPlayer's stream was read |
| `pend` | the read's bytes after `rewrite_status_song` |
| `out` | what `write_all` has handed on |
| `shared`, `Plays` | the title in the shared metadata; the Roon thread |
| `Read`, `WriteAll`, `Ends` | one turn of the loop; end of stream, errors, a write that fails half way |
| `Starts`, `ValStart`, `ValEnd`, `IsUtf8` | `find("song=\"")`, `find('"')`, `from_utf8` |

The stream is a sequence of units, as fine as the code can tell apart: the three
parts of `song="`, a value's text, a quote, the two bytes of a character, other
text. Each carries its place in HQPlayer's stream, so that loss, repetition and
order can be told. A title is a sequence of characters, because `xml_escape_attr`
replaces them one kind after the other; an entity is one unit, and another one
(`twice`) if its `&` has been escaped again, which no parser turns back. Blocking and the thread's life are in
`Sessions`. `untold` is the model's own: how much had been read at the
last read that found no title at hand, up to where no relay could have replaced a
song. A title may become empty again, and then songs pass as they are.

### Boot and Admin: the process, its configuration and its page

`Boot` is the process from `main`'s first line to its accept loops, `Admin` adds
the web thread. Together they run for many lives of the process.

| Model | Code |
|---|---|
| `file`, `bak` | `config.toml` and its backup, `Torn` when it does not parse |
| `proc` | `down`; `search` (in `discover_endpoints`); `rule` and `spawn` (before `add_rule`, before the threads); `up` |
| `cfg`, `found`, `target` | `config`, `discovered`, `resolve_target`'s result in `main` |
| `answers`, `Hears` | replies to the search on their way, one per multicast group |
| `rules` | the kernel's table: source addresses redirected (external) |
| `Added`, `Removed` | whether `add_rule`, `remove_rule` return Ok |
| `Start`, `TargetFound`, `NoTarget`, `AddRule`, `SpawnAll` | `main` in its order; `NoTarget` are its exits |
| `web` | where the web thread stands: `accept`, `read`, then for a save `copy`, `copied`, `truncate`, `write`, `reply`; `stopped` |
| `queue`, `req`, `draft`, `stop` | connections not accepted, the request, the configuration about to be saved, `self.shutdown` |
| `HandleSave`, `HandleToggle`, ... | the handlers up to `config::save` |
| `CopyBegins` ... `WriteEnds` | `config::save`, in the steps a crash can separate |
| `page`, `Offered` | the dropdown of the page in the browser: what a save can carry |
| `kill`, `Killed` | `systemctl restart`, spawned by the page |
| `Dies`, `MachineRestarts`, `Switched` | crash or kill; reboot, which empties the kernel's table; a device going on or off |

A configuration keeps what the boot looks at; addresses, names and texts are
members of small sets, and a host may be a text that is no address. Assumed:
the file is edited by hand only before the first boot; a reboot writes the disks
out; iptables works for the process or never does (`works`), the disk has room or
not (`room`), and only one of the two is missing. The responder of this process
answers nothing at boot (it is not yet started); another instance's is the device
named `PROXY_NAME`. `chosen` is the model's own: the device last saved.

## 3. Runs

`tlc -config <cfg> <module>`; each finishes in at most about two minutes.

| Run | Checks | Result |
|---|---|---|
| `frame_proxy` | types; no byte of HQPlayer's sections leaks; order; nothing lost; in step; corrupt only if sent; nothing held back; the keys remembered are what the NAA displays; every frame refreshes; no section repeats; `NaaStream` is implemented; each buffer read is worked off | holds |
| `frame_proxy_split` | the comment that no HQPlayer META leaks, when TCP cuts an XML message | **violated** |
| `sessions_naa` | types; one upstream connection; no thread of an old session alive when the next is taken; no session cut short; a session one side of which has closed ends | holds |
| `sessions_status` | without joins, the thread left behind ends and the session ends | holds |
| `roon_client` | types; what is displayed is what the zone plays; its position; cover and length are the track's own; every request answered; every zone listed; the metadata catches up after broken connections | holds |
| `roon_client_lost` | the same when a connection is lost without a close | **violated** |
| `roon_client_seek` | the position is that of the zone followed, with a second zone playing | **violated** |
| `status_proxy` | types; nothing but song values is touched; what is displayed is HQPlayer's song or exactly a title of Roon's; titles never go back | holds |
| `status_cut` | no song read with a title at hand goes on as HQPlayer sent it | **violated** |
| `admin` | types; file or backup whole after any crash; a save changes what was asked and nothing else; "ok" to a toggle means the rule is switched and saved; an enabled rule is in the kernel; the device saved is the one served; the process comes up; connections are served; a shutdown stops the server, for good | holds |
| `admin_rule` | status traffic reaches a port the proxy listens on | **violated** |
| `admin_save` | what the page saves can be resolved by the next boot | **violated** |

Every property has a mutant, a definition changed as a plausible bug would change
it (in the modules, marked "Mutant:", before the definition it replaces), and is
violated by it.

### Bounds and why they are enough

* **Frames** (`MCFrameProxy`): headers of two bytes (the code branches only on
  "whole", "part" and "none"), sections of at most two bytes, buffers up to
  eight, four streams which between them have all sections, an empty body, a body
  of `<` bytes, consecutive and repeated starts, a changed sample width, DSD, a
  corrupt header, trailing XML. TCP may end a read after any unit (in the passing
  runs, not inside an XML message). Four metadata values: the same track with a new
  cover and position, another track without a cover, and one without a title. The proofs cover the rest.
* **Sessions**: two clients, so a second one waits while the first is served or
  comes after it; buffers of one unit, so that every write can block. The safety of
  the status loop is left to the proofs, which are about both loops.
* **Roon**: two zones, two tracks of two albums, positions 0 and 1, and four
  events out of: a zone changes, goes, or advances; a request; a connection
  breaks; a reply is too late; a restart. Four are enough to play, break, change
  and come back. Tracks that share a cover are left to the proof of `OwnDetails`.
* **Status** (`MCStatusProxy`): fifteen units that hold two messages with a song
  and one without, a two-byte character between them; three titles, one empty, one of
  nothing but the characters that are escaped; reads of up to thirteen units, so that two
  messages can share one and every cut occurs.
* **Admin** (`MCAdmin`): two endpoints, another proxy and a host that is no
  address; five files, from the README's minimal one to target and host that
  disagree and a rule for a host other than the endpoint; four events out of lost
  answers, requests, crashes, reboots and devices going on and off, besides the
  restarts that systemd makes by itself. Four let the page be opened, a save be
  sent and cut off, and the machine reboot. One connection waits while one is
  served.

`CHECK_DEADLOCK FALSE` stands in the runs of `Sessions`, `StatusProxy` and
`Admin`: an accept loop with nobody left to connect, a relay whose connection is
over, and a server with no more requests rightly stop; so does a process whose
file is torn, although systemd keeps trying.

### Fairness

* Frame proxy: weak fairness of the steps after a read. The thread computes; only
  `Read` waits for somebody else and has none. Writes terminate or fail.
* Sessions: the loop and the relay threads run; a peer with an open connection
  drains it (`Takes`); a write to a peer that is gone fails in the end (TCP's own
  timeout). No peer has to send, close or connect: so the session must end
  because of the shutdown. `SessionEnds` is stated of behaviours without a panic:
  after one, `recv` does wait for the other side (listed as a hazard).
* Roon: the client's thread runs, a connect succeeds sooner or later, Roon
  answers, and the user approves the extension. `CatchesUp` says that the
  metadata becomes and stays the zone's once the (bounded) events are over.
* Admin: systemd starts the process again (`Restart=` of the unit) and kills it
  when the page has asked for it; its threads run; answers that are on their way
  arrive, but an event may lose them. Nobody has to open the page. `ComesUp` needs
  a configuration that names or leaves no doubt about an endpoint that is there.
* Status: none, only safety is stated; the thread's end is in `Sessions`.

## 4. Findings

1. **XML cut by TCP** (`frame_proxy_split`, `proxy.rs:327`). Without a closing tag
   in the buffer the whole rest is taken for the message, and the next read starts
   anew: the remainder is parsed as a frame header, and HQPlayer's META goes
   through as audio.
2. **Lost connection never noticed** (`roon_client_lost`, `roon.rs:84`). Nothing is
   sent on the connection and a read timeout only continues the loop.
3. **Position of another zone** (`roon_client_seek`, `roon.rs:253`).
4. **Status messages cut by TCP** (`status_cut`, `proxy.rs:84`). The rewriting looks
   at one read at a time and at the first song in it.
5. **A rule to a closed port** (`admin_rule`, `web.rs:295`). The toggle redirects to
   14321 at once, but that port is opened at boot and only if `[iptables]` was in
   the configuration then.
6. **A save that erases the endpoint** (`admin_save`, `web.rs:234`). With an empty
   dropdown, a save of the zone clears host and target, and the next boot may exit.

Where the code does something unexpected that no document forbids, it is a hazard
in `PROJECT.json` and not a finding: an unchanged cover is sent again with each
track of an album, although the comment at `proxy.rs:202` speaks of one rule for
every section (`proxy.rs:261`); a track without cover or length keeps those of the
one before (`roon.rs:190`). Two texts disagree with the code where no run can
show it: `README.md` 83 and 90 say the proxy appears under the name of the NAA
endpoint, the code answers with a fixed `PROXY_NAME`; and `config.toml.example`
gives the default version as "eversolo naa", the code as "naa".

## 5. Proofs

`tlapm <module>`; no obligation is left out and nothing is assumed beyond the
constants' `ASSUME`s and what a theorem states.

* **FrameProxyProofs** proves `TypeCorrect` for every stream and buffer size, XML
  cut or not.
* **FrameProxySafetyProofs** proves, when reads do not end inside an XML message
  (with the finding above that is the condition under which they hold),
  `NoLeak`, `NothingLost`, `InStep` and `CorruptOnlyIfSent`. None is
  inductive: that no byte leaks depends on where the proxy believes it is. `IInv`
  adds *Placed* (between messages or inside a header when nothing is pending, else
  in the body of a frame with a queue that is a *Plan* for exactly its rest),
  *Clean* and *Complete* (what was handed on, against the prefix consumed). The
  steps are: `find_xml_end` ends where the message ends; the operations built are
  a plan for the body; taking from the head of a plan leaves a plan. `InOrder` is
  proved wherever reads end, from an invariant of its own (*Rising*): a proxy that
  has lost its place still only moves forward, and all it hands on lies behind it.
* **FrameProxyNaaProofs** proves what the NAA makes of it, under the same condition:
  `NothingHeldBack`, `BeliefHeld`, `EveryFrameRefreshes`, `NoRepeat`, and that
  `FrameProxy` implements `NaaStream` (`StreamPromised`). To `IInv` it adds
    * *Wanting*: an operation left for the next buffer wants bytes;
    * *Held*: of the META sections and start messages that the NAA is to hear the
      latest is a section with the key remembered, or a start message and nothing
      is remembered; the same of POS. This holds at every operation of every queue,
      while `BeliefHeld` alone says nothing of what was heard before;
    * *Shape*: the queue is the header and what it announces, or what is left of
      that. A step of `execute_ops` is a step of `NaaStream` only because the
      sections still queued are exactly those owed, which the invariants before
      do not say.
* **SessionsProofs** proves `TypeOK`, `OneUpstream`, `NoStrays` (NAA loop) and the
  action property `NotCutShort` for any number of clients, with panics. The
  invariant ties each thread that is alive and each open upstream connection to
  the loop's position, keeps the backlog free of sessions already served, and says
  that past `recv` a thread is over.
* **RoonClientProofs** proves `TypeOK`, and `OwnDetails` under the condition that
  every track has a cover and a length (without, the code does fail it: the
  hazard at `roon.rs:190`). The invariant needed is that `last_image_key` is the key
  of the track published, or of the update a download holds back: then keeping the
  cover is right. It also proves what is shown once every message is worked off:
  `Answered`, `ZonesListed`, `Displayed`, and `SeekShown` when no other zone plays
  (otherwise finding 3). Each of these speaks of quiet states only; its invariant is
  a promise in all states about messages in flight (*AnswersComing*, *NamesComing*,
  *StateComing*, *SeekComing*): what is not shown yet is on its way, and of the
  messages that carry it the latest carries what the zone does now. *InOrder* says
  that nothing comes before the reply that opens a session.
* **StatusProxyProofs** proves `TypeOK`, `OnlySongsTouched`, `ShowsATitle` and the
  action property `TitlesFollow` for any stream, cut anywhere, and any titles. The
  invariant is about what was written together with what is about to be: each unit
  of the proxy stands in a title that is opened by `song="` and closed by a quote
  (*Told*), or would be had the write not failed; nothing that a read leaves ends
  within a title (*Whole*), so what is written next cannot become part of one;
  HQPlayer's units are in order and, but for songs, all there (*Relays*,
  *Complete*). That escaping loses nothing is `EscapeIs` and `EscapedIs`: the four
  replacements in their order turn each character into one unit that is no quote
  and that the parser turns back.
* **AdminProofs** proves, for any devices, configurations and requests, `TypeOK`,
  `BackupHolds`, `OnlyWhatWasAsked`, `ToggleTold`, `EnabledIsInPlace`,
  `ShutDownForGood`, and `ChosenIsUsed` under the condition that no two devices
  have the same name (with two, the code does take the first to answer: the hazard
  at `main.rs:42`). What the properties say at the end of a save has to be true of
  the draft and of the backup at each of its steps: `IInv` has *Whole* (which of
  file and backup is whole, step by step), *AskedFor* and *Promised* (what the
  draft must be, against the file before it is truncated and against the backup
  after), *Loaded* (a boot works on what the file says, so that *RuleThere* and
  *ChosenKept* carry over from a file to the process it starts) and *ShutDown* (the
  file says so before the server is told). `ShutDownForGood` needs a second
  invariant, *Closed*, that holds from the first stop on.
* **SequenceLemmas** has what several of them need: the least of a set of naturals,
  the places of a part and of a concatenation, and how the latest element of a set
  changes when a sequence grows or loses its first element (`AppendDue`, `TailDue`,
  `ConcatDue`, `SilentDue`). Both *Held* and *StateComing* are such a statement,
  one about what was sent, the other about what will be received.

Every invariant and action property of the runs that hold is proved. Only
model-checked is liveness: `ReadsComplete`, `SessionEnds`, `StraysEnd`,
`CatchesUp`, `ComesUp`, `Served`, `ShutdownEnds` (fairness and ENABLED are out of
the prover's reach).

## 6. Not modelled, and plan

Left: a composition of `RoonClient` with `FrameProxy`, that what the NAA displays
follows the zone. Today each stands for the other: `FrameProxy` lets any metadata
appear at any moment, which includes all that `RoonClient` publishes, and
`RoonClient` states what a reader at any moment finds (`OwnDetails`).

Left out for good: HTML, JSON, MOO, TOML and HTTP parsing, logging, the text of POS
and META sections (field order and clamping), the pages that only show metadata,
versions in discovery, Debian packaging and the Python prototype. Left out as
well: web clients that do not read their answer (the server has no write
timeout), saves not yet on the disk at a power cut (the code does not sync; with
it neither file nor backup is sure), files edited by hand while the service runs,
endpoints of equal names, single iptables calls that fail, and two web servers on
one file.
