# USBra in TLA+

USBra makes an Android phone the second monitor of a GNOME desktop: a Rust host
(`host/`) creates a virtual monitor, grabs its picture and streams it over
`adb reverse` (or any TCP connection) to a Kotlin client (`android/`), which draws it.
This directory holds TLA+ models of that program, TLC configurations that check them
on small instances, and TLAPS proofs of the properties that matter most for every
value of the constants. Paths below are relative to the repository.

## 1. Inventory

| Component | Source | State it keeps | Operations |
|---|---|---|---|
| Streaming pipeline of a connection | `host/src/server.rs` `handle_conn`, `produce_frames`, `writer_loop` | bounded queue (2), two senders, stop flag, two socket handles, source, three threads | read PING / FRAME_ACK / DISCONNECT / anything else / EOF, open source, make and offer a frame, write, note, tear down |
| Accept loop, handshake, session table | `host/src/server.rs` `serve`, `accept_loop`, `handle_conn`, `SessionTable` | `sessions` (id to last frame), `frames` (window of 512 timestamps), both behind one mutex and shared by all connections | accept, HELLO, RECONNECT, refusal, `note_session`, `note_frame`, `frame_ts`, end of the process |
| GNOME frame source | `host/src/gnome/source.rs`, `dbus.rs`, `scripts/m6-pw-grab.py` | Mutter session, grabber process and its pipe, `prev` canvas, `frames_since_full`, `pending` first frame, size | `open`, `next_frame`, `to_client_frame`, `shutdown`, `Drop` |
| Test-pattern source | `host/src/testsource.rs` | canvas, three moving boxes, tick | `next_frame` |
| Damage algorithms | `host/src/damage.rs` | none | `dirty_rects`, `merge_vertical`, `pack_rects` |
| Wire protocol | `protocol/src/lib.rs`, `Protocol.kt` | none; a reader holds part of a message | encode, decode, framing, limits |
| Android client | `UsbraClient.kt` | `running`, socket, session id, reconnect delay, ping thread | connect, handshake, pump, ack, `stop`, back off |
| Android renderer | `FrameRenderer.kt`, `MainActivity.kt` | `pending` frames (at most 8), display size, texture | `setDisplay`, `submit`, `onDrawFrame`, `onSurfaceCreated` |
| Tunnel keeper | `scripts/adb-usb-setup.sh` | its place; adb keeps the tunnel | wait for the device, `adb reverse`, look every 2 s |
| Statistics log | `stats.rs` | the log file, counters and their window, each behind a mutex | `event`, `frame` |
| Command line, self test, probe | `args.rs`, `main.rs`, `selftest.rs`, `gnome/probe.rs` | the arguments; the probe's monitor and child | parse, dispatch, start of `serve`, test, probe, exit |
| Diagnostic scripts | `m6-probe-virtual-monitor.py`, `m6-diag-gst.py`, `m1-verify-displays.sh`, `summarize_stats.py` | none | not modelled |

How they interact. The accept loop spawns a thread per connection. After the handshake
that thread starts a **producer** and a **writer** and becomes the **reader**. Reader and
producer offer messages to the writer through one `sync_channel(2)` with `try_send`; the
writer alone blocks on the socket. A stop flag, the fall of the senders and two joins
end a connection. All connections share the session table. The producer pulls frames
from a source it owns; the gnome source in turn reads canvases from a child process.
On the phone a client thread reads frames and hands them to the renderer's queue, which
the GL thread empties when it draws.

Hard behaviour, and what makes each component correct:

- **Pipeline**: two threads offering to one bounded queue that may be full at any moment,
  a flag polled once per frame, a teardown that waits for threads which may themselves be
  blocked. Correct: order and at-most-once of what is written; nothing after a goodbye;
  what was accepted is written unless the transport broke; `handle_conn` returns, and
  only with everything released.
- **Sessions**: look-up and note are two critical sections; several connections per
  session; acks looked up in a window all connections share; the table dies with the
  process. Correct: served only under a session this process granted; the table names
  only what was written, and retains it.
- **Picture**: damage is computed against what the source *made*, not against what the
  client *got*; frames are lost at the queue and at the renderer's cap; contexts and
  connections are lost. Correct: only what was lost is missing, and it comes back.
- **Gnome source**: a blocking read nobody can interrupt, death of the grabber, errors in
  the middle of `open`. Correct: a session that was started is stopped.
- **Client**: `stop` against a socket about to be replaced, ping threads that outlive their
  socket, a session the host has forgotten. Correct: it ends when stopped, comes back when
  the cable does, and is never in a session the host does not know.
- **Wire**: two implementations of one format, octets that arrive in any portions, streams
  that end anywhere. Correct: what is read is what was written, and what both sides agreed
  on is refused by neither.
- **Damage, pattern**: limits and edges. Correct: rectangles cover what changed and nothing
  outside.
- **Tunnel**: polled every two seconds, lost with every pull. Correct: a phone that stays
  has its tunnel, and its client comes back.
- **Process**: one port and one log for several hosts, one log for several threads, a kill
  between any two steps. Correct: a log is touched only by who has the port, its lines and
  the counters agree, and what succeeds leaves nothing behind.

`PROJECT.json` lists each hazard at its line.

## 2. Modules

| Module | Models | Composes |
|---|---|---|
| `FrameChannel` | abstract: what a connection promises, a bounded lossy ordered channel with goodbye and failure | - |
| `FramePipeline` | the three threads of a connection, queue, flag, client and cable | refines `FrameChannel` |
| `GnomeSource` | life of the gnome source: Mutter session over D-Bus, grabber process, frames, shutdown | - |
| `GnomeBounds` | its bounds | - |
| `GnomeConnection` | a connection whose producer takes its frames from gnome | `FramePipeline` and `GnomeSource`; its source refines the latter |
| `HostSessions` | accept loop, handshakes, shared table, acks, restarts of the host | takes a connection's threads for what `FrameChannel` promises |
| `MCHostSessions` | its instances for TLC, with symmetry | `HostSessions` |
| `Resync` | the picture from the desktop to the texture: source, damage, lossy channel, renderer | takes the channel as frames in order of which some are lost |
| `Rects` | rectangles, their pixels, the upload to the texture | - |
| `Damage` | `dirty_rects`: tiles, runs, vertical merging, limit | `Rects` |
| `TestSource` | the test pattern: moving elements, damage, canvas | `Rects` |
| `Pictures`, `MCPictures` | both sources' frames in two dimensions and the texture they make, without losses; sizes for TLC | `TestSource`, `Damage` |
| `UsbraClient` | the phone's network client: reconnect loop, handshake, pump, ping threads, `stop` | has the host's handshake as its environment, as `HostSessions` has it |
| `TunnelKeeper` | the script that keeps the reverse tunnel | - |
| `Reconnection` | the client on the keeper's tunnel | `UsbraClient` and `TunnelKeeper` |
| `Wire` | the messages in octets, as each side writes and reads them, and the grabber's pipe | - |
| `Framing`, `MCFraming` | a stream and the reader at its end; streams for TLC | `Wire` |
| `CommandLine` | the arguments of the host, and what a whole command line means | - |
| `Stats` | event log and counters, shared by the threads of a serving host | - |
| `HostProcess`, `MCHostProcess` | the process from its command line to its exit; arguments for TLC | `CommandLine`, `Stats` |
| `*_proofs` | the theorems about the module they are named after; those of `FramePipeline`, `UsbraClient` and `TestSource` stand with the modules composed of them | - |

### FramePipeline

Each thread is a program counter; a step is what the thread does between two points at
which another thread can see it.

| Model | Code |
|---|---|
| `rpc`, `rtx`, `why` | the connection thread after the handshake: place, whether it still has `tx`, why the loop ended |
| `ppc`, `frames`, `srcOpen` | the producer: `open_source`, the poll of `stop`, `next_frame`, `try_send`, `shutdown` |
| `wpc`, `wmsg`, `wexit` | the writer: `recv`, `write_message`, `note_frame`, `shutdown(Both)`, return |
| `queue`, `TrySend`, `HasRoom`, `NoSender` | `sync_channel(2)`, `try_send`, its two senders |
| `ReadPing` ... `ReadEof` | one arm each of the reader's `match` |
| `StoreStop`, `DropTx`, `JoinProducer`, `JoinWriter` | the teardown, statement by statement |
| `Write`, `WriteFails`, `WritePanics`, `NoteFrame` | the writer's write with its three outcomes, then the note |
| `ClientSend`, `ClientRead`, `ClientGone` | external: any client, and the cable |

`TrySend` loses the message when the queue is full, as the code does. The flag is one
variable: its `Relaxed` store becomes visible at the step of the model that stores it. A
write blocks while the client has `SockCap` unread messages. `WritePanics` is the
`assert!` in `to_bytes` on a payload above 64 MiB, which skips the writer's shutdown;
with `FullFits = FALSE` any full frame may be that large, because a captured stream may
change its size. `pipeline` takes this case in.

### HostSessions

A step is one critical section of the table's mutex, or one message read or written.
`st` is where a connection's thread is; `noting` is the frame that was written and not
yet noted. `sessions` and `frames` are the table's two maps; an entry of `frames` names
the connection whose clock stamped it, since connections' frame ids collide. Session ids
are drawn from those never issued: `new_session_id` mixes the clock with a counter, and
that they are distinct is assumed here. `Restart` is the end of the process, by an error
of `accept` or from outside, and the start of the next.

### Resync

The picture is one row of tiles; a frame is a function from the tiles it covers to their
content. `clocked` is the test pattern (`Tick`) or gnome (`Change`, `GrabNothing`,
`GrabFull`, `GrabDamage`, the outcomes of `to_client_frame`; and `GrabBlank`). `Offer` accepts a frame or
loses it; how a queue comes to be full is `FramePipeline`'s subject. `Submit` and `Draw`
are the renderer's `submit` and `onDrawFrame`; `Drawn` leaves out rectangles that reach
beyond the announced display, as the upload does. `lost` is history: the tiles whose
newest content the client will not get from what was accepted.

A dead grabber (`GrabberDies`) ends neither the connection nor the source: once nothing is left
in its pipe, every call of `next_frame` returns a black frame of the last canvas's size, and
`prev` stays what it was (`GrabBlank`). So `Made`, what the source made of the picture last, is
`prev` or black, and the phone turns black and stays so until the client reconnects, which brings a
new grabber. The black frame `next_frame` returns when it sees its own stop flag
(`source.rs:241`) is never made: only `shutdown` sets that flag, on the same thread.

`FullEvery` is at least 1. With `--full-frame-every 0`, the user's explicit "off"
(`testsource.rs:169`), the pattern makes no full frame after the first, and `PatternRecovers` is not
claimed.

Abstracted: canvases waiting in the grabber's pipe (each one is complete, so they only
delay) and reads that fail although the grabber lives (`GnomeSource`'s `NextRetry`, and `Framing`'s
pipe), the second dimension, the 32-pixel tiles and the geometry of the test pattern
(`Tick` lets anything inside the reported tiles change), which are the subject of
`Pictures`; pixel formats (both ends always use BGRX).

### Rects, Damage, TestSource, Pictures

A picture maps pixels to what they show: in `TestSource` the number of the topmost element
or 0 for the background gradient, in gnome's canvases one of two values.

| Model | Code |
|---|---|
| `Bounce`, `NextBar`, `Advance` | `TestSource::advance`, one axis, the bar, all of it |
| `Clip`, `Elements`, `Damaged` | `clip`, the rectangles of the three elements, the damage of a frame |
| `Painted` | `erase` and `fill` over all rectangles |
| `tick`, `FullDue` | `tick % (fps * full_every_secs)`; `first` is `frame_id == 1` |
| `TileChanged`, `RowRuns`, `MergeVertical`, `DirtyRects` | `tile_changed`, the inner loop, `merge_vertical`, `dirty_rects` |
| `Grab` | `to_client_frame`: another size, the periodic full frame, nothing changed, near-full damage, damage |
| `Upload` | the loop of `onDrawFrame` |

`Painted` says what the two loops leave on a pixel: every rectangle that holds it draws all
elements there again, in order, so the topmost that meets one of the rectangles remains.
Rectangles of a frame are a set: the code leaves out repeated ones, and since all of them
carry the same finished canvas their order does not show. `merge_vertical` is a fold over
the rectangles in the order it sorts them. A damage frame that is one whole rectangle also
resets `frames_since_full`; it is near-full, so that arm has it.

### GnomeSource

The producer's program counter walks through `open`, the loop of `produce_frames` and
`shutdown`; every call to the compositor is one step and may fail.

| Model | Code |
|---|---|
| `Connect` ... `AwaitNode`, `StartFails`, `HangUp` | `ScreenCastSession::start`, statement by statement; an error (the 8 s timeout is one) drops the bus connection, for there is no session object to drop yet |
| `Spawn`, `SpawnFails`, `ReadFirst`, `FirstFails` | the rest of `GnomeSource::open`: the grabber and its first frame; any error of its read kills and reaps the grabber, running or not |
| `ReadFails` | the errors of `read_ubf1_frame_once`: the end of the pipe, or a canvas the host refuses |
| `NextPending`, `NextCanvas`, `NextRetry`, `NextBlank` | `next_frame`: the frame of `open`, a canvas from the pipe (a frame, or unchanged), a read that failed and is tried again after 50 ms, a black frame once a read failed and the grabber is dead |
| `KillGrabber`, `StopSession`, `DropSession` | `shutdown` in its order, then `Drop`, which tries `Stop` again and closes the bus |
| `cast`, `emitted`, `ended`; `Announce`, `Vanish`, `CastEnds` | external: the compositor's session, its signal, its end, and the rule that who leaves the bus loses the session |
| `grabber`, `pipe`; `GrabberWrites`, `GrabberCloses`, `GrabberExits` | `m6-pw-grab.py`: a canvas per buffer; the pipe ends a moment before the process |

A canvas is its number; what becomes of its content is `Resync`'s subject. A failed read takes a
whole canvas from the pipe: which octets of it are read as headers is `Framing`'s. When it fails with
the grabber dead the pipe is taken to be empty from then on, because a refused canvas is
larger than the kernel's pipe, so that no whole canvas lies behind what was left of it. `bus` is what
the code relies on: the session object keeps the connection open, since Mutter ends a
session whose owner leaves.

### GnomeConnection

The producer of `FramePipeline` is here the producer of `GnomeSource`: one thread. Where the
pipeline has one step (`OpenSource`, `ShutSource`) the source has many; only the last of
them is the pipeline's (`Open`, `OpenError`, `Shut`), the others are `Within`. The stop flag `stop`
is one variable of both, and the source learns of the writer's end through the pipeline's `wpc`.
The flag is looked at by both at once (`Check`). `next_frame` returns where the
source has a canvas (`Grab`), and its frame is offered where the pipeline offers
(`Offer`). `SourceSpec` says that the reader's flag and the writer's end are to the source what its own
model takes them for. `shows` is history: what each frame of the pipeline shows. With it
`CanvasesOnStream` says what the client gets, which no half can say alone: the
pipeline knows which frames reach the stream, the source which canvas a frame is.

### UsbraClient

The client thread's program counter walks through `runLoop` and `connectAndPump`.

| Model | Code |
|---|---|
| `CheckRunning`, `OpenSocket`, `Connect`, `SayHello` | a round of `runLoop`; only at `OpenSocket` does the field refer to the new socket, so `stop` before it closes the old one |
| `ReadReply`, `ReadRefusal`, `HandshakeEnds`, `Establish` | the handshake: three replies, or DISCONNECT, or the end |
| `Pump`, `ReadFrame`, `ReadPong`, `Ack`, `PumpEnds` | the pump and its check of `running` |
| `Finally`, `Catch`, `Sleep` | the socket is closed; the delay is doubled up to 2 s after an exception and reset after a clean end |
| `PingCheck`, `PingWrite`, `PingFails`, `StrayEnds` | the ping thread of a session, which outlives its socket until its next write |
| `ClearRunning`, `CloseSocket` | `stop()`, two steps |
| `HostAnswers` ... `HostStarts` | host and cable; a restart of the host forgets its sessions |

What was received before a connection broke may still be read (the input is buffered);
a cut connection may end before it is. With the tunnel up but no host, adbd accepts and
closes. `tries` counts attempts since the last delay or session, `late` what was handed
to the activity after `stop`.

### TunnelKeeper, Reconnection

| Model | Code |
|---|---|
| `WaitForDevice`, `InstallTunnel`, `InstallFails` | `adb wait-for-device`, `adb reverse`; under `set -e` its failure ends the script |
| `Look` | `adb get-state` after two seconds: the phone is there now, which does not say that it was all the time |
| `Pull`, `Plug` | external: who holds the phone; adb forgets the tunnel with the device |
| `missed` | history: the phone came back while the keeper was between two looks |

In `Reconnection` the client's cable is the keeper's tunnel. A pull breaks the client's
connection at once, and only the keeper can bring it back. `missed` is what
`docs/03-usb-transport.md:29` leaves out where it says that the script keeps the tunnel
re-established automatically: a replug between two looks is not seen, and the tunnel stays away.

### Wire, Framing

Each side has its own table of the widths it writes (`HostPuts`, `PhonePuts`) and reads
(`HostTakes`, `PhoneTakes`), taken from `to_bytes` and `from_bytes`, and from `encodePayload` and
`decode`; what the two decoders do alike is `Parse`. The octet has `Base` values, so that
a number of two octets wraps early; the limits are constants. `Messages` and `Canvases` are what
the types of the code let a writer hold: numbers of their widths, texts and payloads of any
length, so that it is the writer's checks that keep them within the limits.

| Model | Code |
|---|---|
| `HostWrites`, `PhoneWrites` | the assertions of `to_bytes`; the requirement and the buffer of `Protocol.kt` |
| `HostHeaderOk`, `PhoneHeaderOk` | the header's checks; on the phone version and length are signed |
| `HostDecode`, `PhoneDecode`, `Registered`, `RawFits`, `Packed` | the decoders with what each checks besides; the phone adds up areas in 32 bits |
| `Piped`, `PipeHeaderOk`, `PipeDecode` | the grabber's header of 32 octets and `read_frame` of the gnome source |
| `ReadSome`, `Refuse`, `Deliver`, `ReadEnd` | `read_message`, in portions; an end between two messages is clean, one within is not |
| `Fail` | an error ends the reader; on the phone a read beyond the payload is no `IOException`; at the pipe the next octets are read as a header |
| `Tick`, `TimesOut` | the read timeout of the handshake, which every octet sets back |
| `Write`, `WritePanics`, `Close`, `Cut` | external: the writer, and the break of a connection |

### CommandLine, Stats, HostProcess

| Model | Code |
|---|---|
| `ReadFlag` ... `Refuse`, `Accept` | the loop of `parse`, an argument or a value at a time, and the checks after it |
| `Meaning` | the reference: what a whole command line means, by the places of its options |
| `Dispatch`, `NoProbe` | `main` |
| `Bind`, `Create` and their failures | the start of `serve`: the port, then the log |
| `Stamp`, `LockFile`, `WriteLine`, `EndLine`, `LineFails`, `EndFails` | `event`: the time, the file's mutex, the line, its end, and what a full disk leaves of them |
| `Count`, `Summarise`, `PrintPanics`, `LockPanics` | `frame`: the counters, the summary of a window, and a stderr nobody reads |
| `SelfTest`, `Pct`, `SelfTestPanics` | the self test, its percentiles as places, a frame `to_bytes` refuses |
| `StartSession` ... `ProbeEnds`, `ChildDies` | the probe's steps, and its `gst-launch` |
| `Killed` | external, at any step; no `Drop` runs then, and the bus takes the monitor |

An argument is one of a few strings; numerals have their value in `Number`. A value may
look like an option (`--stats --frame-ack` names a log), and the model reads it as the
code does. The bytes of a line and what the summary prints are left out.

## 3. Runs

Passing:

| Run | Question | Bounds |
|---|---|---|
| `pipeline` | order, drain, release, lateness, notes, refinement of `FrameChannel`; does a connection whose client is gone end? | queue 2 as in the code, 3 frames, 2 client messages, socket buffer 1, clocked source (`SelfPaced` changes only the fairness) |
| `host_sessions` | who is served, what the table retains | 3 connections, 3 ids and a bogus one, 2 frames each, window 2, 1 restart |
| `resync` | is only what was lost missing, is the rest shown when gnome's desktop rests, or black when the grabber is dead, and does the pattern recover? | stream of 2 or 3 tiles on a display of 2, queue 1, renderer's cap 2, a full frame every 3, 1 loss, 1 break, 2 changes, 1 resize |
| `pictures` | does the phone show what the source shows, is the pattern painted right, is damage minimal and accepted? | pattern on 7x5, 4x6, 2x3 and 1x1 pixels, elements of 1 to 3; tiles of 2 on streams of 3x5 and 5x1, every set of changed tiles; full frames every 5 and 3, at most 2 rectangles |
| `gnome_connection` | whatever fails, and whoever leaves when: is anything of the source left behind, is the monitor there while needed, are canvases handed out, and on the stream, in order, does it end? | queue 1, socket buffer 1, 2 frames, 1 client message, pipe of 1, 2 canvases |
| `reconnection` | does a stopped client end and a running one come back behind a keeper that polls, with a session the host knows and without a busy loop? | 2 faults (tunnel or host), 1 frame per connection, 2 messages in flight |
| `wire` | is what is read what was written, is what both sides agreed on understood, does reading end? | octets of 5 values, payloads of 240 octets, 2 rectangles, texts of 4, 16 streams in four kinds of link, portions of 1 octet or all |
| `host_process` | does a command line mean what it says, who touches the log, do log and counters agree, is success whole? | 15 arguments, 4 in a line; 2 threads, 3 lines, 2 frames, 1 failed write, 1 tick |

Why these are enough. The pipeline's queue is at its real capacity; with the message in
the writer's hand and one in the socket, three frames and two client messages fill
every place and overflow it, before the teardown and during it. Two
connections on one session with a third on another, and a table of before and after a
restart, are the smallest case of every interference in `HostSessions`; a window of 2 is
overrun by two connections of two frames. In `Resync` a run of dirty tiles with a gap
needs three tiles; a loss followed by damage elsewhere, by damage of the same tile and by
a full frame needs three frames. The renderer's cap is smaller than the distance of two full
frames, as in the code (8 against 120), so that a full frame can be dropped there.
The pattern's motion is periodic, and the run goes through the whole period; the displays
are larger than the elements, as large in one direction, smaller, and a single pixel. Streams
of 3x5 pixels in tiles of 2 have cut-off tiles on both edges, two columns to merge in and a
third row to leave a gap; 5x1 has three tiles in a row. In `gnome_connection` a pipe and a queue of
one are full and empty on either side of every step, and two canvases are the fewest that can be
handed out in the wrong order; the source goes on beyond the 2 frames the pipeline
counts, which is where `CanvasesInOrder` meets canvases behind black ones (on the stream that order is
proved, `CanvasesReachInOrder`). The queue's own capacity is the subject of `pipeline`. Two faults
are a restart of
the host behind a broken connection, or either of them twice; two messages in flight let a
connection break behind some of the three replies, and after `stop` one frame is one too
many behind a session that came too late. In `wire` a number of 16 bits has 25 values, so that
positions reach their edge and a count of 27 rectangles wraps, and the streams hold every message
either side sends, the limits on texts and rectangles reached and exceeded by one, and a frame
and two canvases above that of a payload. In
`host_process` four arguments are an option with its value, and another that contradicts it,
misses its value or ends the reading; two threads are one that holds the
file and one that waits for it, and a tick is the end of a window.

Properties are often conjunctions (`StreamSafe`, `TableSafe`, `SourceSafe`, `ShownSafe`, `LogSafe`
and so on): each is what one party may rest on, and its parts are stated, commented and
proved under names of their own.

Some smaller disagreements show in the actions themselves: an unknown message type ends the
reader without the DISCONNECT(PROTOCOL) of `docs/04-protocol.md:215`
(`ReadGarbage`); a goodbye is offered to the queue like any message and lost if that is full,
while `host/tests/loopback.rs:127` expects one (`ReadLast`, `TrySend`); the phone's
`lastFrameId` outlives its session (`SayHello`); the 10 s "budget" of the
handshake (`server.rs:149`) is a timeout of each read (`Tick`); a canvas above 64 MiB is an
error after its header was read, and its pixels are then read as headers, which finds the
next canvas only if they are a multiple of 32 octets (`Fail` at the pipe); a quick FRAME_ACK
precedes the note of its frame and then finds no timestamp (`ReadAck`, `noting`); frame ids start
again at 1 with every resume, where `docs/04-protocol.md:121` has them increase per session
(`WriteFrame`); the document allows 255 rectangles in a message by its limit and 64 by policy
(`docs/04-protocol.md:29`), while both decoders refuse more than 64 (`MAX_RECTS`), which is what
`Agreed` takes as agreed; and a stream of another size than announced is not announced again, so
that what does not fit the old size is skipped by the renderer (`Resized`, `Drawn`; such tiles
stay in `lost`).

Violated, each a claim of the repository's documents, comments or tests that the code
does not keep (`findings` in `PROJECT.json` quotes them):

| Run | Claim | What happens |
|---|---|---|
| `pipeline_first_frame` | the first frame is a full one | pings answered while the source opens fill the queue, and the full frame is dropped |
| `connection_unplug` | unplugging removes the virtual monitor | the reader joins the producer, which waits for the desktop and does not see the flag |
| `host_ack_stamp` | latency is that of the acknowledged frame | the shared window finds another connection's frame of the same id |
| `resync_static` | recovery is bounded, also with gnome | the full frame that is due is made from a grabbed buffer, and a static desktop gives none; a lost GL context is not repaired either |

Deadlock is checked for the pipeline (a finished connection stutters), for
`HostSessions` (all connections closed, `Done`) and for `Pictures`. `Resync` may stop, because its
desktop may rest and its bounds may be used up; so may a gnome connection whose desktop rests, a
client that has ended, a stream that was read to its end and a process that has exited.

### Fairness

- `FramePipeline`: weak fairness of each thread, because the operating system runs every
  thread that can run; of the client's reads for as long as it keeps the connection (a
  client that holds the socket and never reads does block the writer for ever, since the
  socket has no write timeout); of `next_frame` only for a clocked source. For gnome the
  source may wait for the desktop, which is what `connection_unplug` shows.
- `Resync`: weak fairness of reconnecting, source, client thread and GL thread (the app
  is in the foreground). Losses are finite: beyond `MaxLosses` an offer waits for room,
  which stands for a client that keeps up from then on. With a client that never keeps
  up the code promises nothing, since a full frame is dropped like any other.
  Strong fairness of drawing a full frame: the renderer is told of every frame, and draws at
  the display's rate; it would have to be eight frames late for every full one to miss them
  all. Without this assumption `PatternRecovers` fails: weak fairness lets it draw only when the
  full frame has just been dropped at the cap.
  What the renderer drops at its cap of pending frames counts as lost too: a resting
  gnome desktop does not repeat it either.
- `GnomeConnection`: the threads run; the compositor notices who leaves the bus and paints a
  new monitor once; a process that exits is gone at last (`FairCSpec`). `MovingCSpec` adds that
  the desktop moves or the grabber ends; without it nothing interrupts the read
  (`connection_unplug`).
- `Reconnection`: every thread that can run does, and so does the script; the host comes back
  (faults are bounded by `MaxFaults`); nobody has to plug the phone in, and `ComesBackIfSeen`
  says what follows if it stays plugged, the script lives and no replug was missed; a host that is
  up answers the first message. The
  client reads the replies without a timeout, so a host that accepts and then says nothing
  would hold it for ever, and after a `stop` that met the old socket as well. Frames are
  under no fairness: a resting desktop sends none, and `stop` must end the read.
- `Framing`: the reader runs and time passes. Nobody has to write or to close.
- `HostProcess`: none; all its properties are of safety.

## 4. Proofs

Assumptions: those of the modules (`PipelineAssumption`, `SessionsAssumption`, `GnomeAssumption`,
`ConnectionAssumption`, `ClientAssumption`, `ResyncAssumption`, `PatternAssumption`,
`DamageAssumption`, `PicturesAssumption`, `StatsAssumption`, `ProcessAssumption`, `WireAssumption`,
`FramingAssumption`), the types of the
constants and, for a gnome connection, that its source sets its own pace; nothing else. The
theorems hold for every
capacity of queue, pipe and buffer, every size of display, stream and tile, every command
line, every base of the octets and every limit of the protocol that `WireAssumption` allows, all
messages, and every number of frames, of messages, of
connections, of session ids, of threads, of faults and of restarts.

`GnomeConnection_proofs`, first about the pipeline alone, `FramePipeline` (no assumption about the
source is used):

- `TypeCorrect`. `TypeOK` is inductive; `TrySendTypes` carries the bound of the queue.
- `ReturnReleases`: with "a producer that is done has shut its source" and "a writer that is
  done has shut the socket unless it panicked" and, for the reader's place in the teardown,
  which joins have happened.
- `OneLateFrame`: late frames are counted against the producer's place: after the flag is
  set at most the frame in the making can be offered before the poll.
- `Drained`: the number of messages accepted is the number written, in hand and queued
  until the writer leaves for another reason than its senders.
- `ByeIsLast`: a goodbye on the stream means the writer has left its loop.
- `StreamInOrder`. Not inductive: that a new frame is newer than all of its kind needs the
  numbers of what was accepted bounded by the source's count, and those of unread pings by
  the client's, ordered in `input`. `OrderInv` adds this; `Numbered` is stated with the counts as
  parameters so that one lemma serves all steps.
- `NotesFollowWrites`: with "the frame on its way to be noted is the last on the stream".
- `ImplementsChannel`: every step maps to a step of `FrameChannel` or stutters, under the
  mapping in `FramePipeline`; it uses `OrderInv`, the bounds and `WriterLeft`. Behind
  the writer's back the queue still takes messages the channel already counts as lost.

`HostSessions_proofs`:

- `HostTypeCorrect`, `Served`: with "ids in the table, and of connections past their look
  into it, were granted by this process" (`Granted`).
- `NotedWritten`: a frame being noted was written by its connection, under its session.
- `Retained`, an action property, from the invariants.
- `LastRetained`: with "a session with one connection holds the last frame it has noted, the
  last written but for the one being noted" (`Owned`, `UpToDate`). That a finite set of numbers has
  a greatest member is proved from the well-foundedness of the naturals.

`GnomeSource_proofs`:

- `GnomeTypeCorrect`.
- `Held` and `SourceReleased` follow from one invariant, `Lease`, which says for each place of the
  producer what it holds: bus, session, grabber.
- `Heard`: `Listens` relates the subscription to the session's progress.
- `InCanvasOrder`: `Order` says that what waits in the pipe is sorted and newer than what was
  read, which is newer than what was handed out, or is it; and that a blank frame means an
  empty pipe for good. `ReadKeepsOrder` is the step of a read.

`Reconnection_proofs`, first about the client alone, `UsbraClient`:

- `ClientTypeCorrect`; `NothingLeft`, which is inductive.
- `OneLate`: `Leaving` adds where a client that was late once can still be: on its way out.
- `NeverBusy`: `Paced` adds that a round begins, and a clean end is reached, only after a
  delay or a session.
- `SessionAgreed`: `Fresh` adds that every offer on its way over a connection that stands is
  one of the process at its other end, and that a new socket has nothing of the last one.

`Pictures_proofs`, for displays, streams, elements, steps and tiles of every size:

- `PatternTypeCorrect`, `NoRectSkipped`, `NoElementLeaves`: `Clipped` and `Bounced` say what `clip`
  and one axis of `advance` return; a clamped element is inside also when a step is longer
  than its room.
- `PictureIsScene`: a pixel in the damage shows the topmost new element (`PaintedInside`, by
  `InBoth` on intersections); one outside is in no element before or after (`Untouched`), and
  was right before. `PatternIsSafe` puts these together, for the pattern in `Pictures` as well
  (`PicturesArePatterns`).
- `DirtyIs`, what `dirty_rects` returns: rectangles inside the stream without a pixel in common that
  cover the changed tiles and nothing else, none of which could be put on top of another.
  `RunsOfRow` is the inner loop: the runs of a row are its longest rows of changed tiles
  (`RowRuns`). `MergeIs` is `merge_vertical`: after any number of runs
  the pile built so far (`Pile`) covers those, in the order of their columns, and the next run either
  lies on the last rectangle or begins one that adjoins none (`JoinExtends`, `JoinAppends`).
  The fold and the sort are opened by an induction over the number of runs left, which needs no
  operator as a parameter: `AllNumbers` says of a set of numbers with 0 and with all successors
  that it is `Nat`, and the induction's hypothesis is the definition of that set.
- `TextureIsExact` (`PictureSafe`): what the phone shows is the last canvas grabbed, from the first
  full frame on. `PictureInv` adds what the invariant of the pattern says of its frames, and that
  canvas and texture have the pixels of the stream. `DamageMinimal`, an action property, follows
  from `DirtyIs`.

`HostProcess_proofs`, for every table of options and every command line, any number of threads,
of frames and of failed writes:

- `LogAfterPort` (`LogNeedsPort`) and `SuccessGivesBack` (`SuccessIsWhole`) from `MachineInv`: at which
  places the process holds its port, what the probe has taken from the desktop at each, that the
  arguments read have their types, and that who exits with 0 has given everything back.
- `LineIsRead` (`ReadAsMeant`): `CommandInv` says that while it reads, `parse` has what is meant by the
  part of the line behind it, and that this part has no option that ends the reading.
  `OptionsAppend` and `OptionKinds` say how an option, or a value, at the end of a
  line changes what it means (`MeaningFlag`, `MeaningValue`), and `EndingGrows` that an end, once
  read, remains one whatever follows.
- `LogIsSafe` and `CountsAreLogged` from `StatsInv`. One thread writes at a time and its line is the last
  (`FileHeld`, `LinesEnded`); a thread with an event to write would, if a line above it is later,
  be so for the first time, and the later line is not its own (`LateOnce`); lines of frames and counters differ
  by those who are between the two (`Balanced`). Without the threads in between neither is inductive.

`Framing_proofs`, for streams of any number of messages of any content:

- Numbers: `Powers` gives the recursive `Pow` its equations, and `RoundTrip` says that `Unsigned`
  of `Octets` is the number modulo the power of its width. A function defined by recursion exists
  by `Recursion`, an induction over the numbers up to n like `AllNumbers`.
- Sequences: `Flattened` says where the parts of a flattened sequence lie; `FieldsAre` that each
  number of `Fields` is held at the sum of the widths before it.
- Messages: `EncodingIs` is what `to_bytes` and `encodePayload` make of a message, field by field;
  `DecodedIs` that both decoders, at each place where they look, find what was put there, so that
  they return the message or refuse it for its count of rectangles, and never read beyond the
  payload. `HeadRead` says that a header is accepted and announces the length of what follows it;
  the one exception is a canvas above the limit. `MessageRead` puts these together for a link.
- The stream: `StreamInv`. Until reading ends, all that was written (`Laid`) is what was delivered,
  then `buf`, then `wire`, and behind a cut the beginning of the rest (`Place`). A read moves
  octets from one to the other (`Moved`) and never beyond the message it reads (`Ahead`).
  From it `ReadingIsSafe`, `WhatIsReadWasWritten` and `AgreedUnderstood`. At the pipe an error does
  not end the reading: behind a canvas above the limit nothing is known of the octets, so `Lost`
  takes the place of `Place` there, and `Readable` names that canvas in `ReadAsWritten`.

`Resync_proofs`, for every width of display and stream, every period and capacity, and any
number of losses, breaks and changes:

- `ShownIsSafe`: `ShownSafe` is inductive with two parts of it that say where a source can be: the
  pattern's last frame shows the pattern (`PatternInStep`), and behind a black frame no canvas is
  left (`BlackIsLast`). That a grabber dies changes nothing that is made (`DeathKeeps`); its black
  frames are full ones. `TheLaterDecides` is the lemma all steps rest on: of two sequences
  of frames drawn one after the other, the later decides the tiles it covers, whatever the
  texture showed, and the earlier the rest. With it a frame added to the queue
  (`OfferExact`), a frame of the display's size that clears those before it, the oldest frame
  dropped at the cap (`ReceiveKeeps`), and drawing (`DrawKeeps`) are each a choice of where to
  cut the sequence.

`GnomeConnection_proofs` and `Reconnection_proofs` put components together. That a step of the whole is
a step of a part or leaves it alone is the shape of the composition (`PipelinePart`, `ClientPart`,
lemmas by which proofs about a part carry over); that the other threads of the connection do to the
source only what its model expects takes an argument (`ImplementsSource`). What was proved of
the source comes through an instance of its proof module:

- `SourceIsSafe`, `CanvasOrderKept`; `NothingLeftOnReturn` needs both halves: the pipeline's, that
  its thread has ended when `handle_conn` returns, and the source's, what that thread leaves.
- `CanvasesReachInOrder`: `ShowsInv` adds that the frames so far show canvases in order and then black,
  none newer than the last handed out. Its step is the action property `CanvasOrderKept`; with
  the pipeline's `OrderInv`, frames on the stream being in order, it gives `CanvasesOnStream`.
- `TunnelNeedsPhone`, `OnlyAMissLoses`, `KeeperIsSafe`: about the tunnel, whoever takes it away.
- `ClientIsSafe`: all that is proved of the client against any cable.

Only model-checked: liveness (`ConnectionEnds`, `PatternRecovers`, `SettlesButForLoss`,
`UnplugEndsAll`, `FailureEndsAll`, `StopEnds`, `ComesBackIfSeen`, `ReaderEnds`, `HandshakeEnds`; ENABLED
and fairness are beyond the prover) and the violated claims.
No module uses RECURSIVE operators.

## 5. Not modelled

- The visibility of the stop flag on weakly ordered memory, data the kernel throws away on a
  reset. The half-written message behind a failed write is `Framing`'s (`Cut`), not the pipeline's.
- `last_frame_id` of RECONNECT: the host reads and logs it, and does nothing with it.
- The diagnostic scripts and `summarize_stats.py`: run by hand, sequential, they read what others
  wrote. Of the start scripts only the keeper has a state another part sees.
- The wording of log lines, of the summary and of the probe's output; what `--source` the served
  connections open is a parameter of the pipeline's models.
- The drawing of the texture (shaders, scaling), the activity's views and its statistics overlay.
- Compression: no encoder exists, and both decoders are modelled with their check of the codec.
- In `Wire`: `deviceName().take(255)` counts characters where the limit counts octets, which
  differ for names beyond ASCII; texts are octets here.

## 6. What is left

1. A picture with losses in two dimensions: `Resync` on the geometry of `Pictures`.
2. Two connections of gnome sources at once: an old producer that still waits, and the one of the
   client that came back.
