# Collagent: a verification project in TLA+

Collagent puts several people and several coding agents into one *room*. A
session server keeps the room; people and agent hosts talk to it over
WebSockets. This directory models the server's rooms, what becomes of them on
disk, the event stream that clients follow and what they show of it, the host
that drives an agent and the adapters it drives it with; checks the models with
TLC on small instances; and proves the room's main properties with TLAPS for every
value of the constants.

Paths below are relative to the repository, whose code is under `src/`.

## The system

| Part | State | Operations | Talks to |
|---|---|---|---|
| Room, `core/session.js`, `core/agent-session.js`, `core/permissions.js` | lifecycle, paused, mode, driver seat, participants, agent sessions, queue of undelivered instructions, event log | add and remove a participant, add an agent session, attach, detach, apply a status, append, `eventsSince`, meta and restore, `can` | called by the server's handlers |
| Session server, `server/server.js` | per room: participants' sockets, one socket per agent, watchers; per socket: `_ctx` | `create_session`, `join`, `rejoin`, `leave`, `add_agent`, `agent_attach`, `agent_event`, `instruction`, `control` (pause, resume, handoff, use_agent, detach_agent, set_mode, archive, end), `watch*`, delete over HTTP, heartbeat, close | clients, agent hosts, dashboards, session manager |
| Session manager, `core/session-manager.js` | code → room | create, get, end, restore, delete history | stores |
| Event log, `core/event-log.js` | events in memory, seq | append, since, trim | JSONL file, store |
| Stores, `store/` | rooms, events, turns, users, workspaces | append, read (at most 1000), save meta, load | SQLite (calls), PostgreSQL (ordered write queue, pool), JSONL |
| Room client, `client/client.js` `CollagentClient` | `lastSeq`, self, session | create, join, rejoin with backoff, instruct, control | server |
| Feed and dashboard, `cli/index.js`, `ui/tui.js`, `server/web/` | read position on disk, what is on the screen, the dashboard's timeline | join, quit, save the position, watch a room | client, server |
| Server process, `cli/index.js` | port, `server.json` | serve, take over a port, shut down | session server |
| Agent host, `client/client.js` `AgentHost` | open turn, socket | route frames to the adapter, report the adapter's events | server, adapter |
| Adapters, `adapters/` | process or PTY, pause queue, per-runtime protocol state | createSession, sendInstruction, pause, resume, disconnect | agent processes |
| Summary and catch-up, `core/room-summary.js`, `core/catchup.js` | none | folds over events | server, dashboards |
| Auth, workspaces, HTTP API, analytics | users, tokens, rates | register, whoami, lists | store |
| Rest of the CLI, TUI, dashboards | local files, screen | user interface | client, HTTP |

What is hard in it:

* **Sockets and people are not the same thing.** A person or an agent may have
  an old connection that the server has not yet seen die and a new one. Closes
  are handled late, in any order with rejoins, attaches and detaches.
* **Handlers interleave at their awaits.** Node runs a handler to its first
  await; `onJoin` awaits the store before it changes the room, `onRejoin`
  awaits it before it sends the missed events.
* **Delivery.** An instruction is sent, queued, flushed or refused depending on
  whether the agent's socket is open at that moment.
* **Two sources for one stream.** The log in memory is trimmed, the store
  serves the rest, live events keep coming meanwhile.
* **Restarts** build a room from a file or a table and its meta, which are
  written one after the other by a process that may be killed in between, or
  still be running while its successor reads them.
* **Read positions.** A terminal remembers how far its reader got by a cursor
  that also moves without anything being shown.
* **Adapters** queue instructions for agents that are not ready, paused or busy,
  and piece together what the agent said from streams, hooks that come late,
  transcripts and files that are being written.
* **Turns** are opened by instructions and closed by results that come from a
  process which may die, be respawned, or work on two instructions in a row.

## Modules

| Module | What it models |
|---|---|
| `Session` | the room object: one operator per method of `Session` and `AgentSession`, `Can` for `permissions.can` |
| `Room` | the server's handlers on one room, over named sockets; extends `Session` |
| `DriverSeat` | abstract specification of the driver seat; `Room` implements it |
| `MCRoom` | symmetry of sockets for `Room` |
| `Replay` | event log, memory cap, store reads and writes, `eventsSince`, the client's cursor |
| `Readers` | a terminal's feed with its read position, and a dashboard's timeline; extends `Replay` |
| `History` | what the handlers write to file, database and meta, and what a restore makes of it |
| `MCHistory` | symmetry of servers for `History` |
| `AgentHost` | one agent host with the headless Claude adapter and its processes |
| `PromptAdapter` | the adapters that hand over one prompt per instruction: ACP, Codex app-server, headless Cursor |
| `NativeAdapter` | the adapters that type instructions into an agent's own interface |
| `CursorTail` | the tail of the Cursor CLI's chat store |
| `Transparency` | what the room sees of a turn, through every runtime's translation |
| `RoomProofs` | `Room`: its type, the driver seat with the refinement, presence follows sockets |
| `QueueProofs` | the agents' connections and the instruction queue |
| `ReadersProofs` | the event stream, from the log to the screens, with the log and the store behind it |
| `HostProofs` | instructions and turns of an agent host |
| `PromptProofs` | prompts, outcomes and the queue of the adapters that prompt |
| `NativeProofs` | instructions typed once, and their echoes |
| `CursorProofs` | the rows that the tail of a Cursor chat shows |
| `TransparencyProofs` | what the room sees of a turn, one lemma per translator |

### Room and Session

One room, from before `create_session` to after `end` (`lifecycle`). A socket
has the server's `readyState`, whether its peer can still be reached, the role
and id of its `ws._ctx`, and whether a join of it is waiting for the store; its
name is reused once its close has been handled. `participantConns` is the set
of sockets with that role; `agentConn` is `agentConns.get(code)`. Ids are
numbers in the order in which they are minted, which is the iteration order of
the Maps the code uses. Names, tokens and message texts are left out: whoever
sends a rejoin or an attach holds the right token, and a wrong one changes
nothing.

One action per handler, with everything the handler does to the room in it:

* `CreateSession`, `Rejoin`, `Leave`, `AddAgent`, `AgentEvent`, `Pause`,
  `Resume`, `HandoffToHuman`, `HandoffToAgent`, `UseAgent`, `DetachAgent`,
  `SetMode`, `Archive`, `End`, `DeleteRoom` are the handlers of those names.
* `Join` is `onJoin` over a store whose calls complete at once (SQLite, JSONL);
  with `AsyncStore`, `JoinRequested` is what precedes its awaits and
  `JoinAdmitted` or `JoinRefused` what follows. `HandleClose` may come between.
* `AgentAttach` is `onAgentAttach` with `flushPending`.
* `Instruct` and `InstructAgent` are `onInstruction` without and with an
  address; `DefaultTarget` resolves the address and `Route` sends, queues or
  refuses.
* `HandleClose` is `handleClose`. It is enabled for every socket at any time
  (the peer closed it); `Reap` is the part the server brings about.
* `Restart` is a shutdown and `SessionManager.restore`.

A socket joins, rejoins, creates or attaches at most once, as all shipped
clients do; the server does not enforce it.

### Replay

Events are their seqs. `floor .. seq` is the log in memory; `store` says what
is behind it. `Reconnect` is `onRejoin` (or `onJoin`, with nothing seen before):
the event of the return is appended and broadcast, then `eventsSince` starts.
Over SQLite it ends in the same action; over PostgreSQL `StoreRead` and
`ReadAnswered` follow, and appends, the write queue (`StoreWrite`) and broken
connections interleave. `Receive` is `CollagentClient._onMessage`: the cursor is
the largest seq seen. `view` is what the client was ever given, `split` which
clients lost a connection between the event of their return and the welcome. A
query that fails is not modelled: the rejoin then gets an error instead of a
welcome.

### Readers

`Connect` is `rejoinOrJoin` of a new terminal and the reconnect of a running one;
both are `Reconnect` of `Replay`, with the cursor they have. `Hear` is
`CollagentClient._onMessage` with its listeners. Until its welcome a terminal
only moves its cursor. The welcome resolves the promise that `cmdJoin` awaits
(`AwaitWelcome`), and `cmdJoin` goes on in a step of its own: `EnterRoomFeed` shows
what is above the saved position and registers the listeners. Events that come
between the two (in the same segment as the welcome) move the cursor and are
shown by nobody; `unheard` remembers them. From then on `FollowRoom` shows each
event that comes. `SavePosition` is the timer of 2 s, `Quit` saves at once,
`KillFeed` never. What is shown as a digest, or skipped as metadata, counts as
shown. `WatchRoom` is `onWatchRoom` for a dashboard, which appends nothing, and
`ShowInTimeline` is `pushRoomEvent`.

Left out: the 600 events that a dashboard keeps at most; a room that is closed
and opened again before its first snapshot came (the timeline then has it
twice); a rejoin that is answered with an error, which leaves the
client connected without a role; and one that takes more than 10 s, after which
the terminal joins as somebody new.

### History

One room on disk, its servers, and any number of restarts. `Writes` lists
everything a handler writes, in order: a line and a row per event, then the
meta, for a deletion what is erased. Over JSONL and SQLite the writes of a
handler happen at once, and `KillInHandler` stops after any number of them; over
PostgreSQL they go to the end of `chain`, and `Kill` loses what is left of it.
`Boot` is `cmdServe` up to its first listen, with `RestoreFromFiles` or
`RestoreFromStore`; if the port is taken the server is `ready`, and `Listen`
serves what it had restored once the owner's `Shutdown`, `StopListening` and
`Exit` have freed it. `Fold` and `BuildRoomSummary` are
`buildRoomSummary`, which `MaybeTrim` and `FoldPage` apply to what they drop from
memory; `Facts` is what the properties compare it with.

Requests stand for classes of handlers: `instruct` also for a host's own prompt,
`away` for everything a closing socket appends. An archived room restores like an
active one and is in `Room` only. Disk writes succeed, a restore is one step
(that somebody writes meanwhile is `Overlaps` and the two processes around it),
sockets that `shutdown` has to terminate are closed before the port is free.
Users, workspaces, turns and the store that stores nothing are left out.

### AgentHost

The connection from the server to one host, the host's turn, the adapter's
pause queue and the processes it spawned. `Start` is the rest of
`AgentHost.start` after `agent_attached`; with `EarlyFrames`, frames that came
in the same segment are handled before it, as the `ws` library emits them.
The agent process is external: it takes instructions one by one, reports some
work, then a result, and may exit or be killed by a signal at any moment.
`feed` is what the server gets to see.

### PromptAdapter

`kind` is one of three adapters whose host-facing operations are alike and whose
ways of running a turn differ: `AcpPrompt`, `CodexStartTurn`, `CursorRunTurn`.
`pending` are the requests that await an answer (for Cursor: the processes that
run), `running` what the agent really works on; the two part ways when a request
times out, since the agent is not told, and for Codex, which answers
`turn/start` at once and reports the end of the turn later. `next` is what the
`await`ing loop of Codex's `resume()` starts next. The session comes into being
in `CreateSession` and `SessionAnswered`, and instructions may come before.

### NativeAdapter

Five of the native adapters share their code but for names, which `kind = "pty"`
is; `"opencode"` types by HTTP requests. `composer` is the interface's own input
line, into which the host types as well; `Submit` makes a prompt of it. `enters`
counts the timers that will press Enter 150 ms after a paste. `reports` is what
hooks, the event stream or the chat store will tell, in order, as late as it
likes: an interface that works on one prompt submits the next when it is done.
`recent` is the memory of `_recentInjections` with both its limits: `Recorded`
drops the oldest of too many, and `Aged`, when a prompt is heard, any number of
the oldest for being 30 s old. `injected` and `old` are history: all that was
recorded, and how many of them were too old when a prompt was last heard.

### CursorTail

`rows[c]` is how many records chat `c` has; chats are numbered by birth. `Poll`
is `_poll` with `Attach` or `SwitchIfNewerChat` before it; `PollFails` is its
`catch`, and `_open` of a chat that has no file yet. A new chat of less than
10 s before the start counts as new (`store.js:163`), so the older ones here are
older than that.

### Transparency

The agent's acts (say, call, return, end, fail) go through the translator of its
runtime, one operator each, into `feed`. Where the order of a stream is kept by
the channel, act and translation are one step. For `claude-native` they are not:
lines of the transcript are written in two steps at any time
(`WriteTranscript`), and the result of a turn waits for its timer
(`HeldResult`), with a second flush after it (`Sweep`). That the lines of a turn
are there by the second flush, 2.6 s after the turn, is assumed; that they are
there by the first is not. Each conversation has a transcript of its own
(`starts`). `ClearConversation` is /clear, which ends one with a hook that starts
the same two timers, and `SessionStart` the hook of the next, which comes before
its first prompt. A flush of another path than the last takes the file for a new
one and skips what is in it (`FlushTranscript`), whichever transcript it belongs
to. `calm` is history: the turns of this conversation that began when no timer of
an earlier one ran. Assumed of Claude Code: /clear is entered between turns, and
the lines of one transcript are written before those of the next. Going back to
an earlier conversation of the same process is not modelled. `LoadSession` is the
answer to `session/load`: an ACP agent repeats the conversation as updates. Of
what it repeats the prose is modelled, which the adapter joins to the first
message of the first turn; its tool calls are not.

## Runs

| Run | Shows | Instance | States |
|---|---|---|---|
| `room_seats` | the seat is handed on in every order of events (`DriverIsMember`, `SomeoneDrives`, `ImplementsDriverSeat`); who is shown as connected has a socket, and loses the mark when the peer is gone | 3 people, 2 sockets, synchronous store, no restart | 154 thousand |
| `room_agents` | the agents' connections are never stale; an instruction is queued only for an agent that cannot be reached, is sent once, in order, and is not lost from the queue; types hold | 1 person, 2 agents, 3 sockets, 2 instructions, queue of 1, asynchronous store, 1 restart | 1.3 million |
| `readers` | a client holds exactly the events up to its cursor; after a welcome events arrive one by one, each the next; welcomes come; a timeline is the history; a read position hides nothing but what came before the feed listened or around a broken connection | 1 terminal or dashboard, 5 events, 2 kept in memory, 2 broken connections, 2 terminal processes; SQLite, and PostgreSQL with failing writes | 610 thousand |
| `history` | a restart brings back what clients were told, with its mode and seats; an ended room stays ended; the summary is the one of the whole history; what is trimmed can be read again | 3 backends, 2 servers, 5 events, 2 kept in memory, pages of 2, 3 starts, 2 kills; over JSONL also one server beside another | 700 thousand |
| `host_turns` | instructions pass through pause queue and respawns once and in order; turns are bracketed and end | 2 instructions, 3 frames under way | 180 thousand |
| `prompt_turns` | no instruction is lost or handed over twice, and the queue moves (all three adapters); turns do not overlap and the queue waits for a resume (ACP and Cursor only: Codex goes on with a queue that it began during a later pause); one outcome per prompt but for a Codex turn that timed out and a Cursor process that exits before its result line is read | 3 adapters, 3 instructions | 23 thousand |
| `native_typing` | every instruction is held until it can be typed, typed once and gets into a prompt, unless a pause, a startup screen, a failing request or the end of the interface keeps it; its echo is repeated only if the adapter has forgotten it for one of its two limits | 2 kinds, 3 instructions, 2 remembered, 1 line of the host | 1.2 million |
| `cursor_tail` | rows once, in order, none from the past; the host is followed | 4 chats, 2 of them old, 3 rows each, 1 failing poll | 38 thousand |
| `transparency` | prose once, in order and before the result, also after a history that an ACP agent repeats, and when /clear takes Claude Code to another transcript, but for its turns that a timer of the first disturbs; tool calls announced once | 8 runtimes, 2 turns, 3 pieces of prose after 1 of history, 1 tool call, 1 /clear | 430 thousand |

Why these bounds are enough for what they are after. Three people over two
sockets give a seat with two candidates besides its holder, and a person with
an old and a new socket. Three sockets let an agent be attached twice while
the person who instructs and detaches keeps a third; a queue of one and two
instructions reach the full queue, a flush and an instruction that could
overtake; that longer queues are no different is proved. A log of two
events in memory and five in all puts a client's cursor below, at and above the
floor; two breaks make a rejoin of a rejoin, and two processes a read position
that somebody reads. Five events over pages of two make a restore of three
pages with trims between them; three starts and two kills make a restore of what
a killed restore left. Two instructions make a merged
turn, a queue drained after a pause and a respawn, and three frames hold them
with a pause or resume in between. Three instructions for an adapter are one
under way, one queued behind it and one that comes when it ends, times out or is
paused. Two old chats and two new ones let the host move on from a resumed one
and from a new one. Two turns let the timers of one overlap the other, and
one /clear those of one conversation the turns of the next. Three instructions
and a memory of two reach the limit of that memory. Named
bounds: `MaxParticipants`,
`MaxAgents`, `MaxInstructions`, `MaxRestarts`, `MaxSeq`, `MaxDrops`, `MaxFeeds`,
`MaxEvents`, `MaxBoots`, `MaxKills`, `Overlaps`, `MaxFrames`, `MaxHostKeys`, `MaxChats`, `MaxRows`, `MaxFailures`, `MaxTurns`,
`MaxSaid`, `MaxTools`, `MaxClears`; `PendingLimit`, `EventCache`, `PageSize`, `ReadLimit`, `BacklogLimit`
and `RecentLimit` are the code's own limits, scaled down. `Requests` and `AgentEvents` choose the
messages of an instance; between them the instances send all of them.

`room_seats` has no restart because a restart loses the seat (see below), and
a synchronous store because of what is listed below;
`room_agents` has both. `DriverIsMember` across restarts is proved (`DriverInRoom`).
`history` lets a server start beside another only over JSONL: a second server on
the same files reads what the first appended up to then, and its summary, trims
and own writes are checked in that company too, while `RestartKeepsHistory` and
its like are stated for runs in which no two ever met (`crossed`). What goes
wrong when they meet is `history_takeover`. Deadlock is not checked in `Readers`,
`History`, `AgentHost` and the adapters' modules, whose bounded runs end.
`TypeOK` of `Replay`, `AgentHost`, `PromptAdapter` and `CursorTail` is proved, and in
no run.

### Fairness

* `Room`: `WF(Reap(s))`. `ws` is pinged every 30 s and terminated when it did
  not answer (`server.js:123-133`), and the `ws` library ends every closing
  handshake, with a timeout if need be. No client is assumed to do anything.
* `Readers`, and `Replay` below it: the write queue runs, queries are answered,
  frames arrive unless the connection breaks or the process ends. New
  connections, new events and the timer of the read position are not assumed.
* `History` has safety properties only and no fairness.
* `AgentHost`: microtasks and frames are handled; an agent with an instruction
  finishes it or dies. The last is an assumption about the agent.
* `PromptAdapter`: the timer of every request fires (`client.js:210`), so a
  request is settled; a Cursor process ends. `NativeAdapter`: its timers fire,
  OpenCode's requests are answered or fail. `CursorTail`: the interval fires.
  `Transparency`: timers fire, and Claude Code writes what it said. In none of
  them is the host or the agent assumed to do anything else.

### Where the code and its documentation differ

Each of these runs checks one statement and TLC finds a counterexample.

| Run | Statement | What happens |
|---|---|---|
| `host_merged_turn` | every agent event carries an explicit `turnId` (`README.md:184`) | a second instruction shares the first one's turn and outlives it |
| `history_takeover` | "rooms restore from disk on boot, so a restart loses nothing" (`cli/index.js:1073`) | `serve` over a running server restores first and stops the other one then; what that one appended in between is missing |
| `feed_reconnect` | a reconnect "replays only what you missed" (`history-catchup.md:26`) | the missed events come in a welcome of which the terminal prints "reconnected" only; the read position moves past them |

### Met while modelling, without a run of their own

* An event in the same segment as a terminal's welcome is emitted before the
  listeners are there (`cli/index.js:710-718`, `client.js:69`): it moves the cursor,
  is never shown, and is saved as read, on a connection that never broke. Without
  `unheard` TLC refutes `ReadPositionIsTrue` within nine states: join, welcome, one
  event, `EnterRoomFeed`, `/quit`.
* With an asynchronous store a join that was waiting when the room ended enters the
  ended room (`server.js:564` asks before the awaits only), against
  `first-room.md:46`, "`/end` closes the room for everyone". With `AsyncStore = TRUE`
  TLC refutes `[][lifecycle = "ended" => Members' \subseteq Members]_vars`.
* The close of a person's old socket marks them as away while a newer one lives
  (`server.js:1074`), against `participants.md:30`: a create or join, a rejoin on a
  second socket and the close of the first lead there.
* While paused, "instructions already queued stay queued" (`pause-resume.md:14`),
  but an agent that attaches during the pause is sent the queue (`server.js:701`).
  TLC refutes `[][paused /\ paused' => pending \subseteq pending']_vars`.
* "Record before writing so the UserPromptSubmit echo is always recognized"
  (`claude/native.js:247`): the adapter forgets an injection after 30 s, or when twenty
  others followed it. An interface that is busy submits a prompt later than that, and
  the instruction of a guest is shown as the host's. `EchoNotRepeated` names
  the two limits; that no echo is ever shown is refuted.
* /clear within the 600 ms before a result goes out (`claude/native.js:174`, `197`):
  `SessionStart` takes the tail to the new transcript, the held flush of the old one
  takes it back to the end of that file, and the reply, which is on disk, is never
  mirrored, against `README.md:249`. The timers of `SessionEnd` may do the same to a
  reply in the new transcript. Without `calm` TLC refutes `ReplyBeforeResult`.
* The event of a return is broadcast to the returning client before its welcome
  and moves its cursor (`server.js:610`, `client.js:69`). If the connection breaks
  between the two, the next rejoin asks for what comes after, and the missed
  events never reach the client, against `README.md:231`. `split` of `Replay`
  names the clients this happened to, and `NoGapBelowCursor` leaves them out.
* What the server had queued for an agent is sent right after `agent_attached`,
  before an ACP or Codex adapter has a session; it is dropped without a word
  (`acp/client.js:113`, `app-server.js:119`), against `README.md:140`.
  `EachAccountedFor` counts it as dropped.
* The event of a PostgreSQL room is told to clients before it is written. A
  crash with writes queued takes the restored room back below its clients'
  cursors; the seqs are given out again, and a client that reconnects with the
  higher cursor is not sent the new events under them.
* A PostgreSQL room whose events were written but whose meta was not is not
  restored. A kill between the last event of a room and its meta, and another one
  in the middle of its deletion, bring it back without its events.
* A take-over also revives a room that was ended after the new server's restore.
* One line of a history file that is cut short, as a full disk or a power loss
  leaves it, makes a restore skip the whole room (`session-manager.js:80-86`).
* `JsonlMetaStore._write` writes the meta of all rooms anew in place
  (`jsonl.js:34`). A kill in the middle loses participants, tokens and join keys
  of every room; the rooms themselves come back from their files.
* `importEvents` compares counts, not rows (`sqlite.js:118`).
* `handoffContext` summarises the events in memory without the seed
  (`server.js:947`): once the log was trimmed, the objective handed to an agent
  is the first instruction still in memory.
* The rooms a `watch` may list are computed once per connection
  (`server.js:432`); rooms created or joined later are not in it.
* Over PostgreSQL an event that is broadcast while a dashboard's snapshot is
  being read is shown twice.
* The hooks that the Gemini and Goose adapters install are removed by
  `disconnect`, which a host whose agent exits by itself does not call; two hosts
  in one directory back up each other's hooks.
* With an asynchronous store a socket may close during the awaits of its join;
  the person is then admitted as connected, for good (`server.js:585`). With
  `AsyncStore = TRUE` TLC shows it for `ConnectedMeansSocket`.
* The store returns at most 1000 events per read and `eventsSince` asks once: a
  client that missed more gets a hole. `ReadLimit = 2` shows it for
  `NoGapBelowCursor`.
* The close of an agent's old socket detaches the agent session even when a
  newer socket serves it (`server.js:1083`); `AgentsAfterClose` does so.
* A restart keeps neither the driver seat, nor the queue, the pause or the
  focus (`session.js:227-263`). Nobody drives until a new host takes the seat.
* With exactly one agent attached `/use` has no effect (`server.js:781`).
* A rejoin does not revive an archived room, a join does.
* An agent that attaches during a pause is not told to pause.
* `ClaudeCodeAdapter._write` means to "restart with --resume so conversation
  context survives a dead process", but `exitCode` is null for a process that a
  signal killed: the instruction is lost and its turn stays open. `TurnEnds`
  names this exception.
* An instruction flushed in the same segment as `agent_attached` spawns a
  process before `createSession` spawns the real one; both keep running.
* While `eventsSince` awaits PostgreSQL the log may be trimmed further; what
  lies between the two floors is then in neither part of the answer. It takes
  5000 new events within one query.
* `resume()` of the Codex adapter starts turns while others run, also after a
  disconnect, and goes on when the room is paused again meanwhile
  (`codex/app-server.js:140-144`), against `pause-resume.md:14`. `OneTurnAtATime` and
  `NothingGivenWhilePaused` are stated for the other two adapters. A Cursor process that ends during a disconnect starts the next
  queued instruction in a new process (`cursor/headless.js:115`).
* A Cursor process may end before its last line is read: its `exit` then reports an
  error and a result, starts the next instruction, and the line another result
  (`cursor/headless.js:100-110`), which ends the turn of that next one.
* A Codex turn whose request timed out is reported as an error, and again, with a
  result, when it completes. `OutcomesPerPrompt` names both cases.
* The hook of a conversation that /clear ended reports the agent as exited
  (`claude/native.js:336`), although it goes on in the next one.
* An ACP agent that repeats a conversation after `session/load` has its old replies
  joined to the first message of the first turn, and shown again.
* Prose of an ACP turn that failed or timed out stays in the buffer and is shown
  in the next turn.
* Instructions that were held are pasted one after the other before the first
  Enter: they become one prompt, whose echo is then taken for the host's.
* The result of a Claude turn goes out 600 ms after its end. A prompt submitted
  in that time is in the turn that this result closes.
* A Cursor chat that is resumed although there is a newer one is left for that
  one at the next poll, whose history is then replayed: `dirBirth` is 0
  (`store.js:160`). `ResumeOlder = TRUE` shows it for `NothingFromThePast`.
* A poll that fails closes the file. When it is opened again its rows are read
  from the first (new chat) or from the end (resumed chat).
* A turn of the Cursor CLI that ends without prose has no result.

## Proofs

All theorems hold for every value of the constants that satisfies the named
assumptions (`SessionBounds`, `RoomConstants`, `ReplayConstants`, `HostConstants`,
`PromptConstants`, `NativeConstants`, `TailConstants`, `TransparencyConstants`): for
any number of people, agents, instructions, sockets, restarts, events, clients,
breaks, processes, rows, turns, pieces of prose and tool calls, and for
any limit of a log, a read or a queue. Where a theorem needs more than that, the table
says what.

| Theorem | States | Rests on |
|---|---|---|
| `TypeCorrect` | `TypeOK` of `Room` | `Constants`, and one step per action |
| `DriverInRoom` | `DriverIsMember` | `SeatInv` |
| `RoomIsDriven` | `SomeoneDrives`, with `MaxRestarts = 0` | `SeatInv`, `Unborn` |
| `RoomImplementsSeat` | `ImplementsDriverSeat`, with `MaxRestarts = 0` | `SeatSteps`, `RoomIsDriven` |
| `PresenceHasSocket` | `ConnectedMeansSocket`, with a synchronous store | `NoJoining`, `SocketsKept` |
| `AgentConnsCurrent` | `ConnectionsAreCurrent` | `ConnInv` |
| `AttachedAgentsReachable` | `AttachedMeansOpen` | `ConnInv` |
| `QueuedAgentsUnreachable` | `QueuedMeansUnreachable` | `QueueInv` |
| `InstructionsInOrder` of `QueueProofs` | `NoOvertaking` | `QueueInv` |
| `QueueSendsOnce` | `QueueOnlyDrainsBySending` | `QueueInv`, `QueueSteps` |
| `TheNextEvent` | `LiveEventsAreNext`, over either store | `StreamInv`, `ClientStep` |
| `NothingSkipped` | `NoGapBelowCursor`, with `WithinOneRead` and an SQLite whose writes do not fail | `WholeInv` |
| `TheWholeTimeline` | `TimelineIsHistory`, with the same | `ScreenInv` |
| `NothingHidden` | `ReadPositionIsTrue`, with the same | `ScreenInv` |
| `StreamTypeCorrect` | `TypeOK` of `Replay` | `StreamInv`, `Bounds` |
| `EveryInstructionInOrder` | `InstructionsInOrder` of `AgentHost` | `HostInv` |
| `TurnsStartOnceAndEndOnce` | `TurnsAreBracketed` | `HostInv`, `FeedInv` |
| `HostTypeCorrect` | `TypeOK` of `AgentHost` | `HostInv`, `FeedInv` |
| `InstructionsAccountedFor` | `EachAccountedFor` | `PromptInv` |
| `TurnsOneAtATime` | `OneTurnAtATime` | `PromptInv` |
| `PromptOutcomes` | `OutcomesPerPrompt` | `PromptInv`, `OutcomeInv`, `ErrorInv` |
| `PauseHolds` | `NothingGivenWhilePaused` | one step per action |
| `PromptTypeCorrect` | `TypeOK` of `PromptAdapter` | `PromptInv`, `OutcomeInv` |
| `TypedOnce` | `EachTypedOnce` | `TypingInv` |
| `InjectionsNotEchoed` | `EchoNotRepeated`, for any memory and any number of instructions | `TypingInv`, `EchoInv` |
| `ProseTold` | `ProseInOrder` | `RoomInv` |
| `ToolsTold` | `ToolsInPlace` | `RoomInv` |
| `ReplyComesFirst` | `ReplyBeforeResult` | `RoomInv`, `ReplyTold` |
| `EveryRowInOrder` | `RowsInOrder` | `ChatInv`, `OrderInv` |
| `PastStaysOut` | `NothingFromThePast`, unless `ResumeOlder` | `ChatInv`, `PastInv` |
| `TailTypeCorrect` | `TypeOK` of `CursorTail` | `ChatInv` |

The arguments:

* *Seat.* `DriverIsMember` alone is not inductive: a new participant must not
  get the number of an old one. `IdsMinted` (members have ids up to `minted`)
  closes it; together they are `SeatInv`. `SeatSteps` lists the five things
  any step can do to the seat (leave it, enter, exit, hand on, restore), and
  the other seat results argue from that list, never from the 25 actions.
* *Unborn.* Before `create_session` nothing is there: no member, no agent, no
  socket with a role. The invariants about a live room start from it.
* *Presence.* With a synchronous store no join is ever in flight
  (`NoJoining`), so a participant is always registered on a socket that is
  open or closing; a close that takes the last one away also clears the mark.
* *Queue.* `QueuedMeansUnreachable` needs that `agentConn` is current:
  otherwise the close of one socket could make another agent reachable.
  `ConnInv` adds that a socket with a join in flight is nobody's and that a
  room that is over has no connections. `NoOvertaking` then follows: to be sent
  directly an instruction needs an open connection, which an earlier one for
  the same agent in the queue rules out. `QueueOfUnsent` (what is queued was
  not sent) gives the at-most-once part. `QueueSteps` plays the part of
  `SeatSteps`.
* *Stream.* A client's cursor says nothing by itself: whether the next frame fits
  depends on all frames under way and on the question that was asked of the store.
  `Stream` says of the frames on a connection that they are consecutive events up to
  the room's last, among them one welcome at most, which brings its client up to the
  event before it; `Conn` adds where the cursor is: right below the frames once a
  welcome or an event has come, anywhere below them before. The step lemmas say what
  any step of the model is to one client (untouched, told an event, connected, asked,
  answered, received, closed), one lemma per action, and `ClientStep` collects them.
  That `StreamInv` is kept is shown from those seven, never from the actions.
* *Nothing skipped.* `WholeInv` adds what the client was given: all events up to its
  cursor, and in its welcome what is missing below the frames. That needs the store to
  have all events (`StoredAll`: SQLite writes them at once) and one read of it to be
  enough. `WithinOneRead` is that hypothesis: whoever is about to connect, with a
  cursor of 0 if it is new, has missed no more of what is out of memory than one read
  returns. It holds in every room of which fewer than 1000 events have left memory, and
  asks nothing of those that are connected. Without it the code does leave
  a hole, as listed above under "Met while modelling"; the theorem says when it keeps
  its promise. In the run `readers` the limits are as long as the log, which implies it.
* *Screens.* `ScreenInv` relates what a terminal has shown and saved, and what a
  dashboard's timeline holds, to the frames under way. A terminal whose
  connection held has its events in one of three places: in the welcome that
  `cmdJoin` awaits (`Awaited`), on the screen (`Printed`), or `unheard`. That the
  welcome of a joining feed has everything below the frames after it is what
  `Whole` gives.
* *Host.* `HostInv` follows an instruction from the wire through the adapter's queue
  to a process: what was written, held and is on the wire are consecutive numbers,
  and a host that is not paused holds nothing. `FeedInv` says of the turn that is open
  that its end was not reported, and that all reported turns have been opened;
  `FeedGrows` shows that any events an action reports keep that.
* *Prompts.* `PromptInv` counts: an instruction is in exactly one place, queues do not
  repeat themselves, and the chain in which Codex starts what was queued (`ChainInv`)
  is neither in the queue nor handed over. `TurnInv` is what makes turns exclude each
  other: with ACP and Cursor `busy` holds while a request is pending, there is no
  second one, and what the agent works on is that one or timed out. `OutcomeInv` has no result for what is pending, which a
  late answer would otherwise double; `ErrorInv` says where an error does not end a
  prompt: a Codex turn that goes on is overdue, and a Cursor line that is still to be
  read follows a result only if its process was reported as ended.
* *Typing.* `TypingInv` follows an instruction through the pause queue, the settle
  delay, the chain of a batch, the request that appends it and the composer to a
  prompt. That it is in one place (`InOnePlace`) is not inductive by itself:
  `UnderWay` says that what is being submitted was appended before, and that what an
  instruction waits for is under way or waits itself; `WaitedForOnce` that each is
  waited for by at most one and that neither the pause queue nor the settle list holds
  one twice; `SubmittedOnce` that what was submitted is in one prompt and no longer in
  the composer; `TypedAfterStart` that nothing settles or is swallowed before the start.
* *Echoes.* Everything whose echo may still come was recorded before it was typed
  (`EchoInv`), through batches, failing requests and the loop of OpenCode's resume. What is
  remembered is the end of what was recorded, and whatever is missing from it was 30 s
  old once or has `RecentLimit` successors (`MemoryInv`). An echo that is taken for the
  host's is therefore one of those: only the two limits make the adapter forget.
* *Prose and calls.* `RoomInv` has one clause per way of reporting. `LiveInv`: the room
  has all that was said. `HeldInv` (acp, opencode): what it has and what is held back
  are all of it, and the one comes before the other (of acp also what it repeats). `HooksInv`: it has nothing of the
  turn under way. `RecordInv` (cursor-native): it has what is in a record, but for
  turns that failed, and what is in none was said in this turn. `TranscriptInv`
  (claude-native) has four parts: transcripts follow one another on disk (`DiskInv`);
  what comes next in the one that is followed comes after what the room has, unless that
  one has ended and was read to its end (`TailInv`); of turns that no earlier
  conversation disturbs the room has every line up to `offset` (`CalmInv`); and timers
  are of transcripts that exist, in a calm turn of the one that is written
  (`PendingInv`). `FeedOK` says what makes a feed well-formed, and `Adds` what
  a step adds to it; a lemma per event and one for messages show that a well-formed
  feed stays so, a lemma per translator what it adds. `CallsInv` ties the calls that
  were announced and answered to the agent's (for opencode, to `reported`), which is why
  a repeated update announces nothing. `ReplyTold` is the step property: whatever
  appends a result has the turn's reply in the feed by then.
* *Chats.* The tail only ever moves to a younger chat. What it emitted is therefore of
  the chat it is in, up to `lastRowid`, or of an older one (`OrderInv`). It never is
  in a chat that was there before it, except the resumed one, whose rows it has
  skipped (`PastInv`), also when a failing poll made it open its chat again.

Only model-checked: the liveness properties (`LostPeersStepAway`,
`WelcomeComes`, `TurnEnds`, `QueueMoves`, `InstructionsReachThePrompt`,
`NewestChatSeen`, `ReplyMirrored`), which are beyond the proof system; and `History`,
whose summaries are folds over the log, so that what they compute for histories of
any length would need induction over data.

## Not modelled, and the plan

1. Proofs for `History`: that what is trimmed is stored, and that the rows of
   PostgreSQL are a prefix of what was told while one server is alone.
2. `HookFiles`: Gemini's settings file is backed up, changed and written back;
   two hosts in one directory, and one that crashes in between.
3. A composition of `AgentHost` with the adapters: the host's turns over the
   results that `PromptAdapter` and `Transparency` produce, and of `Room` with
   `AgentHost`: the server's view of an agent's status and turn.

Left out for good: authentication, workspaces, HTTP reads, rate limits and
analytics (they read rooms but do not change them, except delete, which is
`DeleteRoom`); names, ids and text cleaning; the digest of `catchup.js`, pickers
and everything else that only formats; usage figures and the agent's status line; scripts and the docs site.
