# Verification of zed-web

zed-web is a browser workbench for projects on remote machines. The browser
(React) talks HTTP and WebSocket to a Rust gateway; the gateway reaches the
target host over `ssh` and there either runs `zed-remote-server proxy`, whose
protobuf envelopes it speaks over stdin and stdout, or plain shell commands.
This directory holds TLA+ modules of the parts of it whose behaviour is hard to
get right, TLC configurations that check them on small instances, and TLAPS
proofs for every value of the constants.

Paths below: `FE` is `src/zed-web-frontend/src`, `GW` is
`src/zed-web-gateway/crates`.

## Inventory

| Component | State | Operations | What is hard | What makes it correct |
|---|---|---|---|---|
| Proxy channel, `GW/gateway-zed-proxy/src/client.rs` (`ZedProxyClient`) | message and worktree ids, `max_received`, `buffered_outgoing`, `opened_buffers`; the two pipes | `initialize`, `request`, `open_buffer_by_path`, `overwrite_and_save`, `apply_batches_and_save` | three read loops that each answer unsolicited envelopes; a caller's timeout drops a call anywhere; flush and replay | nothing acknowledged unread, replay buffer exact, every envelope answered once, calls settle |
| Session handle and registry, `GW/gateway-web/src/registry/` | status, `zed_client` behind a mutex, proxy child, last error | create, reconnect, close, open, save, list, sync | calls queue on one mutex; commands run concurrently; 8 s timeouts with a fall back to ssh; reconnect kills a call in flight | a save never overwrites what its tab has not seen; every command is answered; one live proxy per session |
| Command dispatcher, `GW/gateway-web/src/commands.rs` | one outgoing queue per socket | one task per command, chunked `buffer.open` | answers leave in any order | each request answered once; chunks of one open in order |
| Command client, `FE/lib/sessionCommandClient.js` | socket, promise of the connection, pending table | connect, send, close | timeout against late answer; shared connect; rejection of all pending on one bad message | each promise settles once, no entry left behind |
| Working copy, `FE/store/bufferRuntime.js` | per path: content, base, version, pending batches, revision, conflict, dirty; timers; IndexedDB record | edit, workspace edit, open in chunks, save, conflict, discard, revert, restore, attach model | asynchronous backup and delete; save answer arriving after more edits; restore over a live copy | content = base + pending; no edit lost or counted saved without being sent; backup reflects the copy |
| Workbench hook, `FE/hooks/useRemoteWorkspace.js` | session, tabs, active file | open session, open, save, revert, reconnect, with HTTP fallbacks | each await may be overtaken by another open or save | as above, across fallbacks |
| Text edits, `GW/gateway-web/src/text_edits.rs` and the offsets and batches of `FE/store/bufferRuntime.js` | none of their own | apply batches of edits, cut a file into chunks and decode them | UTF-16 offsets and positions against UTF-8 text; order inside a batch; a character across two chunks | the gateway computes the text the user sees |
| SSH transport, `GW/gateway-ssh/src/transport.rs` | none in the gateway; the file on the host | read, save, list, probe | save truncates before it writes; nothing serialises commands | what is written is what was asked |
| Managed remote server, `GW/gateway-web/src/registry/managed_remote.rs`, `remote_version.rs` | a cached binary in the gateway's data directory, one on the host | download and verify, or write a wrapper; upload; start | two sessions prepare at once under no lock; half a download, half an upload; a timed-out scp that goes on | what is started is one complete binary, the one that was verified |
| Session events, `GW/gateway-web/src/routes.rs`, `FE/hooks/useSessionEvents.js` | broadcast channel, subscriber | subscribe, snapshot, publish | snapshot against queued older events; lag | the view converges to the session's state |
| Commands and key bindings, `FE/lib/keybindings.js`, `FE/commands/`, `FE/hooks/useWorkbenchKeybindings.js`, `useWorkbenchPanels.js`, the palette, menus and bars | the strokes of a chord begun, the panels shown, the palette's query and row | resolve a stroke, run a command, toggle panels, search | a chord broken off and restarted; keys meant for a field, the palette or a selector; a list rendered later than it is typed | a chord runs its command whatever came before |
| Themes, `FE/hooks/useZedThemes.js`, `FE/lib/zedThemes.js`, the selector; icon themes likewise | built-in and installed families, active and previewed theme, `localStorage` | load, preview, apply, cancel, install, reload | loads and installs end in any order; a render that lacks the chosen theme | the choice and the installed families survive |
| Project tree, `FE/components/project/ProjectTree.jsx` and `loadTree` | listed, loading, failed and expanded directories, a generation | list the root, expand, refresh, change session | listings under way when the tree is reset or the session replaced | rows are of the open session and its last listing |
| Editor and semantic highlighting, `FE/components/editor/EditorPane.jsx`, `FE/lib/monacoLoader.js`, `FE/lib/languages/` | the loader's promise, panes, editors, attached models, provider; nothing for the encoding | load Monaco, create and dispose editors; ask for tokens, encode them | a pane closed or re-keyed before Monaco has loaded; a script that fails; tokens in any order | the one editor and the providers are those of what is shown; tokens at their own places |
| Terminal, `FE/components/terminal/TerminalView.jsx`, `terminal_ws` of `routes.rs` | sockets of a tab, the shell behind each | attach, type, exit, close | an old socket closing after a new one was made; a shell that does not read | shells left behind end; ready only with an open socket |
| HTTP routes and server, `GW/gateway-web/src/routes.rs`, `gateway-server` | the registry | argument checks, dispatch | - | those that change state are in the modules of their components |

How they interact. A tab owns a working copy per path and one command socket per
session. `saveActiveFile` sends `buffer.save` with the base version, the pending
batches and the full length; the dispatcher spawns a task per command; the task
calls `SessionHandle::save_buffer`, which, by the scheme of the version, either
takes the `zed_client` mutex and runs open, compare, update and save through the
proxy channel, or reads, hashes, compares and writes over ssh. The answer goes
back over the socket and `handleSaveComplete` updates the working copy. If the
socket closes or 30 s pass, the hook writes the whole content with `PUT /file`.

`PROJECT.json` lists every component with its status, and every hazard of the
code at the line where it bites.

## Modules

| Module | What it is |
|---|---|
| `ProxyChannel` | the envelope channel: client, both pipes, the remote server |
| `ProxyChannelProofs` | theorems about it |
| `BufferSave` | opening and saving one file from several tabs, over both paths |
| `BufferSaveProofs` | theorems about it, and that it implements `CheckedStore` |
| `CheckedStore` | what saving promises, abstractly; `BufferSave` is checked to implement it |
| `HotExit` | the working copy of one file, its backup in IndexedDB, reloads and restores |
| `HotExitProofs` | theorems about it |
| `SessionLife` | creating, stopping, starting and reconnecting one session, its status and its event stream |
| `SessionLifeProofs` | theorems about it |
| `CommandClient` | the command WebSocket of a page, the gateway's tasks behind it, and opening a file in chunks |
| `CommandClientProofs` | theorems about it |
| `ManagedBinary` | the remote server's binary in the gateway's cache and on the host |
| `TextEdits` | chunks, offsets, positions and batches of edits, in the tab and in both programs of the gateway |
| `Workbench` | key strokes, commands, panels and the palette |
| `Themes` | colour themes and their selector |
| `ProjectTree` | the directories of the left dock and their listings |
| `EditorHost` | the loading of Monaco, the editor pane and its providers |
| `SemanticTokens` | a request for tokens and the encoding of the answer |
| `Terminal` | the sockets of a tab's terminal and the shells behind them |
| `Projects` | the working copy and backups of one path in a window over two projects |
| `MCProxyChannel`, `MCBufferSave`, `MCHotExit`, `MCSessionLife`, `MCCommandClient` | instances for TLC (the second with its symmetry set) |
| `MCWindow` | the nine modules of a window's parts (`ManagedBinary` to `Projects`) side by side |
| `WindowProofs` | theorems about `Workbench`, `Themes`, `ProjectTree`, `EditorHost`, `Terminal`, `ManagedBinary` and `Projects`, and about `MCWindow` |
| `TextProofs` | theorems about `SemanticTokens` and `TextEdits` |
| `SequenceLemmas` | lemmas about sequences and sums that those proofs rest on |

`BufferSave` uses the proxy channel as a reliable call: what `ProxyChannel`
shows (a call settles, or is dropped at its 8 s, or waits for the reconnect that ends
it; requests are not lost) is what it takes from it: a job that stops in `update` or
`store` goes on after `Fail`, `PutByTransport` or `Reconnect`. The two
are kept apart because their product would be far too large and they share only
the mutex and the cached buffer. `HotExit` in turn takes saving as one step with one
of the three answers `BufferSave` gives, because its questions are about the
page's own memory and database; both hold the same working copy, `BufferSave` the
fields a save reads and writes, `HotExit` all of them. `TextEdits` shows what
`BufferSave` and `HotExit` take a text for: a content is the edits that made it, because
each edit, wherever it is, is carried out to the same effect on both sides.

`MCWindow` puts side by side parts that share no state: the panes of a window and the
gateway's preparation of the server binary. Its `part`, chosen at the start, is the
one that takes steps, so its states are the sum of theirs and not the product, and
each keeps the fairness of its own module.

### ProxyChannel

`nextId`, `nextWorktree`, `maxReceived`, `buffered` and `cached` are the fields of
`ClientState`; `toRemote` and `toClient` the pipes. `pc`, `want`, `opening`,
`timed`, `buffer`, `hasState` are where the one running call stands: calls run
under `SessionHandle.zed_client`, so there is one. `Start`/`InitRead` is
`initialize`, `Call`/`AwaitRead` is `request`, `ChunkRead` the loop of
`open_buffer_by_path`. Every read goes through `Read` (`read_envelope`: retire,
track) and then through the answering code of its loop in the same step, because
no other call can interleave.

`tokio::time::timeout` may drop the call's future at any await. Between two reads or in
one it is `Abandon(cut)`; with `cut` it was inside `read_exact`, which is not cancel
safe, and the reader is out of frame from then on (`framed`, `ReadGarbage`). In a write it
is one of the `Ends` of that write, of a request (`Call`) or of what answers an envelope
just read (`AwaitRead`, `ChunkRead`, with `Dropped`): "early" is before the envelope has its
number, "unsent" after it was numbered and kept but before its first byte, "torn" inside
its frame or inside one of those a flush replays, after any number of whole ones. Half a
frame (`torn`) makes everything behind it unreadable: `PipeGets` then delivers nothing
more. `dropped` is history, the envelopes a dropped call was answering.

After a cut frame, in either direction, the channel works again only after a reconnect.
Until then calls with a timeout are dropped at it (`TimerFires`), and one without, as
`save_buffer`, `add_worktree` and `buffer.sync` make them, may keep `zed_client` (`Stuck`). A
reply that was kept but not written is retired unsent when the remote server
acknowledges a later id, and a flush whose replay was cut is never acknowledged.

An envelope is its ids and its kind; payloads are left out, as no property
depends on them. The remote server is external. It answers every request or
fails it, sends State and Chunk of a buffer id once, and may send pings,
worktree-id requests, notifications and one flush at a time, with or without an
ack_id, as the servers in the tests of `client.rs` and in `fake_remote_proxy.rs`
do. Message ids are natural numbers: the code's `u32` wraps after four
billion envelopes of one connection.

### BufferSave

The working copy of tab `t` is `cur` (the editor's text), `base`, `ver`, `pend` and
`conflict`. `job[j]` is one request from the moment it is sent until its answer is
handled; its step names what runs next:

| step | code |
|---|---|
| `sent` | queued; `CheckByProxy`, `CheckByTransport`, `OpenForPut` begin it |
| `update`, `store` | `UpdateBuffer` and `SaveBuffer`, under the mutex (`lock`) |
| `write` | the ssh write after the hash comparison |
| `ssh` | the PUT's ssh write after the proxy failed or was too slow |
| `saved`, `conflict`, `error` | the answer on its way (`Deliver`) |

A content is the sequence of the edits that made it, so an edit that got lost,
was applied twice or was overwritten is visible. All the gateway checks of
a text is its length (`validate_expected_content_length`), so an edit counts for
one unit of length or, if it is in `Neutral`, for none. The steps in which the
mutex is free between two awaits are separate; `CheckByProxy` (open, compare, length
check) is one step because it holds the mutex and touches nothing others
read. `Fail(j)` lets any step fail before or after its effect, with the file
emptied in between over ssh (`cat`/`base64 >` truncates first). `Reconnect` is
`stop_proxy` and `start_proxy` in one step: it kills the call in flight and empties
`opened_buffers`.

`ReusesBuffer` says whether the remote server hands out the same buffer id for
each open of a file. Its answer decides if `opened_buffers` is consulted, and the
repository shows both (the tests' servers reuse; whether a real one does after a
buffer was released cannot be seen here). `SlowProxy` lets opens and PUTs miss
their 8 s, and `OpenedBy` = "ssh" has the tabs opened that way already. In `SaveShared`
and `SaveFresh` `SlowProxy` is FALSE: the refinement is about the proxy path, and
`SaveTransport` shows that it fails on the other.

### HotExit

`copy` is the path's entry in `workingCopies`, `live` and `text` the Monaco model (its
text is the copy's while a model is attached), `timer` the entry in
`backupTimers`, `enabled` is `hotExitEnabled`, `conn` the state of `dbPromise`, `db` the
record in IndexedDB, `job` the save under way, `restore` where `restoreWorkspace` is.

JavaScript runs a callback to its end, so every callback is one action: `Edit` is
`onModelContentChanged` with the `scheduleBackup` at its end, `FireTimer` is the timer's
callback, `StartOpen`, `FinishOpen` and `FailOpen` are `startLoading`, the chunks with
`finishLoading`, and `failLoading`, `SaveAnswered` is `handleSaveComplete`, `ApplyRestore` the
part of `restoreWorkspace` after its last await. Between them `queue` holds the
database requests that were made. They are carried out in order (`CarryOut`), as
IndexedDB does for transactions on one store, and none before the database is open
(`OpenDb`), since each awaits `dbPromise`. Until then the record of a `put` holds the
array of pending batches itself and not a copy of it: `shared` marks such a
request, `WithBatch` lets later edits reach it, and whatever gives the working copy
a new array ends it (`ArrayReplaced`).

`ReloadPage` empties the memory. The database keeps its record, with any number
of the requests it had already begun, and a save that was sent goes on without
anyone to hear the answer. `gone` is a history variable, the edits the user has
given up by closing, reverting or opening the file anew, or that were lost with
the page before the backup was due. `overtaken` says that a restore replaced a copy
the page was using; it is cleared by the next open or revert.

A tab closed while its save is under way is not quite gone: if the answer is a conflict,
`handleSaveComplete` marks the copy, and if its text differs from its base (the editor
gave it back when it went) `scheduleBackup` is called for edits the user has
discarded. `FireTimer` writes them, as a text without batches, and they are back after
the next reload; `RestoredBatches` makes a snapshot of them, and this is why `BackupExact`
compares the batches a restore would make and not the stored ones.

`Unshown` lets a copy be edited that no editor shows, as `applyWorkspaceEdit` can do; only
tests call it, and in `ExitOverlap` it is FALSE, so that every edit there is typed in the
editor that shows the file. `Overlaps` lets a session be set again while files are open
(reconnect), and the user act while a restore is under way; `SlowDatabase` lets the user open and edit before
the database has answered its first open.

### SessionLife

`state`, `active` and `worktree` are `connection_state`, `proxy.active` and
`worktree_id` of the `SessionState`, `slot` and `client` the contents of the two mutexes
`proxy` and `zed_client`. `alive` are the ssh children that run. `task` has, for the
request that creates the session and for each reconnect, the step it is at: one per
lock taken or await in `reconnect`, `stop_proxy` and `start_proxy`, in their order, so
that any other request may come between two of them. A child is in its task's hand from
`Spawn` until `InstallChild` and `InstallClient` put it and its client into the slots;
a start that fails between leaves it running with its stdin closed (`Dies`), since
nothing kills it, except that a failing `initialize` reads its stderr to the end first
(`Drain`).

A `call` is one of the `*_via_proxy` functions: it reads `worktree_id`, waits for
`zed_client` and keeps it until the remote server answers, its pipe ends or, for those
with a timeout, 8 s are over. `ProxyFree` and `ClientFree` are the two mutexes;
`stop_proxy` holds the first while it waits for the second.

`stream` is the browser's event socket: `subscribe`, then `snapshot`, then the broadcast,
which ends for a receiver that lags `EventBuffer` events behind. `view` is the
workbench's `connectionState`. `asking` is the request the browser waits for, `posted`
that it went by POST: `Retry` is the POST after the failed command. `Overlaps` lets
that POST, and another reconnect, begin while the first is under way.

### CommandClient

`registered` is the session's entry in `commandClients`; `current`, `promise`, `nextId` and
`pending` are the variables `socket`, `connectPromise`, `nextId` and `pending` of each client,
`phase` the `readyState` of each socket, `up` and `down` its two directions. A client and a
socket bear the number of the request that created them. `req[r].pc` is where the
promise of request `r` stands: waiting for `connect`, pending, fetching over HTTP (an open
whose command failed), settled. `task[r]` is the gateway's task for it.

A callback and the promise reactions it causes run to their end, so one callback is one
action: `AskNow` and `AskAndConnect` are `getSessionCommandClient`, `connect` and what
`send` does at once; `SocketOpens`, `SocketFails`, `SocketClosed` are `onopen`, `onerror`
with the `onclose` after it, and `onclose`; `Receive` is `onmessage`, `TimesOut` the timer
of an entry, `Fetched` the end of the HTTP fallback. In the code each callback acts on
the client's variables, whichever socket it belongs to, and so do the actions
(`HandleClose`). `SocketCloses` puts a socket into CLOSING, in which `connect` already
makes a new one. `Accept` is the loop of `command_socket`, `Respond` a task whose answers go
into the queue of its socket, all of them, or an error, or nowhere if the socket has gone;
between `Accept` and `Respond` other tasks and sockets may come.

The text is the sequence of chunks that were appended to it; `loaded` is the buffer state
that is neither `loading` nor `partial`. An answer names in `for`, which is history, the
request its command was made for. `raced` says that a socket was made while one was in
CLOSING. `Again` lets a file be opened while it is being opened.

### ManagedBinary

`cache` and `remote` are the two files: whether there, written by whom last, from what,
to the end or not, executable or not. `step[t]` is where a run of `start_proxy` stands;
`Look` to `SetMode` are `ensure_local_cached_binary` with `download_release_binary` and
the wrapper of `managed_remote_exec`, `Ask` to `Chmod` `upload_remote_binary`, `Start`
`spawn_proxy`. Opening a file truncates it and keeps its mode (`Created`); what a writer
leaves is its own and whatever another wrote since (`Filled`). Any await may fail
(`Fail`), a write may break off (`FillBreaks`, `CopyBreaks`), and scp goes on after
`SSH_TIMEOUT_SECS` (`CopyTimesOut`, then `CopyEnds`). The release, ssh and scp are
external. One version on one platform is modelled; others have files of their own.

### TextEdits

A text is a sequence of characters, each with its bytes and code units (`Utf8`, `Utf16`);
an index is a number of characters, and the code's byte indices and UTF-16 offsets and
positions are computed from it. `Chunk` is one step of `stream_buffer_content` and of the
tab's decoder, which drops a byte-order mark (`Mark`) at the beginning of the file
(`WithoutMark`); `marked` is history, that the file opened had one.
`EditOnce` and `EditTwo` are `onModelContentChanged`, `Restore` is `buildSnapshotBatch`. `ApplyBatches` is `text_edits.rs`, `Operate` the same text as
`operations_from_batches` means it, which looks at offsets only. `Save` takes the place of
a save that succeeds over one path or the other.

### Workbench

`held` are the modifier keys down, `pending` is `pendingSequenceRef`, `ui` the panels of
`useWorkbenchPanels`, `box` the palette. `AllCommands` and `AllBindings` are the tables of
`commands/` and `keybindings.js`; `CommandEffect` gives what each command does to the panels.
`KeyDown` is `handleKeyDown` from the event to the command it runs, `Resolve` and `Taken`
are `resolveKeybinding`, `PaletteShow` the render of the deferred query. Commands that
leave a status message or open a page of the browser change nothing here.

### Themes

`page` is the state of `useZedThemes`, `store` what it keeps in `localStorage`. `Settled`
is the two effects that follow a render whose themes or choice are other than before, and
every action that causes such a render ends in it. `InstallStart` and `InstallDone` are
the two sides of reading the files of a folder. `chosen`, `kept`, `left` and `unsaved` are
history.

### ProjectTree

`generation`, `known`, `filled`, `loading` and `failed` are the refs of `ProjectTree`;
`filled` also says, which is history, in which generation and for which session a
directory got its rows. `Reset` is the effect on the tree's paths and the session, part of
each action that changes one of them. `asks` are the listings under way; `RootAnswer` is
the end of `loadTree`, `DirAnswer` the part of `loadDirectoryChildren` after its await.

### EditorHost

`script`, `promise` and `monaco` are the script element, `monacoPromise` and
`window.monaco` with `monaco.editor`. `waits` are the continuations of the pane's main
effect, one per time it ran; `pane.effect` counts them, `CleanUp` is what the effect
returns. `Show` renders another key, `ChangeSession` runs the effect again in the same pane.

### SemanticTokens

`Provide`, `Cancel`, `Fetched` and `FetchFails` are a request of Monaco's; `Response` is
`normalizeSemanticTokensResponse`, `Encode` `encodeSemanticTokens`, with
`CaptureTypes`, `TokenTypes` and `TokenModifiers` the tables of `semanticTokens.js`.

### Terminal

`sockets[i].state` is the `readyState` of the socket an `Attach`, the effect of
`TerminalView`, made; `sockets[i].shell` the child of `open_terminal` behind it. `Kill` is
the writing task that comes to the end of the messages, and `Block` a `write_all` to a
shell that does not read, during which that task waits.

### Projects

`workspace` is `workspaceKey`; the working copy has no project of its own, so a text is
the set of projects it comes from. `SetSession` is `setSession` with the two effects on the
session, `Request`, `DeleteBackup` and `CarryOut` tell when a request to the database gets
its key: a put when it is made, a delete when the database has been opened, the filter of
a read when it has all records. `calls` and `restores` are what may still be answered
after a `SetSession`. `Crosses` lets a project be opened over something of the one before
(`Busy`). `owed` are the projects whose backup a page found when it was loaded and that
have not given it up since.

## Runs

| Run | Question | Answer |
|---|---|---|
| `ProxyChannel` | with two calls, each dropped anywhere, in its reads, its writes or between, or one call and one unsolicited envelope: is the replay buffer exact, is nothing unread acknowledged, is every envelope answered once, does a flush bring back what was lost; does a call settle? | yes (51 thousand states), but for what a dropped call was answering, and for a call without a timeout after a cut frame |
| `SaveShared` | two tabs, buffer reused: is the cached copy current, is saving a checked store, is every save answered? | yes |
| `SaveFresh` | two tabs, half-done saves, restarts: is an edit applied at most once, is saving a checked store? | yes, while opens read afresh |
| `SaveAlone` | one tab with two saves under way and three of: edits, an outside change, a fault, a lost answer with its PUT, a reload, over both paths: do text, base and pending edits agree; does the hash name the base? | yes (6.9 million states) |
| `SessionLife` | reconnects, retries, silent or dying children, failed starts, lost answers and streams: do status and slots agree between reconnects, is a ready session shown as ready, does a reconnect end? | yes (176 thousand states) |
| `CommandClient` | four requests over connections that fail, close, time out and answer late: does every promise settle, with its own answer; is there one socket; is a loaded file whole? | yes (455 thousand states), with the two provisos below |
| `SaveTransport` | two tabs that opened the file over ssh: is a saved edit safe from another save over ssh? | no |
| `SaveWhileTyping` | is each edit on screen saved or pending? | no, not one typed while a save is under way |
| `ExitBackup` | after any order of edits, saves, conflicts, late timers and overlapping restores, is the backup what a restore makes the copy from, and gone when there is nothing to keep; does an unsaved edit get into it? | yes (917 thousand states) |
| `ExitReload` | over two reloads: does the copy stay base plus pending edits, and is every edit somewhere until the user gives it up? | yes (2.9 million states), when files are opened after the restore |
| `ExitOverlap` | is every edit somewhere, when a reconnect restores over open files? | no, not one typed while the restore waits |
| `Window` | of each of nine parts: does a chord run its command; do the chosen theme and the installed families survive; are the rows of the tree and the editor those of the session shown; are tokens where the server named them; does the gateway compute the text on screen from the text opened; is a started server binary whole; do two projects' backups stay apart; do listings, the loader and left shells come to an end? | yes (145 thousand states) |

The three "no" are places where the code does something other than its
documentation says; `PROJECT.json` quotes the sentences under "findings".

1. Saves over ssh read, compare and write without a lock. In the run two tabs opened the file
   over ssh, which happens where the proxy is slow, and save it: both saves read the same
   file and find the same hash before either writes, and the later write drops the edit
   the earlier one reported saved.
2. `handleSaveComplete` takes the text of the moment the answer arrives for what
   was saved and clears the pending batches.
3. `restoreWorkspace` runs on every new session object and overwrites a copy that is
   open, with a backup older than its last edits. In the run an edit has its backup, a
   reconnect begins the restore, a second edit is typed in the editor while the restore
   waits for the database and the remote versions, the user turns to another tab, so that
   the text is in the copy, and the restore puts the backup there: the second edit is gone.

More limits have no run of their own. `CopyCurrent` is false once the file changes
outside and the remote server reloads its buffer (`MaxOutside`, `MaxReloads` above
zero): `open_buffer_by_path` answers from `opened_buffers`, so the "current remote
version" a save is compared with is what this client saw last. And the PUT after a
lost answer compares no version and may overwrite other saves: `NothingOverwritten`
is false with `MaxLost` above zero and two tabs. `LoadedWhole` is false with `Again`: nothing
keeps a file from being opened while its first open is under way, and then the chunks of
both are appended to one text, which counts as loaded with everything twice.
`OneSocket` and `ToldOfClose` except what follows once a socket was made while another
was in CLOSING: `onclose` of the old one then clears the variable that holds the new
one, rejects the requests that were sent on it and takes the client out of the registry,
so that a third socket is made beside the second.

`WorkingCopyExact` and `HashNamesBase` except the tabs of point 2 (`raced`, a history
variable set exactly when a copy changed between a save's request and its answer
and cleared by the next open) so that they say something about everything else.
`BackupExact` and the `WorkingCopyExact` of `HotExit` except in the same way the copies
of point 3 (`overtaken`).

`BackupsApart` is false with `Crosses`, in three ways. An edit of the old project's tab is
backed up under the new project's key. The answer to a save or an open of the old one
deletes the new one's backup of the same path, before it may have been restored. A restore
of the old one that is late replaces the copy the new one has open. That no tab is open and
nothing is awaited is not quite enough: a save that conflicts after its tab was closed
leaves the copy in conflict and arms the timer, so a project opened within 0.85 s gets
the discarded text as its backup (the last line of `Busy`).

What the other parts do that a reader may not expect, met while writing them:

- `ThemesKept` counts a choice as lost once a render has themes but not the one chosen. With
  a family installed, the first render after a load has that family only; a choice among
  the built-in themes is not found and the default is stored in its place.
- A preview stays on when a menu puts another panel in the selector's place (`left`).
  `removeInstalledFamily` is called by nothing.
- The listing of the root looks at no session: a late one of an earlier project becomes the
  tree of the next until it is refreshed. The old tree stays under a new session until its
  own listing comes. A directory whose listing failed is not asked for again before a
  refresh.
- A `<script>` that failed stays in the document, and the next `loadMonaco` waits for events
  that are past; `LoaderSettles` excepts it. A pane that shows a load error goes on showing it
  when the session changes, even when an editor could be made. The effect of `EditorPane`
  that should renew the providers finds no Monaco by then; the main effect does it.
- No session of this gateway has `capabilities` and it has no `/highlights` route, so the
  semantic providers and the commands that need a capability wait for another server.
  Tokens that span lines are dropped, and so are those with `length: null`, which reads as 0.
- A chord begun is given up when a modifier is released and pressed again.
- The `onclose` of a terminal socket that was replaced sets the status of the new one. A
  shell that does not read its input keeps the writing task, and with it the child, after
  its socket has gone.
- A file in the cache is the binary as soon as it exists and is never verified again, also
  when its writing broke off. It is not kept apart by `managed_remote_exec`: a wrapper written
  for one session serves another, and a download one that asked for a wrapper. scp goes on
  after its time-out and creates its file with the mode of the source, so that half
  a copy can be executable. `BinaryWhole` says what remains true.
- A file that begins with a byte-order mark is shown without it, so every offset is one unit
  short and the expected length three bytes. The gateway refuses its saves by the length,
  except where the lengths agree by chance: of a marked "xéy", with x and y deleted in one
  edit, "é" is on screen and "xy" is saved. `TextExact` says of such a file only that the
  batches lead from the text opened to the text on screen.
- `text_edits.rs` compares offsets with positions, `operations_from_batches` looks at the
  offsets only and sends each range with the version of the text before them all.
- `applyWorkspaceEdit`, which only tests call, computes all offsets on the old text and
  applies the changes one after another.

### Bounds

`ProxyChannel`: `MaxCalls` = 2 is what it takes for one call to be dropped and the
next to meet its leftovers, with two buffer ids, so that both may open one or each its
own. One unsolicited envelope (`MaxSpoken` = 1) meets each of the three loops at
each point. The run allows two calls or one call and one
envelope, not all three (`MaxEvents` = 2), since fairness checking costs more; its four
safety invariants are proved for every bound. When its
bounds are spent the channel may have nothing left to do and stops, so the
configuration does not check for deadlock. That no call stays stuck is what
`AwaitSettles` and `OpenSettles` say.

`BufferSave`: two jobs are enough for any pair of requests to interleave and are
reused after their answer. Two tabs where the question is about other tabs, one
where it is about the tab itself. Two or three edits: one saved before, one
pending, one that leaves the length alone. `MaxOutside`, `MaxFaults`, `MaxLost`,
`MaxReloads` bound the events around it, each one or two in the run that is about
them and zero elsewhere. `MaxEvents` bounds all five kinds together: in `SaveAlone` it is
three, so that any three of two edits, an outside change, a fault, a lost answer and a
reload occur in any order; elsewhere it is larger than their sum. `MaxReloads` also keeps
two racing ssh writes from putting the file back and forth for ever. Tabs and jobs
are only compared for equality, so permuting them is a symmetry; it is not used where
liveness is checked.

`HotExit`: one path, as paths share only the database connection and the queue. Two
edits are one that is in the backup and one that is not yet; `ExitReload` has three
so that a copy can be edited again after each of its two reloads, and three
sessions so that each reload is followed by a restore. Two opens or reverts, one
save, one change of the file outside, one failure (an open, the database, or a
request) where the run is about them. `Overlaps` is FALSE in `ExitReload`
because with it the answer is the one of `ExitOverlap`. A page whose user
does nothing more has nothing to do, so these configurations do not check for
deadlock; `EditBackedUp` says that what must still happen does.

`SessionLife`: two reconnects are one that fails and the POST that retries it. Two
calls at a time: one that holds the client while it waits and one that waits for the
client. Two faults, for a failed start followed by a lost answer, after which the
browser knows the outcome from the event stream only. A buffer of three events (256
in the code) is filled by one reconnect and a save, so that lag occurs.
`Overlaps` is FALSE: with it `StatusTruthful` is false, as one reconnect may empty the
slots the other has just filled, before that one sets the status to ready, and two
starts may leave the child of one and the client of the other; the hazard list has it.
A session nobody uses does nothing, so the configuration does not check for deadlock;
`ReconnectEnds` says that a reconnect does not stop half-way.

`CommandClient`: four requests, the first and third of them opens, in two chunks each. They
suffice for an open that times out between its chunks and one that follows on the same
client or a new one, and for a request of another kind before and after each. One
socket that was open closes, besides any that fail to open. Requests stop at their bound,
so the configuration does not check for deadlock; `Settles` says that no promise is left.

`Window`: the constants stand in `MCWindow` and `Window.cfg`, each part with its own. The keyboard has the
modifiers, two chords with the same first stroke, a key that needs shift and one command
of every kind; `held` and `pending` are bounded by the keys. Two built-in families,
of which the one with the default theme may fail to load, and two to install. Two sessions
and four directories, three of them below one another, so that a listing fills some
directories and only names others; four generations (`MaxGeneration`) are the start, two
sessions and one more reset, and three listings under way (`MaxAsks`) are those of two
sessions and a directory. Seven tokens, of which up to three are in an answer: positions
on one line and on several, with and without a length, of types and modifiers the
legend has and does not. Texts of up to three characters of one, two and four bytes and a
line break, chunks of three bytes and then two, less than one character has; two batches
of edits in one or two places. Two paths, two sessions, one with the capability, and three
runs of the effect (`MaxEffects`): one overtaken, one that fails, one more. Three sockets
(`MaxSockets`), the least at which one that was replaced replaces another. Two starts
at a time, in slots that are used again, so that any number follow each other. Two projects
(`ProjectKeys`), two requests to the database waiting (`MaxQueue`) and one to the gateway
(`MaxCalls`); edits, saves, sessions and reloads of `Projects` are not bounded. Parts stop
at their bounds or when the user does nothing, so the configuration does not check for
deadlock; `ExpandSettles`, `LoaderSettles` and `OneShell` say what must still come.

### Fairness

The pipes deliver and the gateway's tasks are scheduled, so reading, the remote
server's steps and the steps of a running job are weakly fair. Taking the mutex
is strongly fair: `tokio::sync::Mutex` queues its waiters first come, first served,
so a job that finds the mutex free again and again gets it. Users, their
timeouts, failures, outside changes and unsolicited traffic are not fair.
In `ProxyChannel` the timeout of a call is fair only where nothing else can settle the
call (`TimerFires`); before any frame is cut a call settles without it.
`SaveAnswered` does not need a timeout. It does need the proxy to
answer: `save_buffer` itself has none, and the hazard list says where that bites.
In `HotExit` a timer that is set fires and the database opens and carries out what it
was asked (`FireTimer`, `OpenDb`, `CarryOut` are weakly fair); the user, the network and
failures are not.

In `SessionLife` the steps of a request are strongly fair, as the mutexes are first
come, first served and the ssh commands end. A new remote server is taken to answer
`initialize` and `add_worktree` or to exit; afterwards it may be silent for ever. A call
with a timeout ends, and so does one whose child is gone.

In `CommandClient` a connection that is being made opens or fails, and timers fire. Answers,
closing sockets and the gateway are not fair: a promise must settle without them.

In `ProjectTree` a listing ends: its command has a timer and the browser gives up a
request. In `EditorHost` a script loads or fails, and the continuations of a promise run. In
`Terminal` the gateway is told of the end of a connection and the task that waits for its
messages runs, but a shell need not read its input nor end. What the user does is never
fair, nor is any failure.

## Proofs

`ProxyChannelProofs` proves, for any set of buffer ids and any bounds, five
theorems; the only assumption is `ConstantsAssumption`.

- `TypeCorrect`: `TypeOK` is inductive. It is split into what writing changes
  (`WriteType`), the running call (`CallType`), the remote server (`RemoteType`) and
  the rest, with one lemma per action.
- `ReplayBufferExact`: `UnackedKept` alone is not inductive. If an ack_id could exceed
  every id written, the next envelope would be in the buffer although it is
  already acknowledged. `BufferInv` adds that the ids written, those in the input of
  the remote server, the last it read, and the ack_ids in the client's input
  are all below `nextId`.
- `NothingUnreadAcked`: `AckSound` needs that the input pipe is in order of ids, all of
  them below the remote server's next (`FifoInv`).

- `RepliedOnce`: `AnsweredOnce` counts replies to an id; nothing in it excludes that an
  envelope the remote server has not sent yet is already answered, or that two envelopes
  in the pipe have one id. `ReplyInv` says that the ids answered are below all that is
  still unread and below the remote server's next, that no two replies name one id, and
  that what is asked lies unread, is answered, is a chunk or was in the hands of a call that was
  dropped while it answered (`dropped`), of which there are at most as many as calls.
  It needs that every request the server owes an answer to has an id (`OwedInv`): an answer to id 0 would look like
  a request. Counting comes last, from the cardinality of an empty set and of a singleton.
- `FlushesRecover`: `FlushRecovers` speaks of the special ack at the head of the pipe.
  `FlushAcked` says the same of every such ack under way: what the flush asks for stands
  before it or has been read since. A write keeps it because a flush still unread has seen
  no acknowledgement above its floor (`FlushSent`), so the buffer replayed, which is
  exact by `BufferInv`, holds all that is above the floor; and a new flush finds no
  ack of it in the pipe because replies name only ids already read (`ReplyInv`).

The proofs reduce every action to an effect first (`ReadStep`, `PlainStep` and
`RemoteEffect`; `Reply` or `Unanswered`, and `RemoteSends`, for the last two theorems),
and then keep the invariant under each.

`BufferSaveProofs` is about any tabs, jobs and bounds; `SaveAssumption` is all it
assumes, unless said otherwise.

- `TypeCorrect`: types, and that exactly the job in `update` or `store` has the mutex.
- `CopyExact`: `WorkingCopyExact` is inductive over the types.
- `HashNames`: `HashNamesBase` alone is not inductive, because the hash comes back with an
  answer. `HashInv` adds what each request carries that was not overtaken: its full text is
  its batches on the content its hash names, then on the content it read, and in the
  end is what its new hash names. That the text sent with a hash is that of the base comes
  from `CopyExact`.
- `AppliedOnceOnly`: through all faults, retries, restarts, PUTs, saves over ssh, outside
  changes and reloads, buffers reused or not, an edit is in the remote's buffer once until
  operations are applied that were made on a text the buffer no longer had. `stale`, a history
  variable set by `Update`, says that this happened; with a reused buffer it does after an
  `UpdateBuffer` whose `SaveBuffer` failed, since `opened_buffers` keeps the old text and
  version. That is the only way: `OnceInv` says that no copy a save may be compared with
  (`Copies`: the buffer, `opened_buffers`, what a call under way will store) is older than the
  version a tab or request carries, that one of the same version has none of the batches
  yet (`Behind`), and the same of the text a hash is of. `NeverStale` is that under
  `Calm` no such operations exist, so that there `AppliedOnce` holds outright (`CalmOnce`).
- `CopyIsCurrent` holds under `Calm`: nobody but the proxy writes the file
  (`MaxOutside` = 0), no call misses its 8 s (`~SlowProxy`), and if a step may fail
  (`MaxFaults` > 0) no answer is lost and buffers are not reused. Each part is
  needed: with one tab, two jobs and one edit TLC finds `CopyCurrent` violated with an
  outside change, with a slow proxy whose PUT then writes over ssh, and with a fault
  in a buffer that is used again; `AppliedOnce` is violated with a fault in such a buffer too.
  `ProxyInv`, from which `CopyCurrent` follows, says that no request is on the way to ssh, that
  the buffer is the file unless it is dirty, that `opened_buffers` is the buffer except
  between the two steps of the job that has the mutex, and what that job computed is then
  what the buffer holds.
- `ImplementsCheckedStore`: under `Calm` with no lost answers (`MaxLost` = 0; the PUT that
  follows one compares nothing). `SeenInv` says that a tab whose version, or whose
  request's version, is that of the buffer was told the text the buffer holds. The
  abstract file is `Held`; every step of `BufferSave` is then one of `CheckedStore` or
  leaves its variables alone.

`CommandClientProofs` is about any number of requests, sockets and chunks, and assumes
`CommandAssumption` only.

- `TypeCorrect`: `Types`, and that a socket that was not made carries nothing.
- `AnswersAreOwn`: `AnswerOwn` needs `Ids`: an id that is pending, on its way, in work or on
  its way back is below its client's `nextId`, and of one request only.
- `OneSocketEver` and `NobodyLeftWaiting`: by `OneLive` the only socket that is not closed is the
  variable of the client registered, and by `Kept` what waits for a connection
  waits for the one being made and what is pending was sent on the one that is
  open; both except what follows `raced`.
- `LoadedIsWhole`: `LoadedWhole` holds when a file is not opened while it is being opened,
  `~Again`, and false otherwise (see "Runs"). It needs the most: `Commanded` (a request has no command before it is sent, and one id and
  one client from then on), `Once` (a command is sent once and carried out once), `Entries`
  (an entry whose request no longer waits is of a command that was never sent), and
  `Loading`, in which `Coming` says that the chunks the text lacks come right before
  the answer that takes it for whole. `Follow(c, q, r, i)` says this of a text `c` and a
  queue of answers `q`, by places and without recursion; the lemmas `FollowEnd`,
  `FollowTail`, `FollowChunk`, `FollowMore` and `FollowAll` are what a step does to it.

`SessionLifeProofs` is about any number of reconnects, calls, faults and any capacity of the
event channel.

- `TypeCorrect`, whatever overlaps. `TypeOK` bounds the children ever spawned by the number of
  tasks, which needs that a task spawns one: `Spawns` counts the tasks that have a
  child. `Locks` is the mutual exclusion in `TypeOK`: one task between the mutexes of
  `stop_proxy`, one call with the client, which stays in its slot as long.
- `StatusIsTruthful`, when reconnects come one after another (`~Overlaps`). `StatusTruthful`
  speaks of rest only; `Stage(t)` says for each step of the one task under way (`OneTask`)
  what status and slots it found.
- `ViewKeepsUp`, with the same hypothesis. `Heard` says that the last event on its way to a
  ready session's browser is that it is ready, or the snapshot says so if there is none, or
  the view if there is neither, except between `SetReady` and `AnnounceReady`. It uses `Stage`,
  since the event "reconnecting" must not be sent by a session that is ready.

With `Overlaps` these two are false: TLC shows a session at rest that says ready with empty
slots, and one whose browser shows "reconnecting" for good. What `~Overlaps` says is
not a promise of the code; it holds when a reconnect is answered before its command times
out and its socket stays open.

`HotExitProofs` is about any number of edits, saves, opens, outside changes, sessions, reloads
and failures, from `HotExitAssumption`.

- `TypeOK`, besides types, says that a timer, an open file and a save that is awaited have a copy
  with a version, so that every record and request has one.
- `BackupsExact` needs no hypothesis, neither about overlapping restores nor about the
  database. `BackupExact` speaks of the moment nothing is under way; `Backed` says what the
  database will hold while the timer is not set: `EndsWith(d, q, r)`, that from the
  record `d` and the requests `q` it ends with `r`, which is the record of the last
  write in `q`, or `d` if there is none. `AppendEnds`, `TailEnds` and `ReplacedEnds` are what a
  step does to it. A restore takes part because of `Untouched`: while nothing was opened or
  restored no write can be under way, so what was read is what the database has.
- `CopyRestored`, that `WorkingCopyExact` is an invariant when no restore comes in over open
  files (`~Overlaps`). By `ExactInv` the file is closed and untouched until the restore is
  over, so no record can be made whose batches still change (`shared`), and each record under
  way, read or stored is exact (`RecExact`): its text is what its base and the batches a
  restore takes from it make. A backup written for a file that is closed or being
  opened has no batches and stands for its whole text. With `Overlaps` and
  `SlowDatabase` TLC finds it violated: an edit made before the database is open reaches
  the batches of a record and not its text. `~Overlaps` holds for a user who waits for
  the restore and never reconnects.
- `EditsStay`, that no step lets an edit vanish (`EditsHeld`), under the same hypothesis,
  without which the run `ExitOverlap` finds it violated. A step that takes an edit off one
  of the places where it is held must find it in another, so `HeldInv` says where:
  `Stored`, that no edit is in the database only, which holds once the restore is over, or
  hot exit was off before it could begin and the database stays as it was; `Behind`, that
  a record has the edits of the version it is of, and the like of the copy and of a save
  under way, so that a text sent whole replaces no edit in the file. What a reload
  carries over is what `BackupInv`, the invariant of `BackupsExact`, says of the
  database.

`WindowProofs` is about seven parts of `MCWindow` that have nothing to do with each other, and
about all nine together.

- `ChoicesStay`, for any families, built in or on disk, of which those on disk have themes
  (`ThemesAssumption`; the code refuses a family without) and all have lists of names.
  `ThemesKept` is not inductive by
  itself: were a theme previewed while there are none, Enter would close the selector and
  leave the preview on. `ThemeInv` adds that there are themes when one is previewed, which a load keeps because
  a page that is not ready has no built-in ones. `RenderKeeps` is what a
  render with its two effects does to a choice, once for loads, installs and reloads.
- `BinaryStaysWhole`, for any number of starts and with or without a published digest.
  `Verified` says of all bytes on their way, in the cache and on the host that they
  were accepted. `Undisturbed`, as long as nothing broke off and no two starts met
  before the host had a whole executable, says so of one start at a time: what the
  file in the cache and the file on the host are at each of its steps, and that an
  scp that outlived its start still copies the whole file.
- `BackupsStayApart`, for any projects and bounds, with the hypothesis `~Crosses`, without
  which TLC finds `BackupsApart` violated (see "Runs"). `ProjectInv` says of every
  request to the database which key and text it has, or will have when the database is
  open (`Proper`), that calls, restores, the timer and the copy are of the project
  shown (`OneProject`), and that no delete under way is of a record still owed.
- `ChordsRun`, for any keys, commands in use and answers of the palette; the table
  of bindings is that of the code (`BindingTable`) and `KeyboardAssumption` says that a query
  may be empty and bars open panels there are. That
  no chord was missed (`ChordRuns`) says nothing of what is kept between two strokes:
  `KeyboardInv` says that what is pending is one stroke that begins a chord in use, and that the
  stroke typed last, if it begins one, is what is pending. `OneStroke` and `TwoStrokes` are
  what resolving does to inputs of either length, and `ChordActive` that a chord in use
  is on whenever keys are not suppressed.
- `ReadyIsOpen`, the safety half of `OneShell`, for any number of sockets: by `TerminalInv`
  every socket that was replaced is closing or closed, so that only the last one
  ever opens, and one that closes late takes the status from ready, never to it.
- `RowsCurrent`, that `TreeCurrent` is an invariant, for any
  directories, sessions and number of resets. The assumption is `TreeShape`: the root is
  no directory and each directory has a parent, which need not even lead to the root;
  sessions are numbers and there is room for the generation a tree starts with.
  `TreeCurrent` alone is not inductive, because the answer for a directory fills its
  children too: one of them could be loading or have failed, were it known before its
  parent was listed. `KnownBelowLoaded` says it is not, and `OneListing` that of the
  listings that are not stale one belongs to each directory that is loading, so that an
  answer comes to a directory that has no rows. The listing answered and
  the children it fills are treated apart, by the lemmas about `Fill` and `Loaded`.
- `OneEditor`, that `EditorCurrent` is an invariant, for any paths,
  sessions and number of times the pane's effect runs. The assumption is `PathsNamed`:
  "none" is not a path, and `MaxEffects` is a number. `EditorCurrent` alone is not inductive: what a continuation creates is
  what it has waited with. `WaitsCurrent` says that the wait of the effect in charge
  has the pane's path and the window's session, `WaitsOnce` that it is the only one of its
  effect and is gone when the editor is there, so that no second one creates an editor beside
  the first or shows an error over it. The number of the effect only grows, so no wait that
  was left behind is ever in charge again.

`TextProofs` is about what `SemanticTokens` and `TextEdits` compute, for any texts, tokens and
numbers of them. Its facts about sums, sorting and concatenation are inductions, which it
takes from `SequenceLemmas`: the library's induction theorems have a predicate as
parameter, which cannot be instantiated here, but `SetInduction` speaks of a set of
naturals, given to it as a value, and rests on the library's statement that < on Nat is
well-founded, in the form `WFMin`, which has no such parameter. A sum over the places of a text is
`MapThenSumSet`, whose recursive function takes the places in an order of its own: `Sums`
says what such a function has to satisfy, `SumsExist` and `SumsOnly` that there is one and that the
order makes no difference. `FlattenSeq` is treated likewise, from its own recursion.

- `TokensReadBack`, from `HighlightAssumption`: names of types are sequences and all
  modifiers fit into a number (`MaxUint` is 2^32 - 1 in the code). `TokensExact` says of any
  payload that what Monaco reads of the array, adding up differences, is the tokens taken,
  each as often as it was named and in the order of the text. The sort is stable
  by its definition with ranks, which are a bijection of places (`RanksArePlaces`); what is
  decoded of what was encoded adds up to it again (`DecodeReads`); each difference is a `Uint`
  because the order is that of the text. `HighlightInv` adds that Monaco has nothing while a
  request is under way.
- `TextStaysExact`, from `TextAssumption`: every character has a number of bytes and of
  code units, and a text refused is no text. `TextExact` is inductive with the types
  (`TextInv`), since it says itself what the batches so far give; the work is in
  what a step computes. Widths are positive, so an offset in code units names one place
  (`WidthIncreases`, `AtItsOffset`), and so does a position, whatever the line it is on
  (`AtItsPosition`). An edit in one place is then carried out by either program as the tab
  did it (`OneChange`); of two, the later goes first, and the place of the earlier is the same
  in a text that differs only behind it (`EarlierChange`, from `AgreeOnPlaces`). The
  batches are a fold that one more batch continues (`OneMoreStep`). A chunk ends between two
  characters, further on than it began (`CutAtBoundary`), and the bytes between two boundaries decode to
  the characters between them (`BetweenBoundaries`); only the first chunk can lose a mark, and a
  file that had none is the base text.

The last section of `WindowProofs` is about `MCWindow` as TLC runs it.

- `WindowTypes`: the nine type invariants, for whatever part runs, with no
  hypothesis. The types of most parts need the invariant of the part, for instance
  that a shortcut's pending stroke is one of the table, or that an opened editor's session
  is one there is; those of the backups hold with `Crosses` too.
- `WindowSafe`: seven of the eight safety invariants of the run `Window` at once (the eighth,
  `BackupsApart`, has the hypothesis `~Crosses` and is `BackupsStayApart`). `WindowInv` is the
  conjunction of the inductive invariants of the parts; `EachPart` says that a step of the
  window is a step of each part or leaves its variables alone, which is why it is kept.

Each module states its assumption (`TreeAssumption`, `PathsAssumption`,
`SessionAssumption`, and so on), and TLC evaluates it in the run of that module;
the theorems of `WindowProofs` and `TextProofs` are about properties the run `Window` checks.
Every inductive invariant above was checked with TLC on an instance too (of `TextInv` all but the
set its batches are taken from, which TLC cannot enumerate). There are 33 theorems and 627 lemmas.

Every safety invariant that a passing run checks is stated by a theorem. Only
model-checked: `NothingOverwritten`, `EditsTracked` and, with overlapping restores, `EditsHeld`,
which are false and have their findings; and liveness, since fairness and ENABLED are
out of the prover's reach (`AwaitSettles`, `OpenSettles`, `SaveAnswered`, `ReconnectEnds`,
`Settles`, `EditBackedUp`, `ExpandSettles`, `LoaderSettles` and the half of `OneShell` that says a shell
left behind ends).

## Not modelled, and why

- Payloads of requests, other than what a save needs; logging; the `continue` for
  another project id or peer in the chunk loop, which no server here exercises.
- `saveMode: 'file'` and truncated or binary files: the tab then saves with PUT from the
  start, which `OpenForPut` covers as far as the file is concerned.
- `buffer.sync`, which lists versions and puts what it opened into `opened_buffers`.
- Wrapping of `u32` message ids, and a misread frame that happens to decode.
- `close()` of the command client, which nothing calls, and its branch for messages that
  are no JSON, which the gateway never sends; `file.open`, `file.save` and their streaming,
  which no caller in the page uses.
- Two browser tabs on one database. `HotExit` has one project, `Projects` two but no texts.
- Two sessions on one host: each has its own client and the model's outside
  changes stand for the other's.
- CRLF in `TextEdits`, which Monaco normalises, what Monaco makes of the mark a file opened
  over HTTP still has in its content, and `stream_file`, of which nothing in the page
  is a caller.
- Icon themes, which are the program of `Themes` over other families. The tables from
  file names to icons and languages, previews, markup and styles: functions of their
  argument whose only specification is the table itself.
- What a theme looks like and its validation; the rows, icons and menus of the tree; options
  and grammars of the editor; the bytes and the size of the terminal, which the gateway
  does not resize.
- Titles, aliases and ranking in the palette (`Matching` gives the rows a query leaves).
- HTTP argument checks, the password, static files and configuration: they keep no state.

## Plan

The parts of the code that keep state are modelled, and every safety property about
them that is true is proved. What is left:

1. `HotExit` to an abstract store of what the user typed, as `BufferSave` to `CheckedStore`.
2. `TextEdits` with CRLF, once what Monaco makes of it is modelled.
