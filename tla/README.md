# Verification of files-workbench-core

TLA+ modules, TLC configurations and TLAPS proofs about the parts of
files-workbench-core that keep state: the search index and the three sources that
feed it, its subscribers and searches, the management of the indexer process and of
its service, the requests that change files, the directory-size cache, the
`.directory` files, the installed plugins and the client's queue of operations.
`PROJECT.json` lists components, runs, mutants, findings, hazards, theorems and, for
every definition, the lines it stands for.

Paths below are relative to the repository; `indexer/` is `server/indexer/`.

## The system

Three kinds of process run.

* **core** (`server/`), the Go server of the application: HTTP handlers on a data
  port (reads) and a control port (changes).
* **fw-indexer** (`server/cmd/fw-indexer`, `indexer/`), a separate process with the
  search index. core adopts one that is already running or spawns one.
* the **client** (`src/`), JavaScript in a browser or in Electron, with a
  service worker that belongs to the host application.

### Inventory

| Part | State | Operations | What is hard |
|---|---|---|---|
| Index store `indexer/store.go`, `content_store.go` | SQLite tables `files`, `content_fts`, `content_meta`; one connection | Upsert, DeleteSubtree with a cascade trigger, Batch (transactions of 5000 rows), FilesNeedingContent, IndexContent, MarkContentSkipped | row ids come back after a delete; statements of several goroutines interleave; a transaction holds the only connection |
| Index service `service.go`, `source.go`, `entry.go` | subscribers, status per root | Start, indexRoot, consume/applyChange, Subscribe/fanout, HTTP | walk and live changes at the same time; slow subscribers |
| Content scanner `scanner.go`, `content.go`, `metadata.go` | a batch of candidates, a running total | query, extract, store; size budget | everything it read may be out of date when it writes |
| Portable source `portable_source.go`, `walk.go` | `watched`, the fsnotify watches, the change channel | Watch, addTree, addWatch, handle, dropWatch, Walk | a tree that changes under the walk; notifications by directory; bounded queues |
| Search `search.go` | none | query to SQL | paging against a changing index |
| Windows source `source_windows.go`, `usn_windows.go` | journal cursor on disk, path cache | tailVolume | cursor ahead of what was applied, stale paths, a truncated journal |
| macOS source `source_darwin.go`, `fsevents_darwin.go`: written, and not wired in (`source_select_darwin.go` returns the portable source) | event cursor on disk | onBatch, rescan, resume | drops while the cursor advances |
| Index manager `server/indexer_proxy.go`, `main.go` | child process, `shutdown`, `adopted` | probe, adopt, supervise, stop, proxy | a stop between two starts; two cores at once; an address that is taken |
| fw-indexer command, service managers `cmd/`, `server/service/` | the installed service | run, install, uninstall, status | external commands that fail half-way |
| Directory-size cache `fs.go:25-133` | sync.Map of walks and results | getDirSizeProgress, getDirSize, invalidateDirSize | results out of date, expiry, walks that give up |
| File-system requests `fs.go` | the disk | create, write, rename, move, copy, delete, trash | check-then-act, several paths of which one fails, cross-device moves |
| Path protection `permissions.go`, `blacklist.go` | none | classification | none |
| Archives `archive.go` | none | list, extract, compress | external tools |
| Customization and pins `customization.go` | `.directory` files | get, put, patch, pin | lost updates, round trip of the format |
| Plugins `plugins_install.go`, `plugins_serve.go`, `plugin_host.go` | installed plugins, `state.json`, registry cache | install, uninstall, enable, serve, call | swap of directories, lost updates, crash in between |
| Preferences, performance log | one file each | read, write | lost updates |
| Media, thumbnails, details, explorer | thumbnails on disk | read | external tools |
| Client queue `src/sw-queue.js` | pending promises, local copies of operations | enqueue, execute, clear, answers | double execution, answers that come late or to nobody |
| Other client modules | none | fetch wrappers | none |

Interaction: handlers call the cache directly; core talks to fw-indexer over HTTP;
inside fw-indexer the watcher sends changes through a channel of 256 to the
consumer, the walk of each root, the consumer and the scanner meet at the one
database connection, and the consumer copies changes to subscribers.

What makes each part correct: the index has, at rest, exactly what is on disk,
and the text of every readable file (store, service, scanner, sources); a subscriber
hears of changes in order, and a search that pages shows every row; the cache
never presents a size that a finished request made wrong; a core has search
whenever it can have it and leaves no process behind, and an installed service runs
with what was installed last; each file-system request loses nothing and says what
it did; an edit of `.directory` keeps what it does not name; a plugin is installed
whole or not at all, and served with the hash of what is served; each client
promise is settled, an operation runs once and a cleared one not at all.

## Modules

| Module | Models | Composes |
|---|---|---|
| `ContentIndex` | store (content part), scanner, watcher and consumer in outline | |
| `LiveIndex` | portable source, walk, consumer, connection, kernel queue, changing tree | |
| `JournalFeed` | Windows and macOS sources with their journal and cursor, walk, consumer, store, subscribers, searches that page | ChangeFeed |
| `ChangeFeed` | what a subscriber is promised, abstractly | |
| `IndexManager` | cores, their supervisors and indexers, the service managers of three systems | |
| `DirSizeCache` | the cache, its walks, the requests that invalidate it | |
| `FsOps` | the requests that change files, their verdicts on paths, archives | |
| `Customization` | `.directory`, its document and pin list, what `desktop.ini` adds | |
| `PluginInstall` | staging, swap, `state.json`, what is listed and served | |
| `SwQueue` | the client queue, its service worker and the direct fetch | |
| `X_proofs` | theorems about X, for every X above but `ChangeFeed` (it is in `JournalFeed_proofs`) and `Customization` | X |
| `MCX` | instances of X for TLC | X |

Operators whose comment begins with *Mutation* are not part of a specification:
each is a faulty variant of the definition that follows it, and shows that the
property named in `PROJECT.json` notices the fault.

### ContentIndex

`files`, `fts` and `meta` are the tables; `events` and `chan` what the watcher and
the consumer have still to do; `pc`, `batch`, `total` and `text` the scanner. Every
SQL statement or transaction of the code is one action, and so is each read of the
file system: `HandleEvent` (lstat in `handle`), `ApplyChange`, `QueryBatch`,
`SumBytes`, `Extract` (reads the file), `StoreResult` (IndexContent or
MarkContentSkipped). A version stands for a file's bytes and its mtime together: a
write changes both, a rename carries both along (mtime is stored in nanoseconds,
so no two writes share one). A new row's id is one above the largest in use, which
is what SQLite does for `INTEGER PRIMARY KEY` without `AUTOINCREMENT`.

Why a file was not indexed is a history the code does not keep (`content_meta` says
only that it was not); the properties need it.

### LiveIndex

Paths are sequences of names. `tree` is the disk, `kwatch` the kernel's watches:
`kwatch[d]` is the name under which the watch on directory d reports, which differs
from d after a directory above it was renamed. `watched` is the map of the same
name in `portableWatch`. A walk, the watcher's or the service's, is a stack of
steps (stat, use, watch, list), so the user may act between the listing of a
directory and the lstat of an entry, and between that and its use. A listing says
which entries are directories, as `os.ReadDir` does, and the walk goes down into what
the listing called one, whatever the entry is by then. `held` says
that the walk's transaction has the connection: the consumer waits. `suspect` is a
history of the directories put under watch while a notification that they are gone was
still queued; two properties except what is below one.

Of fsnotify and inotify it is assumed that a notification names the directory as
it was watched, that a moved or removed directory loses its own watch at once, and
that the directories below it keep theirs. (The first part of this is favourable to
the code: the real library drops the watch when it reads the notification.) Unless
`Overflow` is set, the user waits when the queue is full.

### DirSizeCache

The size of a directory is the set of files counted, so that a wrong size is a set
that differs from what is on disk. Each operation on the sync.Map and each file a walk
visits or a request changes is one action. A request takes away the paths `todo` and
makes the paths `making`, files or directories, one or several: a copy only makes, a
delete or trash only takes away, a move does both, by a rename that is one step or file
by file. Only when it is through does it drop the entries `due`; one that fails drops
none. `WriteFile` stands for what changes a size and invalidates nothing:
`handleFsWriteFile`, an archive being written, a file out of an archive. `missed` is a
history of the entries that became wrong without any request being about to drop them.
The clock is not modelled: a result may expire and an unfinished walk give up at any
time. `Unusual` switches on the blocking variant, writes, and requests that fail
half-way.

### JournalFeed and ChangeFeed

`journal` is the log the OS keeps, `pos` how far the reader has read, `batch` and
`pending` what it has still to convert and to send, `cursor` what a restart resumes
from. A record has a path (all macOS reports) and a directory with a name (what Windows
reports); `cache` is `pathCache` of `tailVolume`. `Convert` stats the path as it is by
then, `Send` waits for room (Windows), `DropChange` is the other branch of `emit`
(macOS), `SaveCursor` comes after the last send of a batch. `Crash` ends the indexer at
any point, with a cursor that may have become unreadable if it was being written. A
macOS cursor of 0 counts as none. The macOS half is about code that is written and not
yet wired in (`source_select_darwin.go` says so): it holds for `newDarwinSource` once
`SelectSource` returns it. `Consume` is `consume` and `applyChange`, `Fanout`
hands the change on, and `Subscribe`, `Unsubscribe` and `Deliver` are a client of
`handleSubscribe`. `Count` and `ReadRows` are the two statements of `Search`.

Three kinds of client are explored one at a time: a subscriber, a pager, or none
with more changes of the tree. `stale`, `missed` and `moved` are histories of what
is lost by design or by a fault listed below, and the properties except exactly
those.

`ChangeFeed` numbers the changes in the order they are applied: a subscriber hears
increasing numbers, of changes applied already, none from before it joined.
`HearsInOrder` is the statement that `JournalFeed` implements it, with `applied`, the
last number heard and the count of numbers heard as the mapping; the buffer, the fan-out
and the drops are steps that stutter.

### IndexManager

`core[c]`, `sup[c]` and `proc[c]` are a core, its `supervise` goroutine and its
child; `proc[Service]` is the indexer the OS runs. The lock of `indexManager` makes
`Start` and `Stop` one step each; `ListenFails` is the `log.Fatalf` of `main.go`. An
indexer binds the address or ends, as `ListenAndServe` does. Backoff is a sleep of
any length.

`os` is systemd, launchd or scm. `loaded` is the configuration the service manager
holds, `runsWith` the one the process was started with; the n-th install brings
configuration n. Install is the sequence of steps of each system: `WriteDefinition`,
`Reload` (systemd) and `Activate`; on Windows `TearDown`, `CreateService`,
`StartService`. Each may fail. `TearDown` ignores that stopping or deleting the earlier
registration failed, and `CreateService` then finds it there. After a failed `Reload`
the new definition is on disk and the old one loaded, which is what a restart by
systemd, or the next install, goes by. Uninstall is `UninstallStops` and
`UninstallForgets`. `Obey` is the process that ends some time after Windows told it to.

### FsOps

`disk` is a function on the paths that exist; `info` are the `.trashinfo` files. Every
request goes through its paths one by one (`at`), and each call to the OS is an action:
`Check` and `Prepare` (the stats a handler makes together), `TryRename`, `CopyEntry` (a
directory is made, listed, and its entries copied), `RemoveEntry` (RemoveAll takes what
is empty first), `ChooseTrashName` and `WriteTrashInfo`, `AddEntry` and `ExtractEntry`
for archives. Copies, removals and extractions may fail at any entry, an extraction also
after the target was truncated; the write of a `.trashinfo` may fail and leave one
(`orphaned`); the Close of an archive's writers may fail, which the answer does not show
(`Closed`, `unclosed`). Errors of Close on a plain file, which `copyFile` and the
extractions ignore, are not modelled. `os.Rename`
refuses a destination that is a directory, also when it is the source itself, and any
error of it makes a move or a trash go on to copy; `copyFile` truncates the destination
before it reads. `TypeOK` is that the disk is a tree and that each request is at one of
its paths. Data are values, so that a lost file is a value no path has any more. A
request that runs with no other in progress is `alone`, and the properties about loss
are about those.

### Customization

Text is a sequence of characters, since escaping, trimming and the choice of the
first of two equal keys are what can go wrong. `ParseIniDoc`, `SetKey`, `DelKey` and
`Bytes` are the document; `FormatPinnedList` and `ParsePinnedList` the list of pinned
names. A request reads and edits (`Load`), cuts the file (`Open`) and writes it
(`Write`). `Load` may take a file that cannot be read for one that is not there, as
`loadOrSeedDirectoryDoc` does; `ParseIniDoc` stops at a line that is too long; `Bytes`
writes texts as they are, so that one with a line break comes back as several lines.
(A text that makes its line look like a header or a comment is not among the inputs.)
The reference is a map: `Asked` says what an edit does to the value of a key,
`AskedPins` what it does to a list of names, and `QuietFileIsAsAsked` compares.

### PluginInstall

`plugins` is the directory of third-party plugins with `<id>` and `<id>.installing` of
each: its files by name, and what its manifest says. The steps of `installFromDir` and of
the uninstall are actions; a RemoveAll goes part by part and may stop at any, a copy, the
manifest and the rename may fail, and `Crash` ends the server between any two steps. An
answer is `ok`; `unsaved`, an ok although `state.json` could not be read or written;
`failed`; or `lost`, an error after the removal of what was installed had begun.
`state.json` is cut and then written, and either may fail; `wanted` is what the writes
of it were to leave, from nothing after one that was cut short. `Served` is what
`scanServedPlugins` lists, `Artifact` what a listed URL leads to, with the names the
endpoint serves.

### SwQueue

A function of the class runs to its end or to its first `await`, which is one action.
The service worker's script belongs to the host application: of it only what the page
relies on is modelled (messages in order, ENQUEUE appends, EXECUTE drains, CLEAR
empties, each operation is answered once), and the browser may end it. `calls` counts
the requests made for an operation by either of them. A timer is a step that may
come at any time while the promise waits; `TypeOK` says that whatever waits has
one. An `execute` names operations it has and was not given before: `execute([])`, which
posts EXECUTE all the same, and a second `execute` of one id are left out.

## Runs

Sizes are those of the configurations; every run ends within the five minutes with
two workers. `CHECK_DEADLOCK FALSE` is set everywhere because the systems really
stop: each bound ends the user's actions, and afterwards there is nothing to do.

| Run | Question | Result |
|---|---|---|
| `content` | Is what is recorded as examined examined as it is, and is everything readable found at rest? (no renames) | holds |
| `content_live` | Do the content tables agree, do new files respect the budget, does the backlog drain? (renames, growing text) | holds; the budget with the proviso that no text was replaced in the batch, the backlog under fairness |
| `content_id_reuse` | Is everything readable found at rest, with renames? | violated |
| `live` | At rest, is everything in the index, nothing that is gone from the root, and every directory watched? | holds with the provisos named below |
| `live_fair` | Does the index catch up and stay right, whatever rows an earlier run left? | holds under fairness |
| `dirsize` | Is a shared walk's result right wherever requests drop the entries they know of? | holds |
| `manager` | Is no child left behind, does the service run with the last configuration, and does search come back to a core that supervises or adopted? | holds, the last two under fairness |
| `fsops` | Does a request that nothing disturbs lose anything, does an answer without error tell the truth, does the trash know where its files came from? | holds with the provisos named below |
| `plugins` | What is there after an install or uninstall that failed, crashed or was answered ok, is the served hash that of the file, is `state.json` what was answered? | holds where requests do not overlap on one plugin, or on the state, and with the provisos named below |
| `customization` | Has the file what was asked, is everything else as it was, does the look survive the first edit? | holds where requests do not overlap, and with the provisos named below |
| `feed` | On Windows and macOS, is the index complete and exact at rest after crashes and drops, do pages show every row, does a subscriber hear in order? | holds with the provisos named below |
| `swqueue` | Does an operation run once, does a cleared one never run, and is a timeout without a request explained? | holds with the provisos named below |

One run is violated, and is a finding that quotes the comment it contradicts in
`PROJECT.json`: a file renamed while it is being scanned may never be searchable: the
row of its new name takes over the id of the old one and is recorded as examined by
the scan that could no longer read it.

### Disagreements without a run of their own

The provisos of the properties are places where the code does not do what it, its
comments or its documents say. In the first table each is reproduced by changing the
constants named, and the property named is then violated.

| Change | Property | What disagrees |
|---|---|---|
| `MCLiveIndex` with `MaxEvents = 1` and `Overflow = TRUE` | `NoBlindDirectory`; without it in the .cfg, `QuietIndexIsComplete` | a notification the kernel drops is logged (`portable_source.go:138`) and no rescan follows; `service.go:58-59` says no change is missed |
| `MCLiveIndex` with `Path <- FlatPath`, `DirPath <- FlatPath`: a directory may hold directories | `NoBlindDirectory` | `dropWatch` forgets only the renamed directory's own name (`portable_source.go:182`); the names below stay in `watched`, and a directory created there is not watched, against `:154-155` |
| `MCLiveIndex` with `FlatPath`, `FlatDir`, `Fold <- SameButCase` | `QuietIndexIsComplete` | `LIKE` ignores case, so removing `a/` removes the rows below `A/` (`store.go:184` against `:179`) |
| `MCFsOps` with `Slot = {r1}`, `Request <- InPlaceRequests`, `Faults = {}`, `MaxRequests = 1`, `INVARIANT MovedIsThere` | `MovedIsThere` | any error of `os.Rename`, also the one for a directory moved to where it is, is taken for another device (`fs.go:682-683`, "Cross-device move: copy then delete"); `copyFile` then truncates every file before reading it (`fs.go:1012`), `RemoveAll` takes the rest, and the request answers that it moved |
| `MCDirSizeCache` with `File = {a}`, `Dir = {top}`, `Target = {a}`, `INVARIANT SettledSizeIsRight` and `Unusual = {"blocking"}` | `SettledSizeIsRight` | `getDirSize` stores its result also when the entry was invalidated while it walked (`fs.go:122`), against `fs.go:28` |
| the same with `Unusual = {"write"}` | `SettledSizeIsRight` | `handleFsWriteFile` (`fs.go:611`), `handleFsCompress` and `handleFsDecompress` (`archive.go:61`, `:110`) invalidate nothing, against `fs.go:28` |
| the same with `Unusual = {"failure"}` | `SettledSizeIsRight` | a request that fails when it has changed something returns before it invalidates (`fs.go:778`, `:685`, `:734`) |
| the same with `Unusual = {}`, `File = {a, b}`, `Dir = {top, sub}`, `Target = {b}` | `SettledSizeIsRight` | a change two levels down leaves the outer directory's entry in place (`fs.go:128`) |

The others are seen by dropping a proviso from the property named.

| Property, proviso | What disagrees |
|---|---|
| `QuietRootIsExact`, entries of the root | a file the walk has seen in a directory created meanwhile, deleted before that directory is watched, keeps its row (`service.go:66` against `:58-59`; `portable_source.go:68-69` concedes a related gap) |
| `NoBlindDirectory` and `QuietIndexIsComplete`, `Doubtful` (five changes, `Path` and `DirPath` both `{<<1>>, <<1, 1>>}`) | a directory removed and made again while its removal is still queued is watched anew, and then `dropWatch` removes by name (`portable_source.go:182`), so that the late notification takes the new watch. A directory removed from it before it is added again stays in `watched`, and one made there later is passed over (`:111`), against `service.go:58` and `:154-155` |
| `SearchComesBack`, `sup[c] = "failed"` | one error of `Start` ends supervision for good (`indexer_proxy.go:112` against `:91-92`) |
| `NoOrphan`, cores that come by `stop` | `log.Fatalf` (`main.go:112`) ends core without stopping its child, against `indexer_proxy.go:133` |
| `AdopterKeepsSearch`, systemd and launchd | on Windows install sets no recovery actions, so a crashed service stays down (`service_windows.go:52`) |
| `ConfigTakesEffect`, `kept` | an install whose `daemon-reload` fails (`service_linux.go:53`), or, on Windows, whose Delete failed unnoticed (`service_windows.go:46-49`), leaves the service with the earlier configuration, which systemd also restarts it with; a reinstall over a running service (Linux, `enable --now`) or a loaded one (macOS, `load -w`) leaves it running with the earlier configuration until it ends; `docs/DAEMON_PLAN.md:141` says a re-install stops and recreates it, which is so on Windows only |
| `CompleteAtRest`, `moved` | only the directory itself is indexed under its new name on Windows and macOS; what is below it keeps its rows under the old name, or loses them, until it changes; the path cache makes later records of that directory wrong too (`source_windows.go:134`) |
| `CompleteAtRest`, `missed` | a change that finds the channel full is dropped and the cursor moves past it (`source_darwin.go:249`; `docs/MACOS_BACKEND_PLAN.md` lists it as a known gap) |
| `ExactAtRest`, `stale` | removals that were sent and not applied when the indexer ended, that were dropped, or that were skipped since the cursor could not be used, leave their rows for good, against `source_windows.go:119` |
| `PagingSeesAll`, `shrank`, `split`, `grew` | pages by offset (`search.go:17`) miss or repeat rows when the index changes, and count and page are two statements |
| `AloneLosesNothing`, `SameBase` | a move of two paths with one base name overwrites the first with the second (`fs.go:682`) |
| `AloneLosesNothing`, `Overlaps`; `OkMeansDone`, `InPlace` | a directory moved to where it is loses its files: the row of `MovedIsThere` above |
| `AloneLosesNothing`, `Overlaps` (move) | a directory `d/d` moved up onto its parent cannot be renamed, so it is copied: what it has in a `d` of its own lands below the source, and `RemoveAll` takes it with the source (`fs.go:689`) |
| `AloneLosesNothing`, `Overlaps` (copy) | a copy of `a` to where it is, together with `a (copy)`, overwrites the latter before it is copied (`fs.go:728-731`) |
| `AloneLosesNothing`, `Overlaps` (compress); `OkMeansDone`, `dest \notin Paths` | an archive made over a file that it is to hold truncates it (`archive.go:61`) |
| `AloneLosesNothing`, `HoldsItself` | an archive with an entry that lands on the archive is overwritten while it is read (`archive.go:241`) |
| `AloneLosesNothing`, `undone` | a trash whose removal fails half-way deletes the copy of what it has removed (`fs.go:953-956`) |
| `AloneLosesNothing`, `alone` | a file created between the stat and the rename is overwritten (`fs.go:642`), a file written during a cross-device move is lost |
| `AloneLosesNothing`, copy keeps `given` only | a second copy overwrites `x (copy)` (`fs.go:727-731`, whose comment says "Avoid overwrite") |
| `TrashTellsOrigin`, `contested` | two requests that choose one name in the trash overwrite each other's `.trashinfo` (`fs.go:923`) |
| `OkMeansDone`, `unclosed` | the errors of the deferred Close of the zip, tar and gzip writers are dropped (`archive.go:188`, `:291-301`), though Close writes the end of the archive: on a full disk the answer is ok and nothing can read the archive |
| `TrashTellsOrigin`, `orphaned` | a write of the `.trashinfo` that fails is not taken back (`fs.go:943-945`): a record without a file stays, and the name is passed over from then on |
| `ServedHashIsOnDisk`, `mixed`, `broken` | two installs of one plugin share the staging directory; a crash between removing and renaming leaves `<id>.installing`, which is listed under the plugin's id although its URL answers 404 (`plugins_install.go:234`, `:265`), against `:26` |
| `ServedHashIsOnDisk`, `AllowedArtifacts` | a package whose client entry has another name than `client.js` is installed and listed, and its URL answers 404 (`plugins_serve.go:50`, `:133` against `plugins_install.go:209`); with the entry `plugin.json` the manifest is written over the client |
| `InstallIsAtomic`, `lost` | "swap in atomically-ish" (`plugins_install.go:232`) removes what is installed before it renames: if the rename fails, or the uninstall's removal (`:484`), the previous install is gone, wholly or in part; so it is after a crash in between |
| `StateIsWhatWasAnswered`, `misread` | `state.json` is read and written without a lock (`plugins_install.go:510`), and any error of reading it is taken for an empty one, which the next change writes (`:62`) |
| `StateIsWhatWasAnswered`, `wanted = {}` | a write of it that fails or is cut short by a crash leaves a file that reads as nothing disabled (`:76`): every plugin disabled before is enabled; install and uninstall answer ok all the same (`:275`, `:491`) |
| `QuietFileIsAsAsked`, `misread`, `cut` | `.directory` is read and written without a lock (`customization.go:388`); a failed write leaves it empty |
| `QuietFileIsAsAsked`, `misread`; `EditIsLossless`, `blind` | any error of reading `.directory`, not only that it is missing, makes a fresh document that is written over it and answered ok (`customization.go:363`), against "losslessly" (`:422`) |
| `EditIsLossless`, `HasLong` | what follows a line over 4 MiB is dropped at the next edit: the scanner stops and `sc.Err` is not asked (`customization.go:240`) |
| `QuietFileIsAsAsked`, `garbled`; `EditIsLossless` and `FirstEditKeepsLook`, `HasBreak` | a line break in a value or a pinned name is written as it is (`customization.go:350`, `:506-512`) and read back as another line; a name's rest is lost to the list |
| `QuietFileIsAsAsked`, `twice` | removing a key that the file has twice uncovers the second, against "fields set to \"\" are removed" (`customization.go:426`) |
| `QuietFileIsAsAsked`, `Space` in `garbled` | the value of `Pinned` is trimmed, so a first name that starts with a blank does not round-trip, against `customization.go:469`: after pin " b", pin "a", unpin " b" the list still has "b" |
| `FirstEditKeepsLook`, names the request does not touch | an icon removed by the first PUT still comes from `desktop.ini` |
| `RunsAtMostOnce`, `early` | an operation enqueued with a controller but before `ready` is fetched directly and run again at the next EXECUTE (`sw-queue.js:80`) |
| `TimeoutIsExplained`, `unposted` | an operation enqueued without a controller and executed once the page is ready is never run (`sw-queue.js:80` against `:87`) |

More follow from the code as modelled, though no property states them: content
rows written under the id of a row deleted meanwhile stay (`content_store.go:61`
against `store.go:119`; harmless until the id is used again); a new file may pass the
budget when another file's text grew in the same batch (`scanner.go:99` against
`:85-86`), which is the proviso of `NewFilesRespectBudget`; live rows of a subtree
found by the watcher carry the new directory as their volume
(`portable_source.go:157` against `walk.go:55-56`); two callers who find an
expired size may each start a walk (`fs.go:66` against `:55`); without service workers
`enqueue` throws (`sw-queue.js:80`) where `:87` promises a fallback, and a second
`execute` of one id leaves the first promise without a timer that settles it; the
regenerated manifest (`plugins_install.go:250-257`) has no engines or dependencies,
which `plugins_serve.go:41-43` reads; the registry cache is shared by
requests without a lock (`plugins_install.go:394-432`); the blank line before a new
group is missing behind a key (`customization.go:322` against `:292`); `parseINI`
stops at a line of 64 KiB where `parseIniDoc` takes 4 MiB (`customization.go:164`,
`:239`), so a list of pins longer than that is kept and not shown; a failed
extraction removes a destination that was there and empty (`archive.go:159`); a
directory copied or zipped into itself finds its own copies; errors of Close are
ignored in `copyFile` and in the extractions.

That a core which adopted another core's child is left without search when that core
ends is a limitation `docs/DAEMON_PLAN.md:144-148` describes and accepts, so
`AdopterKeepsSearch` asks only about an indexer the OS runs.

### Bounds

* `ContentIndex`: `MaxOps` 4 or 5 user operations suffice for a row to be deleted,
  its id reused and the file rewritten during one batch; two candidates per batch
  make the running total and the order of candidates matter; a channel of two and
  three notifications let the disk, the watcher and the store disagree by several
  versions. Versions are numbered by writes, so no counter is unbounded.
* `LiveIndex`: three changes (two where noted) at any point of the walk, the seeding
  or the handling. `BothPath` has a directory in a directory and a second one a file
  can move to, so that subtrees appear, move and go; `RowsPerTx` of one or two makes
  the connection change hands during the walk, and a channel of one makes the watcher
  wait. `MaxEvents` is the queue of the kernel. Siblings are visited in one fixed
  order. The disagreement about `Doubtful` needs five changes, more than the runs make;
  with the proviso the safety properties hold for six changes of one directory in
  another and for five of three directories in each other.
* `DirSizeCache`: two walks in memory, two callers, one request or write, on a file, on
  the directory beside it or on both; enough for a walk to be invalidated, replaced, to
  give up and to expire while another runs. Jobs and callers are interchangeable
  (symmetry).
* `IndexManager`: two cores beside the service, two crashes, two installs: a second
  install meets whatever the first, an uninstall or a crash left. More would only
  repeat the contest for the one address.
* `JournalFeed`: two names and two directories, so that a name is taken over; three
  changes without a client, two with one; one crash or dropped history (none during a
  search, which would fail); channels of one, so that they are full; pages of one
  row. A file has two versions, so that an old one can be told from the present one.
* `FsOps`: two requests out of 25, at a time or in turn, on two devices, with trees of
  two levels; a third request would find no other state of the disk that matters to
  a property about one request. `MaxDepth` is the longest path the file system takes.
  Numbers of names in the trash go to `MaxRequests + 3`, more than the requests can use up.
* `PluginInstall`: three requests, two at a time, one crash: an install, one that
  disturbs it, and one that finds what they left. Calls that fail are not bounded.
* `Customization`: three requests, two at a time, and one fault (`MaxFaults`: a crash, a
  read or a write that fails); files with every kind of repetition the format has.
* `SwQueue`: two operations, one without an endpoint, one clear, one end of the worker.

### Fairness

Weak fairness of each goroutine that loops until shutdown (watcher, consumer, scanner,
walk, supervise), of a process that was started (it binds or ends), of `Exit` after
`Stop`, and of `Restart`, the OS restarting its service (`Restart=on-failure` with five
seconds between attempts, `server/service/service_linux.go:108-109`, and launchd's
KeepAlive). Nothing is assumed of the user, of crashes, of installs, or of stops and
launches of cores. For `ApplyChange` in `LiveIndex` weak fairness is enough although the
walk holds the connection on and off: the walk ends. The other modules state no
liveness: what has to happen in them (a handler answers, a timer fires) is one step of
the runtime.

## Proofs

All theorems hold for every value of the constants that satisfies the named
assumptions, which each run evaluates for its own: sets of files, callers, requests
and cores of any size, any bound, any queue. The assumptions (`ConstantsAssumption`,
`SentinelAssumption`, `CacheAssumption`, `ManagerAssumption`, `FeedAssumption`,
`QueueAssumption`, `InstallAssumption`, `FsAssumption`, `DiskAssumption`,
`PathAssumption`, `NothingAssumption`, `BoundAssumption`) say that capacities are
positive, that a value standing for nothing is not something, that paths are
sequences whose parent is a node, that the disk begins as a tree, and that a request
has the paths its kind has. A theorem that needs more names it: `~Renames`,
`~Overflow`, `~OldRows`.

Each module follows one scheme: an inductive invariant (its parts named for what they
say), a lemma for each action, and the properties as consequences.

* `ContentIndex_proofs`
  * `TypeCorrect`. `StoreResultEffect` reduces the four outcomes of a store to what
    they do to the two tables, and is what the later proofs use.
  * `TextAlwaysMatchesMeta`: inductive with the types alone.
  * `IdsAreUnique`: strengthened by the distinctness of the candidates' ids, which
    come from one query.
  * `ExaminedStaysCurrent`, for `~Renames`: the invariant `FreshInv` says that every
    copy of a version that store, channel and scanner hold belongs to the path it
    was written at, that the disk has the latest version of each path, and that a
    `content_meta` row vouches for text at least as new as its mtime. Without renames
    a version never leaves its path; with renames an id, and with it the record, can
    pass to another file, as `content_id_reuse` shows.
  * `QuietIndexIsSearchable`, for `~Renames` (and no budget, as the property says): on
    top of `FreshInv`, every path has a notification under way, or its last change on
    the channel carries what is on disk, or its row does (the event makes the watcher
    look at the file as it is, so the last look is right). Nothing under way leaves the
    last case, and a row whose mtime moved on is a candidate again.
  * `BudgetIsRespected`: the sum of the stored bytes is a function over a table of any
    size. Replacing one entry changes the sum by the difference; the provers cannot
    use an induction principle, so the lemma takes the least number of rows at which
    it fails and finds a smaller one.
* `LiveIndex_proofs`
  * `TypeCorrect`: `LiveInv` adds to the types which steps a walk may still have: the
    watcher's walk lists no root, a use that follows a stat has the row it saw, the
    service's walk has something to use only while it holds the connection.
  * `RootIsExact`, `RootIsComplete`, for `~Overflow` (and `~OldRows` for the first):
    `Seeing` says, from the moment the root is watched, of each entry of the root that
    the last to hear of it knows what it is. The last to hear is the queue of
    notifications if it has one about the entry, else the watcher's stat or use, else
    the channel, else the index, beside which the walk of the root may still come by
    (`Heard`, `Statted`, `Used`, `Changed`, `Indexed`). Every action moves an entry
    along that chain or leaves it. Before the root is watched nothing happened at all
    (`Blind`), since seeding comes before the walk. Rows below the root are out of these
    two for a reason: how they get lost is in the table of disagreements.
  * `NothingIsBlind`, for `~Overflow` and `FlatMoves` (no directory that holds a directory
    is renamed: the names below it would stay in `watched`): directories however deep.
    That a directory at rest is watched is not inductive, since most of the time some are
    not. `SightInv` says what such a directory waits for: a queued "create" of it or of a
    directory above it, or a step of `addTree` that will come to it (`NoneForgotten`). For
    that to be kept, who reported an event must still see or be told gone after it
    (`EventsSeen`), a "gone" of what exists must be followed by a "create" (`MadeAgain`),
    and a name in `watched` that sees nothing must be about to be dropped
    (`KnownAndBlind`). Each part excepts what is below a suspect. The parts are stated of
    sets apart from the state (`Sees`), and each action is a lemma about these sets.
* `JournalFeed_proofs`
  * `TypeCorrect`, by `Basics`: what journal, reader, store and subscriber hold.
  * `SubscribersHearInOrder`: `JournalFeed` implements `ChangeFeed`. `SubFits` says
    that the numbers in the buffer increase, come after the last one heard and before
    the change that is about to be handed on; each step of `JournalFeed` is then a step
    of `ChangeFeed` or leaves its variables.
  * `RestIsComplete`, `RestIsExact`: `Courses` follows a path as the header of the
    module says. While the indexer is up, a record not yet converted concerns it, or
    the last change under way that bears on it has its version, or its row has
    (`OnItsWay`); while it is down, what a resume will read has the record
    (`Remembered`). `LogIsCurrent`, `CacheFits` and `RecordsFit` are what makes the last
    record of a path convert to its version on Windows, where a path is put together
    from a cache; `PendingFits` is needed because a crash loses what was pending, which
    the record must be able to make again.
  * `PagesShowEveryRow`: the position of a row is the number of rows before it. `PagerFits`
    says that of the rows there from the start those before the offset have been seen
    (unless rows were removed, which moves the others forward), and that of the rows there
    are only those have (unless rows were added). A page reaches exactly as far as it is
    long (`PageReaches`), so the next offset keeps both.
* `SwQueue_proofs`: `QueueInv` gives each operation one place in the worker (a message
  on its way, the queue, the drained batch), and decides what becomes of it by the next
  EXECUTE or CLEAR behind that place. From it `NothingRunsTwice`, `ClearedIsForgotten`
  and `TimeoutsAreExplained`; `TypeCorrect` says that whatever waits has its timer.
* `PluginInstall_proofs`: `InstallInv` says who may be at work in the staging directory
  of a plugin, and of a request that has the plugin to itself what is in staging and in
  place at each of its steps, whichever of them fails; from it `ServedHashHolds` and
  `InstallsAreAtomic`. `StateFits` is the part for `state.json`, from which `StateHolds`.
  All properties of the run `plugins` are proved.
* `FsOps_proofs`
  * `TypeCorrect`: that each call to the OS leaves the disk a tree, for trees of any
    size. `FsInv` adds that the disk is finite, so that a listing is a sequence, and
    that what a request has still to copy or remove are paths.
  * `LosesNothing`: no request that is alone loses content, whatever is in the tree,
    however long its list of paths and wherever it fails. `AloneInv` says that while a
    request is alone nothing else is at work, and is all that the requests need which
    look whether their destination is free. For those of many steps `KeepsInvariant`
    shows that a request stays on its `Course`: at each point, what it keeps is in
    `Held(disk, Roots, X)`, the data below its roots (the paths not yet in place and the
    destinations of the others) and not below `X`, which is what it is about to write or
    to remove. `X` is the destination while a path is renamed or copied and the path
    itself while it is removed. Between the two stands `Copying`: every file below the
    path is empty, still on the list of work, or at the place where its copy belongs.
    What a step does to the disk is then a lemma about `Held` (`HeldWith`, `HeldRemove`,
    `RenamedTakes`), and the provisos of `Keeps` are what keeps roots and destinations
    apart (`MoveApart`, `CopyTargetApart`).
  * `TrashIsTold`, for `TrashLeftAlone` (clients neither remove nor move the trash or what
    lies directly in it, nor extract onto such a name): `TrashInvariant` says that each
    `.trashinfo` neither `contested` nor `orphaned` is that of a file in place, or that a request is about to
    put the file there or else to remove the `.trashinfo`, and that two requests at one
    name make it `contested`. That a name is free is looked up long before it is taken, so
    the invariant follows each request from its choice of the name to the end of its path.
* `DirSizeCache_proofs`
  * `TypeCorrect`, `SharedSizeAlwaysRight`: `Shape` says which walk may be where,
    `Tracks` that an entry no request is about to drop has counted exactly what
    exists of the files it is past. A change to such a file must therefore come with
    a pending invalidation of the entry, or be in `missed`.
  * `FlatSizesAreRight`: in a flat tree without the three complications `missed`
    stays empty, and the result is right without a proviso.
* `IndexManager_proofs`
  * `TypeCorrect`, and `NoChildIsOrphaned`. `NoOrphan` is not inductive: `Stop` kills
    nothing for a core that adopted, so the invariant adds that such a core has no
    child (`NoChildYet`).
  * `ConfigIsTheLast`: `ConfigInv` says, for each point of an install or uninstall and
    each system, how the configuration that is loaded and the one that runs relate to
    the last install. It is needed since a step that fails leaves both behind, and
    the next command starts from there: a reload that fails leaves the earlier definition
    loaded, a deletion that fails the earlier registration.

Proving found places where a model was wrong. `StartUp` of `JournalFeed` kept a cursor
of a journal that is no longer valid; a listing in `LiveIndex` did not say what it had
found, which the walk goes by; a move in `FsOps` of a directory onto itself was a rename
that did nothing, where the code goes on to copy and remove, which led to the disagreement
about `MovedIsThere`; and the name of a trashed file was one of two, where the code goes on
counting. It also found properties that hold on the instance and not in general, because
the code does not keep them: `AloneLosesNothing` for paths that overlap, and
`NoBlindDirectory` for a directory made again too soon. Their provisos are in the table of
disagreements.

Only model-checked:

* the liveness properties (`BacklogDrains`, `EventuallyComplete`, `SearchComesBack`,
  `AdopterKeepsSearch`): reasoning about fairness and ENABLED is out of the prover's
  reach;
* `QuietIndexIsComplete` below the root: it holds only where no two names differ in case
  alone, which the instance has, and needs for every depth what `Seeing` says of the
  entries of the root, with the watch of a directory taken from `SightInv`;
* `OkMeansDone`: it holds for the requests of the instance and not for all (of two copies
  that get one name, or of a path given twice, one is done and both answer ok), so a
  theorem would be about these requests;
* the properties of `Customization`: what its folds over lines and names compute for
  every input would need induction over data, which the provers cannot do.

## Not modelled

See `PROJECT.json` for each part. In the modelled ones: exclusions, several roots and
volumes, cancellation at shutdown, errors of the database and of a journal read (the
Windows reader retries one for ever), the volumes and status tables, the name index
kept by triggers, extraction of particular formats, watch limits of the OS, the
trash of Windows and macOS, 7z and rar, the payload of the customization GET, the
registry proxy, the start of a service at boot. Deletions made while the program is
stopped are not reconciled by the portable source (`docs/INDEX.md:290-292` says so),
and no property asks for it.

Left out as a whole: the plugin host and icon packs (a library call per request, no
state of their own), preferences and the performance log (one file each, written
whole, which `Customization` and `PluginInstall` already show the hazards of), media,
thumbnails, details, executables and explorer (reading and formatting, external
tools), and the client's other modules (wrappers around fetch).

## Plan

What is left, in this order:

1. `LiveIndex`: `QuietIndexIsComplete` for every depth, with `SightInv`, and the names
   below a moved directory in `watched`, so that `FlatMoves` can be dropped where the
   code is right without it.
2. `Customization`: type correctness, and that a request that fails at `Load` changes
   nothing; the rest stays with TLC.
