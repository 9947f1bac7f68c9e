# A TLA+ model of the deduplicating file server

The repository is a small file hosting service in Go: one server process
(`src/server/server.go`) that serves `signup`, `authenticate`, `upload`,
`download`, `list`, `mkdir`, `remove`, `pwd`, `cd`, `share`, `unshare` and
`chperm` over net/rpc, a command line client (`src/client/client.go`), and a
support library (`src/lib/support`). Users have a directory tree each under
`userfs`; the files in it are symbolic links to numbered files in `filestore`,
and a file with content that is already stored becomes a second link to the same
numbered file. Files can be shared with other users, for reading or for writing.

This directory holds TLA+ modules that model the server's storage, its request
handlers in one step and write by write, the RPC process around them and its
start-up, and the client program; abstract specifications of what users and
callers are promised, which the detailed ones are shown to implement; TLC
configurations that check all this, and TLAPS proofs of the safety properties and
the refinements (without their fairness) that the passing runs check.

## Inventory

### Storage and deduplication (`server.go:162-212`, `268-400`, `985-1083`)

State: the directory tree and symbolic links of `userfs`; the numbered files of
`filestore`; the SQLite tables `filedata` (filename, filehash, numowners) and
`sharedata` (sharer, sharee, origpath, shareepath, perm); the number of the next
store file (`filecount`) and its saved copy `filecount.txt`.

Operations: `uploadHelper` (store new content or link to a row with the same
hash), `sharerUpload` (unlink every sharee, upload, link every sharee again),
`remove` (take a link away, lower `numowners`, drop row and file with the last
owner; or remove an empty directory).

Hard: six pieces of state that must agree are changed one after the other, by
hand, with several error paths in between. An overwrite is a removal followed by
an upload, so the last copy of the very content being uploaded may just have
been deleted. Links of sharees lead to the same store file as the owners' links
but must not be counted in `numowners`.

Correct when: one row per content and per file; rows and store files agree;
`numowners` counts the owners' links; no link dangles; file numbers are never
given twice, across restarts too; a store file is never rewritten.

### Request handlers (`server.go:404-982`, `1086-1247`)

State: the table `userdata`, and all of storage. Operations: the twelve handlers,
the start (`main`) and the finalizer. They call the helpers above, the file
system and the database, and run one at a time (next-but-one section).

Hard: what a path means (a plain file, one that its owner shares, one that was
received) is derived at every request from rows other requests made; a sharee's
permission, too. Names in `Shared_with_me` are picked by searching for the first
that is free. Handlers stop half way on errors.

Correct when: rows of `sharedata` and the sharees' links match; only the owner
and sharees with write permission change what is stored at a path; the tree
stays a tree; names in a user's home come and go at the request of that user
and of those who share with the user only. All of it holds only as long as no
user's name begins with another's (see *Names that are apart*).

### Sessions (`server.go:90-159`, `404-441`)

State: `Cookiemap`, one random token and expiry time (1000 s) per user, in memory
only. Operations: `authenticate` sets it, `checkCookie` reads it at the start of
every other request and refuses one that has expired (it stays in the map until the
next login replaces it), a restart loses it.
Hard: a second login replaces the first; an answer with a token may be lost; a
client's user and its token come from different moments.
Correct when: a request passes only with the user's latest, unexpired token, and
a token that is over stays over.

### RPC server (`lib/support/rpc/server.go`, `reflect.go`, `internal/pool`)

State: the mutex `invokeMtx`, a `sync.Pool` of response buffers, the signal
channel. net/rpc starts a goroutine per request; `request` holds the mutex while
the handler runs and its result is encoded into a pooled buffer; the response is
written to the connection after that. `RunServer` waits for SIGINT, takes the
mutex for good, runs the finalizer and returns. Before that `main` registers each
handler by name; `RegisterHandler` looks through the types of its result and
arguments, recursively, and panics at one that cannot be sent.

Hard: types may contain themselves, so the search must remember what it has seen
without taking "seen" for "good" too early. And this is the concurrent part of
the program. The finalizer must see the last state any handler made while
requests keep arriving; every request must be answered; SIGINT must get the mutex
against a stream of requests; a response must still be intact when it is written.

### RPC client (`lib/support/rpc/client.go`)

`Call` encodes the arguments, makes one net/rpc call on a lazily dialled
connection and returns its reply or error. One call is outstanding at a time.

### Client program (`client/client.go`, `lib/support/client/cli.go`)

State: `currdir`, `user`, `sessionid`, kept by the client alone. A menu loops over
logins and signups until one succeeds; then `RunCLI` asks for the working
directory, prints a prompt, reads a command and makes one call of it, until the
input ends, a call fails or the session is over. Every path is `currdir` with what
was typed after it. Any string but `""` in a reply is an error message.

Hard: `user` and `currdir` are set before the server has agreed to a login,
`sessionid` after it; `currdir` goes stale when another session of the same user
removes the directory; a lost answer is tried again.

Correct when: `currdir` is a path that the user the client is logged in as may name,
and in nobody else's home; nothing changes in a home without a live session of its
owner or a sharer.

### Other parts

The rest of `lib/support/client` (printing, a client test),
`internal/types.go` and `rpcType` (records), `REINITIALIZE_ALL.sh` (empties
tables and directories: the initial state), and a binary archive of the SQLite
driver. `PROJECT.json` lists every part and says which of them are modelled.

## Modules

| module | models | extends |
|---|---|---|
| `Paths` | paths, `checkpath`, the guard of `Shared_with_me` | |
| `Volume` | everything on disk as one record; `remove`, `uploadHelper`, `sharerUpload` as operators from volume to volume | `Paths` |
| `Dropbox` | the server: one action per handler, start, shutdown, kill | `Volume` |
| `DropboxSafety` | its properties | `Dropbox` |
| `DropboxClaims` | sentences of the repository that do not hold | `DropboxSafety` |
| `Drive` | abstract: each user has a tree of files with contents, a received file is the sharer's file; no links, store, hashes, counts | `Paths` |
| `DropboxDrive` | `Dropbox` implements `Drive` | `DropboxSafety` |
| `DropboxSteps` | the handlers write by write, with a kill anywhere; without a kill, implements `Dropbox` | `DropboxSafety` |
| `KillClaims` | sentences that a server killed in a handler does not keep | `DropboxSteps` |
| `Clients` | client programs composed with the server; tokens, `currdir`, lost answers | `DropboxSafety` |
| `ClientClaims` | sentences about the command line that do not hold | `Clients` |
| `RpcServer` | goroutines, mutex, buffers, SIGINT; its properties | |
| `Calls` | abstract: at most one execution per call, nothing after the save, an answer for each | |
| `RpcCalls` | `RpcServer` implements `Calls` | `RpcServer` |
| `Registry` | start-up: registration of handlers and the search through types | |
| `MCDropbox`, `MCDropboxDrive`, `MCDropboxSteps`, `MCClients`, `MCRegistry` | instances for TLC | |
| `DropboxProofs` | proofs about the types of the server's state, the tables and `filestore` | `DropboxSafety` |
| `LinkProofs` | proofs about the links: the helpers of `Volume` and `sharerUpload` | `DropboxProofs` |
| `SharingProofs` | proofs about the handlers: links, shares, tree, who changes what | `LinkProofs` |
| `DriveProofs` | proof that the server implements the drive | `SharingProofs`, `DropboxDrive` |
| `StepProofs` | proofs about the states inside a handler, and that handlers taken apart do what they do in one step | `SharingProofs`, `DropboxSteps` |
| `ClientProofs` | proofs about sessions, `currdir`, and what changes without a session | `Clients` |
| `RpcServerProofs` | proofs about the RPC process, and that it implements `Calls` step by step | `RpcCalls` |
| `RegistryProofs` | proofs about the search through types | `Registry` |

How they fit together. `RpcServer` justifies the grain of `Dropbox`: its property
`HandlersAlone` says that handlers do not overlap, so `Dropbox` takes each of them
in one step, and `ImplementsCalls` says that a call happens at one moment between
start and answer, so `Clients` takes call and answer in one step. `DropboxSteps`
takes that one step apart again, for kills. `Drive` is the view from outside.

### State and actions of `Dropbox`

| variable | in the code |
|---|---|
| `vol.dirs`, `vol.link` | directories and symbolic links under `userfs` |
| `vol.store` | `filestore/fileN`, N to content |
| `vol.filedata`, `vol.sharedata` | the SQLite tables |
| `vol.filecount` | the global variable `filecount` |
| `userdata` | the table's names (passwords are the Boolean `rightPassword`) |
| `Cookiemap` | users whose entry has not expired |
| `countfile` | `filecount.txt` |
| `up` | whether the process runs |
| `reply` | what the client makes of the last answer: `ok` for `""`, `reauth`, a body, `error` for anything else |

Each handler is one action, with the guards in the code's order folded into a
condition: what fails changes nothing and answers `error`, except where the code
has already changed something; then the change is in the model too (`StoreNew`
leaves the store file when the link fails; `sharerUpload` and `removeHandler`
stop at a sharee whose link is missing and leave those before it undone).
`Reauth` stands for every request whose cookie does not pass.

Two handlers may end the server by `os.Exit(1)`, without its finalizer, for their
arguments' sake: `signup`, which enters the account before it makes the home, when there
is something at the home's path (`signupExits`, `server.go:500-504`), and an upload to
a path that another user received, for which `getPerms` finds no row (`uploadExits`,
`server.go:229-233`). Both need names of which one begins with another. They are part
of `CrashSpec`, `KillSpec` and, as a signup there or as a `Crash`, of `Clients`; `Spec`
is the server that is ended by SIGINT only.

How data is abstracted: content is a model value and SHA-1 is taken to be
injective, so a hash is its content. A path is a sequence of names that is
already cleaned: `checkpath` and most handlers clean theirs (`filepath.Abs`), and
the file system resolves the dots in those that `mkdir` and `list` pass on; the
string prefix test made on paths is kept (`HasPrefix`), because the guard of
`Shared_with_me` also refuses names that merely begin that way. Errors that only
a failing disk or database produces are left out. Errors that the arguments and the
state decide are in, but for the user names that are no names of directory entries:
`""`, `"."` and `".."` pass `signupHandler`'s tests, their `Mkdir` fails, and the server
ends. For the server that is a `Crash`; the account that stays in the table, whose
"home" is all of `userfs` or the directory above it, is not followed further.

### Names that are apart

`checkpath` tells users' trees apart by a string prefix (`server.go:136`), and `signup`
lets `alice2` in after `alice`. Requests of `alice` then pass for the whole tree of
`alice2`: they overwrite, remove, share, and leave links dangling and counts wrong. So
most of what the server promises about links, shares and trees is true only as long as
no name that signed up begins with another one's: `Apart`. This is a condition of the
properties, on the accounts there are, not an assumption on the constants: the model
has no other limit on names, any may sign up at any time, and the run *sandbox* shows
what follows. While the names are apart, users do act outside of all homes, as `alice`
in a directory `alice2` that she made; the properties hold of that too. What concerns
the store alone (`TypeOK`, `Dedup`, `StoreAgrees`, `NumberFresh`, `StoreImmutable`), the
sessions and the RPC process has no such condition.

### State and actions of the other modules

`DropboxSteps` adds `todo`, the volumes that the running handler has yet to go
through. No other handler runs meanwhile, so these "stages" are known when the
handler starts; each stage differs from the one before by one call that changes
the disk or a table. The rows a loop runs over come in any order
(`Orders`). `todo = <<>>` means that no handler runs. `LastStage(vol, todo)` is the
volume of `Dropbox` in the refinement: a handler takes effect at its first stage.

`Drive` maps to `Dropbox` by `FileContents(vol)`: a file of the drive is an owner's
link, its content what the store file behind it holds. `Origin(p)` is the
sharer's file for a received path. Where the server answers `error` although it
has done what was asked (see `MCDropboxEcho`), `Drive` allows both answers (`Done`).

`Clients` keeps for each client where it is (`at`: `menu`, `login`, `signup`,
`pwd` for the call before each prompt, `prompt`, `exited`), `user`, `sessionid`
and `currdir`, and for the server the token of each user; tokens are numbers that
are never drawn twice, 0 is the empty string. `holder` is a history variable: the
client that logged a user in last. A typed path is a number of `..` and then
names; whether it begins with `/` makes no difference to the program, and is kept
to state what the tests expect of it. A call may break before the server acts on
it or after (`Call`, `AskCreds`): at the prompt the client ends, at the menu it
asks again. An upload that ends the server is `StopServer` and then a call that breaks.

`Registry` starts with any assignment of kinds and parts to types. `stack` holds
the types that the open calls of `validTypeHelper` have yet to visit, in order,
`m` the types seen. `Transportable` is the reference definition: a type lies in a
set of allowed types closed under parts.

`Calls` maps `at[c]` and `runs[c]` of `RpcServer` to `none`, `pending` and `executed`; the
execution is the step of the handler. An executed call may be answered with an
error (`Fail`): what its handler returned could not be encoded.

`RpcServer` has a program counter per request's goroutine (`at`), the mutex, the
bytes of each pooled array and which array each response refers to (`ret`), so
that reuse of a buffer is visible. A new buffer is an array nobody refers to. When the
encoding of a result fails (`EncodeFails`), part of it may be in the buffer, which is not
put back, and the call is answered with an error although its handler ran.

Definitions whose comment begins with "Slip:" are the forms of the definition
after them that a plausible mistake would give. Nothing uses them; they are the
mutants `PROJECT.json` lists, which show that each property notices its mistake.

## Runs

Run one with `tlc -config X.cfg M`. All of them explore every reachable state of
their instance.

| run | module, configuration | instance | checks |
|---|---|---|---|
| dedup | `MCDropboxDrive`, `MCDropboxDedup` | 2 users, 2 contents, a directory or file, a file in it, another owner's file, a received file's path | `TypeOK`, `Dedup`, `StoreAgrees`, `OwnersRight`, `NumberFresh`, `StoreImmutable`, `ImplementsDrive` |
| sharing | `MCDropbox`, `MCDropboxSharing` | 3 users, 2 contents, one file and its place at both sharees | `SharesSound`, `NoDanglingLink`, `OnlyWritersChange` |
| tree | `MCDropbox`, `MCDropboxTree` | 2 users, 1 content, directories, two shareable files of one name | `TreeOK`, `SharedDirClean`, `HomesKept` |
| handler_steps | `MCDropboxSteps`, `MCDropboxSteps` | as *sharing*, write by write | `ImplementsHandlers`, `LinksKeepContent`, `OneOwnerOff`, `OneVersion` |
| clients | `MCClients`, `MCClients` | 2 clients, 3 users, 2 tokens; a place beside the homes, that one user may name and another's home would have, and where it is received | `SessionSound`, `HomeBound`, `StaleForGood`, `OnlySessionsChange` |
| rpc | `RpcCalls`, `MCRpcServer` | 2 clients, 2 arrays, fair scheduling | `TypeOK`, `HandlersAlone`, `FinalizerLast`, `Answered`, `InterruptEnds`, `ImplementsCalls` |
| registry | `MCRegistry`, `MCRegistry` | every graph of 3 types with 2 parts at most, 3 functions | `OnlyTransportable`, `OnlyMisfitsRefused`, `ChecksEnd` |
| kill_and_restart | `MCDropbox`, `MCDropboxCrash` | the server may be killed | `UniqueNames`: violated |
| kill_in_remove | `MCDropboxSteps`, `MCKillRemove` | the server may be killed in a handler | `UploadsAreStored`: violated |
| sandbox | `MCDropbox`, `MCDropboxSandbox` | users `alice` and `alice2` | `Sandboxed`: violated |
| reply_alias | `RpcCalls`, `MCRpcAlias` | 2 clients | `ReplyIsOwn`: violated |
| sigint_lost | `RpcCalls`, `MCRpcSigint` | fair scheduling | `SigintStops`: violated |

Further configurations, each of which shows one more sentence of the repository
violated: `MCDropboxEcho`, `MCDropboxMkdir` and `MCDropboxNames` (module `MCDropbox`),
`MCKillSignup` and `MCKillUnshare` (`MCDropboxSteps`), `MCClientAbs`,
`MCClientParent` and `MCClientCd` (`MCClients`). One more passes: `MCDropboxBeside`
(`MCDropboxDrive`) checks `HomesKept` and `ImplementsDrive` with `alice`, `bob` and
`alice2`, of whom `alice` makes, uploads and shares things at `alice2` before or after
somebody has signed up by that name.

Why the instances are large enough. In *dedup* two owners can hold the same
content at once, hold different contents, move from one to the other in either
order, share, and remove in either order: every value `numowners` takes on the
way up and down, with an uncounted link of a sharee beside it. Two contents are
enough to tell "the same" from "another"; they are interchangeable, hence
`SYMMETRY`. One owner has two paths, of which one can be a directory or a file, so
that an upload can replace an empty directory. In *sharing* and *handler_steps*
one file has the owner, one sharee with and one without permission, or two with,
so that a failing, partial or repeated relinking would leave one sharee different
from the other, and a handler has up to seven stages. In *tree* two files named
`f` in two directories are shared with one user, so that the second gets the name
`1f`; a directory and a file can take each other's place, a file can lie on a
path's way, and `Shared_with_me2` shows the prefix test. In *clients* both clients
can hold or have held any user, a session can be replaced and the replacing one
expire or go with its server in turn; `bob` can make a directory or upload a file at
`bobby`, share the file with `alice`, go there and have it removed by another client;
`bobby` can sign up before that, or ends the server when signing up after it. In *rpc*
one client can wait while the other's response is under way; the proofs cover any
number. In *registry* circles of three types exist, with a bad type behind any of them.

Bounds. `MaxFilecount` is the largest value of `filecount`: an upload that would
go beyond it is not taken, all other actions are. It is 3 in *dedup*, so that a
server creates two store files over its shutdowns and starts, or one that is
deleted and stored again under a new number; the
invariants do not depend on the value of the number but on its order to those in
use, and the proofs cover all values. `MaxNumber` is the number of names tried in
`Shared_with_me`: with one shareable file per name one is enough, *tree* has two
and a bound of 2. `MaxDepth` (3 in *clients*, the length of a received file's path) bounds
the length of a path that a client types its way to, `MaxToken` (2) the logins that
succeed, `MaxParts` (2) the parts of a type: key and element of a map, or two fields.
There are no state constraints in the configurations.

Deadlock is checked in every run but *registry*, and never found: a server that is
down can be started, a client that cannot dial gets an error. In *registry* a
panic, a failure to listen and a server that serves really end the start-up.

### Fairness

`RpcServer` has fairness (`FairSpec`). `WF(Serve(c))`: a goroutine that can
run does run, which the Go scheduler gives. `SF(Lock(c))` and `SF(Finalize)`:
whoever waits for `invokeMtx` gets it eventually although it is free only now and
then. `sync.Mutex` gives this since Go 1.9, where a waiter that has waited for a
millisecond is handed the lock directly. `WF(Receive)` and `WF(Exit)`: the main
goroutine goes on. It is assumed of handlers that they return, as the model's do
after one step. Nothing forces a client to call or anybody to send SIGINT.

`Calls` promises `WF(Settle(c))`, that a call which was started is settled, and
`RpcServer` is shown to keep this promise under `FairSpec`. `Registry` has
`WF(Check)`: `main` is one goroutine that goes on searching. `Dropbox`, `Drive` and
`Clients` have no fairness: nothing in the code makes users act or sessions end.

### Refinements

* `ImplementsDrive` (run *dedup*): every step of `Dropbox` after which the names are apart
  is a step of `Drive` or leaves it as it is. An upload that links to a stored file,
  creates one, overwrites the last link to another or goes through a sharee's link is
  one `Upload` of the drive; a removal by the last owner and one by the last but one
  look the same.
* `ImplementsHandlers` (run *handler_steps*): handlers that write step by step, over
  sharees in any order, do what the single step of `Dropbox` says.
* `ImplementsCalls` (run *rpc*): goroutines, mutex and SIGINT keep the promise of
  `Calls`, its fairness included.

### Where the program and its texts disagree

* *kill_and_restart*: `server.go:1242` says that the filecount file gives store
  files unique names. `finalizer` alone writes it, on SIGINT; after a kill, or
  one of the server's own `os.Exit(1)`, the next start begins at the old number,
  writes over a store file in use and adds a second row of its name. The
  `filecount.txt` in the repository holds 1 while its `filestore` holds `file2`.
* *sandbox*: `README:33` says "each user is sandboxed within a directory subtree". When
  `alice` and `alice2` have signed up, `checkpath` takes every path of the second for
  the first one's (`server.go:136`), and `alice` makes and removes names there.
* *reply_alias*: `rpc/client.go:49` says a call's return value is placed in
  `ret`. `handleRequest` gives the buffer back to the pool while the response
  still is its bytes, and net/rpc writes the response after the mutex is free;
  another request may have encoded its own result there by then.
* *sigint_lost*: `rpc/server.go:76` says the server runs until it receives
  SIGINT. The channel given to `signal.Notify` has no buffer; a signal that comes
  before `RunServer` waits on it is dropped, and the server goes on.
* *kill_in_remove*: `README:33` says links lead to files in `filestore`. `remove`
  deletes the store file and then its row; after a kill in between, the next
  upload of that content finds the row, links to the file that is gone and stores
  nothing.

And of the further configurations:

* `MCDropboxEcho`: `README:25` says deduplication "will appear to each user as
  nothing different happened". When the content is stored already, the upload
  succeeds and returns `"End of uploadHelper"` (`server.go:399`), which the
  client prints as an error.
* `MCDropboxMkdir`: `README:23` reserves `Shared_with_me` for shared files;
  `mkdirHandler` makes directories in it.
* `MCDropboxNames`: `client.go:131` speaks of names of 5 to 16 characters;
  `server.go:467` joins the two bounds by `&&`, and no length fails both.
* `MCKillSignup`: `README:21` gives each user a file system. The row comes before
  the directories, and a name with a row cannot sign up again.
* `MCKillUnshare`: `lib/support/client/client.go:22` says that Remove removes. A
  sharee's link goes before its row; after a kill in between, each removal by the
  owner stops at the missing link.
* `MCClientAbs`: `test.go:197` lists `/foo` by its absolute path after a `cd`; the
  client puts every path after `currdir`.
* `MCClientParent`: `test.go:220` wants `/..` to be `/`; `listHandler` refuses it.
* `MCClientCd`: "CD changes the current working directory"
  (`lib/support/client/client.go:36`); `cdHandler` takes files too.

## Proofs

Check with `tlapm M.tla`. The theorems hold for every set of users, contents,
paths, clients, buffers and types, and every bound. `Spec` is that of the module
concerned; of `Dropbox`, it is the server that is shut down by SIGINT only. In the
properties marked *, "as long as the names are apart" is part of the definition.

| theorem | says |
|---|---|
| `DropboxProofs!TypeCorrect` | `CrashSpec => []TypeOK` (`TypeCorrectSpec` the same for `Spec`) |
| `DropboxProofs!Deduplicated` | `Spec => []Dedup` |
| `DropboxProofs!TablesAgree` | `Spec => []StoreAgrees` |
| `DropboxProofs!NumbersFresh` | `Spec => []NumberFresh` |
| `DropboxProofs!FilesImmutable` | `Spec => StoreImmutable` |
| `SharingProofs!NeverDangling` | `Spec => []NoDanglingLink` * |
| `SharingProofs!OwnersAlwaysRight` | `Spec => []OwnersRight` * |
| `SharingProofs!SharesAlwaysSound` | `Spec => []SharesSound` * |
| `SharingProofs!SharedDirAlwaysClean` | `Spec => []SharedDirClean` * |
| `SharingProofs!TreeAlwaysSound` | `Spec => []TreeOK` * |
| `SharingProofs!WritersOnly` | `Spec => OnlyWritersChange` * |
| `SharingProofs!HomesAlwaysKept` | `Spec => HomesKept` * |
| `DriveProofs!DriveImplemented` | `Spec => ImplementsDrive` * |
| `StepProofs!HandlersImplemented` | `StepSpec => StepsOfHandlers` *: the first state, and every step after which the names are apart, are those of `Dropbox` |
| `StepProofs!ContentOutlivesLinks` | `StepSpec => []LinksKeepContent` * |
| `StepProofs!OneCountOff` | `StepSpec => []OneOwnerOff` * |
| `StepProofs!OldOrNew` | `StepSpec => []OneVersion` * |
| `ClientProofs!SessionsSound` | `ClientSpec => []SessionSound`; the server may be killed |
| `ClientProofs!SessionsStayOver` | `ClientSpec => StaleForGood` |
| `ClientProofs!HomesBound` | `ClientSpec => []HomeBound` * |
| `ClientProofs!SessionsOnly` | `ClientSpec => OnlySessionsChange` *; the server may be killed |
| `RpcServerProofs!TypeCorrect` | `Spec => []TypeOK` |
| `RpcServerProofs!MutualExclusion` | `Spec => []HandlersAlone` |
| `RpcServerProofs!FinalizerSavesLast` | `Spec => []FinalizerLast` |
| `RpcServerProofs!CallsRefined` | `Spec => CallsSafety`: the first state and every step are those of `Calls` |
| `RegistryProofs!RegisteredTransportable` | `Spec => []OnlyTransportable` |
| `RegistryProofs!RefusedRightly` | `Spec => []OnlyMisfitsRefused` |

Assumptions. `NameAssumption` (user names and `Shared_with_me` are names, and of
strings: each begins with itself, and of two that a third begins with, one begins with
the other), `InputAssumption` (what clients name in requests are paths, and the
numbered names are names), `HolderAssumption` and `ErrorAssumption` (the kinds of mutex
holders differ; an error is neither a buffer nor a result), `ClientAssumption`
(`NoClient` is no client; what is typed is a path). Nothing is assumed of which names
users have.

**Names.** The invariants of the links, of a handler's stages and of names at clients
hold while `Apart` does: `SafeInv`, `StepSafe` and `NamesSafe` say `Apart => ...` of them.
`userdata` only grows, so names that are apart after a step were so before it
(`UsersStay` and its likes), and the step may be taken with the invariant at hand. The
cases of interest are requests for paths outside of all homes, which `checkpath` lets
through for a user whose name they begin with: no row of `sharedata` names a
place in another user's home as the user's own file, and by the assumption on strings
only one user who signed up can reach such a place (`OneReaches`).

**Deduplication.** `Dedup` alone is not inductive: a new row could
take a number in use. `StoreAgrees` alone is not either: `StoreNew` writes file
number `filecount`, which must not be a row's. `DedupInv` therefore joins, for the
volume, type, `OneRowPerFile`, `StoreMatchesTable` and `FilesBelow` (every row's
number is below `filecount`), and for the process, that `countfile` is
`filecount` while the server is down. A kill breaks just the last part, which is
why these theorems are about `Spec` and the run *kill_and_restart* about
`CrashSpec`. Each helper of `Volume` has a lemma that it preserves `StoreInv` and
leaves the files numbered so far as they are or takes them away (`Kept`, which is
transitive, so that `sharerUpload` follows from its parts); the handlers follow
from the helpers, and `FilesImmutable` from `Kept` of every step.

**Links, counts and shares.** These properties need each other. That no link
dangles after `remove` needs the count: a row and its file go when `numowners` is 1,
and only the count says that the link which goes with them was the last one. The
count needs that sharees' links are told from owners' (`OwnedPaths` leaves out the
paths in `sharedata`), and that sharees' links do not dangle needs that
they lead where the owner's link does and are taken away before it. `LinkInv` joins
them. `sharerUpload` passes through states in which it does not hold: sharees have
been unlinked and their rows are still there. So `LinkInv(v, open)` has a
parameter, the rows that wait to be linked again: all other rows have their links,
and these have none. `UnlinkInv` opens the rows of the file, `remove` and
`uploadHelper` keep `LinkInv` with any rows open of a path they are called for,
`RelinkInv` closes them. An owner's link more or less changes one set of links by one
element (`OneMore`, `OneLess`), and the library's facts on cardinalities do the rest.

`VolumeInv` adds that rows claim different places (`RowsApart`), that
`Shared_with_me` holds received files only (`SharedDirManaged`) and that the tree is
one (`TreeSound`). `RowsApart` is needed because unlinking one sharee must not take
another's link; `SharedDirManaged`, because then a free name found by
`shareHandler` is no owner's path. It joins that the names are apart, and that sharer and
sharee of a row have signed up.

**Who changes what.** `Lawful(u)` says of a step that `VolumeInv` holds after it,
that names appear and vanish only where `u` may name things (`NamesOwn`), and that
an owner's link leads elsewhere only if `u` may write it (`LinksOwn`). Each handler has
a lemma that it is lawful. `HomesKept` is `NamesOwn`. `OnlyWritersChange` follows from
`LinksOwn` and `FilesImmutable`: a link that stays at a store file that is never
rewritten keeps its content, although other owners of the same content come and go.

**The drive.** `DriveInv` is the server's whole invariant, and `RowsKnown`: a row's
sharee has signed up and its file lies outside `Shared_with_me`, which the drive's
`Origin` takes for granted. The drive's files are computed from the volume
(`FileContents`), so the first lemmas say what it sees of it: a file for each owner's
link (`FilesOf`, since none dangles), the same free and taken names, the same rows
(`SameNames`, `SameFree`, `SameRows`). One lemma per handler (`UploadMaps`, `RemoveMaps`,
`ShareMaps` and so on) shows that it is the drive's operation of that name with the
same answer, or one that the drive allows. Two points carry the proof. `Cleared` and
`NewLinkContent` say that removing a link and making one change the drive at one path:
other paths keep their content because a store file with a row is never rewritten and
goes only with its last owner. `SharerUploadContent` says that an upload through any
path of a shared file changes the drive at the sharer's path only, sharees being linked
to the new file afterwards. `StepMaps` joins the handlers, `RowsStayKnown` is the
inductive step of `RowsKnown`.

**Inside a handler.** `StepInv` says that the volume now and all volumes in `todo` are
`Halfway` (well typed, with the three properties), and that the last of them satisfies
`VolumeInv`. That the properties hold of the volume alone is not inductive: a step takes
the next volume from `todo`, whatever it is. `NearlyThere` and `OneOff` reduce each stage
to a volume next to it in which the counts are right. A lemma per list of stages
(`RemoveLinkHalfway`, `StoreNewHalfway`, `UnlinkHalfway`, `RelinkHalfway` and so on) shows
that each of its stages is `Halfway` and that the last one is what the helper of
`Volume` returns; `LastOfConcat`, `LastOfTail` and `LastOfLoop` are about the last element
of such lists, for any number of sharees. For `ImplementsHandlers`, the mapping puts
`LastStage(vol, todo)` for `vol`, so that the first step of a handler is the handler and
the others stutter; the lemmas `Same...` carry the operators of `Dropbox` over to that
instance, and a lemma per handler (`UploadSteps`, `RemoveSteps`, `ShareSteps` ...) shows the
first step to be the handler's. The order of the rows does not matter because every
order reaches all of them (`ReachedAll`), and what is left does not depend on it.

**Sessions.** `TokensSound` says that all tokens, the clients' and the server's, were drawn
(are at most `issued`), and that a client which holds the server's token of a user
logged that user in last. A new token is above all that are held anywhere, so a
login takes the session from every other client, and no later one gives it back.
Nothing of this depends on the volume, so a kill does no harm. `HomeBound` needs
little more than itself: a `cd` that succeeded passed `checkpath`, and a path that passes it
for one user lies in the home of another only if the names are not apart.

**Without a session.** `OnlySessionsChange` cannot rest on `VolumeInv`: `Clients` lets the
server be killed, after which counts, tables and store files may be wrong. `NamesInv`
is what a kill leaves intact, and says nothing of store files: the tree is one, each row
of `sharedata` names two links that are there, the sharer's outside and the sharee's
inside their owner's `Shared_with_me`, and no two rows name one link. The interesting
request is an upload by a sharee. It unlinks the other sharees and the sharer's file,
in homes of users who need not have a session, and `SharerUploadNames` shows that all of
them, and nothing else, are there again at its end, even when the count or the store file
behind them is wrong. All other requests change names the requester may name (one
lemma `...Orderly` each), the requester being a client that passes, whose user logged in
there last by `TokensSound` and, by `OwnHome`, names no path in another's home.

**RPC process.** `LockInv` says that a goroutine between lock and
unlock is the mutex's holder, and that a finalized server is held by `Main`
and clean; it implies both properties and is preserved because only `Unlock`,
`Reject` and the end of the process give the mutex up. For the refinement, `Lock`,
`Encode`, `Unlock`, the signal and its receipt are steps that `Calls` does not see
(`HiddenStep`); a call begins with `StartCall`, is executed by `Handle`, which is
before the save because the handler holds the mutex, and answered by `Send`. That an
answer with a value follows its execution needs `RanFirst`: a call whose handler has
returned, or for which an array waits to be sent, has run. What is in the array need not be
the call's own reply (*reply_alias*), and `Calls` does not ask for that.

**Registration.** A type that was seen is not visited again, although its verdict may
still be open. That is sound because the types seen are allowed and their parts are
seen or wait on the stack (`SeenOrWaiting`): when the stack is empty they are closed
under parts, which makes each of them transportable by the reference definition.
`NoneForgotten` says that every type of the function is accounted for, and
`NothingElse` that only types it consists of are looked at; the first gives
`OnlyTransportable`, the second `OnlyMisfitsRefused`.

Only model-checked:

* liveness: `Answered`, `InterruptEnds`, `ChecksEnd` and the fairness part of
  `ImplementsCalls` are out of the prover's reach;
* what the configurations that end in a violation show: a theorem cannot say that
  a property fails.

Every other property of a passing run is a theorem's. `CallsSafety`, the conjunction of
initial state and steps of `Calls`, stands for `ImplementsCalls` there, and
`StepsOfHandlers` for `ImplementsHandlers`, which it is but for the condition that the
names are apart.

## Not modelled

Failures of the disk and of the database, other than that the server then ends
like a killed one; the SQLite driver, whose statements are atomic changes of a
table; the encoding of arguments and results by gob; in `RpcServer`, a connection
lost other than by the end of the server's process (`Clients` has it); the clock
behind a session's 1000 seconds, in place of which a session may expire at any
moment; splitting of lines, usage texts and printing at the command line; local
files of `upload` and `download`; a client whose input ends at the menu asks for
ever, of which the repository says nothing. The test files of the client are read
for what they expect, not modelled.

## Order of the work

The modules were written from the storage outwards, in the order of the table above:
storage and handlers, the RPC process that justifies their grain, the abstract
specifications, the handlers write by write, clients and start-up. The proofs follow
the same order, since each invariant contains the one before: types and tables
(`DropboxProofs`), links and counts (`LinkProofs`), handlers (`SharingProofs`), and on these
the drive (`DriveProofs`) and the writes (`StepProofs`). Liveness remains for TLC. A natural
continuation is the question which of the proved invariants a server keeps after a
kill in the middle of a handler: `KillClaims` shows some that it does not,
`NamesInv` of `ClientProofs` is one that survives a kill between two handlers.
