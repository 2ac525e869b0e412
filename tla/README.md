# A TLA+ verification project for zftp

zftp is a z/OS FTP client library in Go with a command-line client. One
`FTPSession` owns a control connection, opens a data connection per transfer, and may
be shared by several goroutines. These modules model the session and what its calls
promise; TLC checks them on small instances, and TLAPS proves every safety property that
a passing run checks, and the refinement, for every instance.

## The system

| component | state | operations | what makes it correct |
|---|---|---|---|
| control connection (`ftp.go`, `cmd.go`, `options.go`) | `mu`, `isClosed`, the socket and its deadline, the buffered reader | `SendCommand`, `SendCommandWithContext`, calls of several round trips (`Rename`, `Login`, `AuthTLS`), `Close` | one command at a time; a reply is read by the command it answers; no deadline leaks; waits end |
| reply reader (`codes.go`) | opening code, message | `check` | exactly one whole reply per call; a cut stream is an error |
| transfers and listings (`transfer.go`, `lists.go`, `internal/transfer`) | `currType` | `SetType`, `StoreIO`, `RetrieveIO`, the `...At` forms, `anyList` | success means the server did it; the type is known and restored; the session is closed rather than reused out of phase |
| passive data connections (`passive.go`) | `dataConns`, each child's `isClosed` | `SetPassiveMode`, `newChildConnection`, `childConnection.Close` | no child outlives its call; `Close` unblocks a stalled one |
| settings and JES (`jes.go`, `lists.go`, `site.go`, `status_*.go`, `xstat.go`, `internal/utils`) | the server's FILETYPE and JESJOBNAME | save-set-restore, `ListDatasets`, `ListPds`, `ListSpool`, `SubmitIO`, `SubmitJesGetByDSN`, `GetJobStatus`, `PurgeJob` | the work runs under the right settings; they are back afterwards whatever failed |
| setup (`ftp.go`, `dialer.go`, the CLI's `realConnect`) | `conn`, `reader`, `tlsConfig`, `user`, `currType`, `system` | `Open`, `AuthTLS`, `Login`, `Close` | both ends in the same layer; nothing in clear after AUTH; what is recorded was accepted; no connection left behind |
| local files (`get.go`, `put.go`, `jes.go`, `internal/utils`) | the file on disk, its handle, the server's dataset attributes | `Get`, `GetAt`, `GetAndGzip`, `Put`, `PutAt`, `SubmitJCLFile` | the file matches what was reported, after failures, kills and resumes too |
| listing parsers (`hfs`) | position in the listing | `ParseInfoJobDetail`, `NewDatasetListParser`, `Parse` | every row is reported, with its own columns, or the listing fails |
| command-line client (`cli`) | one session, one command per process | `get`, `put`, `ls`, `job`, `submit`, ... | exit status 0 means done |
| mock server (`internal/mockzos`) | PASV listener, scripted faults | the repository's own picture of z/OS | it is the environment of the models |
| PDS member parser, logger, `eol`, tables | none or text only | parsing and printing | not modelled |

Interactions. Every round trip takes `mu` (`sendLocked`, `checkLast`). A transfer takes it
once per round trip, not once per transfer, and so do the save, set and restore of a
setting. `Close` touches the socket's deadline *before* it takes `mu`; `closeLocked`
closes the children in `dataConns`, and a child's `Close` removes it from there.
`AuthTLS` and `Login` hold `mu` from their first command to their last reply. The calls of
`get.go` and `put.go` put file operations around one transfer, the CLI puts a process around
one call, and a signal handler runs beside it.

The hard behaviours: timeouts that race late replies, a deadline shared by commands and
`Close`, the terminal reply that the server sends on its own time after the data
connection closes, data and control connections that fail separately, deferred cleanup
on every way out, goroutines interleaving between the round trips of one call, a switch to
TLS in the middle of a dialogue, and processes that die between two steps and find their
own half-written file when they run again.
`PROJECT.json` lists them as hazards, each at its line.

## Modules

| module | models | extended by |
|---|---|---|
| `SerialSession` | what a shared control connection promises: calls take turns; a call succeeds only after a reply to each of its commands, on a session that was open | refined by `ControlConn` |
| `ControlConn` | the control connection in detail | `MCControlConn`, `ControlConnProofs` |
| `ReplyReader` | `check` on the stream of line pieces | `MCReplyReader`, `ReplyReaderProofs` |
| `Transfer` | whole calls: transfers, listings, `Delete`, `SetType`, the data connection, the server | `MCTransfer`, `TransferProofs` |
| `SiteSettings` | save-set-restore of server settings around listings and JES calls | `MCSiteSettings`, `SiteSettingsProofs` |
| `Setup` | a session from the greeting over `AuthTLS` and `Login` to `Close`, with both ends' TLS layers | `MCSetup`, `SetupProofs` |
| `LocalFile` | the calls that move a local file, cell by cell | `Cli`, `LocalFileProofs` |
| `SpoolListing` | the walk of `ParseInfoJobDetail` | `Cli`, `ListingProofs` |
| `DatasetListing` | the row loop of `ListDatasets` and the column layouts | `Cli`, `ListingProofs` |
| `Cli` | composes the last three: processes of the CLI and of programs on one disk, kills, the signal handler | `MCCli`, `CliProofs` |

**ControlConn.** `mu`, `isClosed` and `deadline` are the fields of the session and its
socket; `pc`, `op`, `step`, `ctx`, `res` are a goroutine's position, call, round trip,
context and result; `toServer` and `toClient` are the two directions of the stream, tagged
with the number of the command. `Call` / `Lock` / `Reject` / `Enter` / `Write` / `Read` /
`IOFail` / `Return` are the steps of `SendCommand` and `sendLocked`; `Continue` goes to the
next `sendLocked` of `Rename`, `AuthTLS` or `Login` under the same lock. `Expire` is the timeout, at
the same moment for the context and the socket. `CallClose` / `Poke` / `Close` are the
three parts of `Close`. The server answers with the expected or another code, swallows a
command, or hangs up. Read buffering is abstracted: a reply arrives whole.

**ReplyReader.** A piece is what `bufio.Reader.ReadLine` returns: its leading code if it
has one, the character after it, and `isPrefix`. `Take` is one iteration of the loop and
the comparison behind it. The server side (`SendFirst`, `SendInner`, `SendRest`, with
`SendLine` for what they share) is RFC 959 framing and external. Any line may be longer than
the reader's buffer and is then read in pieces. With `CutAnywhere` such a line may be cut just
before text that reads like the end of the reply, and `check` ends the reply early; with
`LongEnds` the line that ends a reply may be a long one, which `check` does not take for the
end. The run and the theorems assume FALSE for both; setting either to TRUE in
`ReplyFraming.cfg` makes TLC refute `Framed`.

**Transfer.** A round trip is `Send` (lock, write) and `RecvOK` / `RecvOther` / `RecvFail`
(read, unlock); `ControlConn` justifies this. In `SendExpired` the context runs out before the
mutex is free, so nothing is written. `NextOK` and `NextErr` are the way through
`transfer`, `storeIO`, `retrieveIO` and `anyList`, deferred calls included: `cleanup` is
the deferred `child.Close`, `restore` the deferred `SetType`. `CheckLast` is `checkLast`;
`ConfirmClose` and `ConfirmCloseFail` are `confirmData`. `Close` is `Close` of another
goroutine or the signal handler. The server follows `handlePasv`, `handleDownload` and
`handleUpload`, with the scripted faults (refusal, reset, truncation, stalled data, lost or
doubled terminal reply) as choices. A REST that no transfer follows at once is dropped, or
kept if `RestLingers` (`PendingRest`): RFC 959 leaves that to the server. `served`, `wanted` and `unrestored` record for the
properties what the server did, what type the application selected and whether a restore
was refused. Payloads are reduced to complete or not. Once the client has closed the
session the server's further steps are left out: nobody can observe them.

**SiteSettings.** A call is a script of saves, SITE commands and work. `get` and `set` are
the two round trips of `SetValueAndGetCurrent`, `Restore` the deferred `SetRestorer`s,
latest first, whose errors are only logged (`stale`). `Options` are the zero or more SITE
options of `SubmitIO`. `setErr` may leave the first of two
SITE parameters set. Values are modelled by what the code does with them: `FileType`
rejects unknown values locally, the getter keeps the first word of the reply.

**Setup.** `pc` is the command of `AuthTLS` or `Login` that is in progress (`NextStep` is
their order), `conn` and `reader` the number of TLS layers of the two fields, `layers` the
server's. `Write` / `RecvOK` / `RecvOther` / `IOFail` are the ways through `sendLocked`;
`Swap` is what `AuthTLS` does after 234, `Record` what `Login` keeps; `Handshake` is the one
that the first write on a `tls.Client` makes. `Poke` and `Close` are the two parts of
`Close`. `caller` is a library program, which calls anything at any time, or the CLI with or
without `--tls` (`realConnect`). The server follows `handle` and `handleAuth`; RFC 4217 and
RFC 959 say what AUTH does to PROT and USER to the login. `secured`, `data` and `accepted`
record for the properties the 234, the last data connection and the names PASS accepted.

**LocalFile.** A file is a sequence of cells: the remote byte of that position, the same
after translation, a hole, or another byte. `Start` is `guardResume`, then `SetDataSpecs`,
`OpenFile`, `Prepare` (truncate, seek), `transfer`, `gzClose`, `VerifyGzSize`, `closeFile`
follow in the code's order, each with its failure. A negative offset passes the guard and fails
in `Prepare`, where the file is sought; a SITE of several attributes that fails or is answered
with a warning may have set them. `transfer` is one step: all bytes and
success, or any number of them and an error (`Transfer` shows that this is what a transfer
does). `closeFileFails` may lose any tail of what the call wrote and keeps what the code does
with the error: it is dropped or logged (`lost`). `dies` is the end of the process, in a transfer after any number of bytes.

**SpoolListing** and **DatasetListing.** Lines and rows are reduced to what the parsers'
tests tell apart. `FirstLine`, `JobLine`, `Title`, `DetailLine` are the sections of the walk;
its input is every listing JES writes with one line replaced or put in, cut anywhere. In
`DatasetListing` the offsets are the code's; `Formats` are the columns of the servers' own
listings (the fixtures under `tests/dataset_listings`), and `parseDatasetLayout` tells which
columns of a layout cut out exactly the text of the column of that name. A row carries its
`Used` value, the column whose result the properties compare; `odd` stands for a date or
another numeric column that does not parse, which fails the row just as well.

**Cli.** `Execute` and `Boot` start a process, `Open` / `Login` / `ConnectFails` connect,
`RunE` makes the command's call, `Work` is a step of it, `CallReturns` and `main` end it.
`Signal` / `HandlerClose` / `HandlerExit` are the handler's goroutine, `Kill` the operating
system. `Library` starts a program that makes any calls of `LocalFile` on one session.

## Runs

| run | bounds | shows |
|---|---|---|
| `control_mixed` | 3 goroutines, calls start while fewer than 2 commands were written, symmetry | `TypeOK`, `InSync`, `DeadlineOwned`, `ClosedIsFinal`, and that `ControlConn` implements `SerialSession` |
| `control_waits` | 2 goroutines, 2 commands, with and without timeouts, `AuthTLS` and `Login` included | `CloseReturnsUnlessErased`, `SendCommandReturnsUnlessBehind` |
| `control_close_race` | 2 goroutines, both kinds | **violated**: `Close` can block for ever |
| `transfer_session` | 1 user, 1 closer, 2 ports, 125 only, an unused REST is dropped | `InSync`, `SuccessIsServed`, `TypeAgrees`, `TypeRestored` |
| `transfer_faults` | as before, 1 port, 150, failing data closes and a kept REST too | `TypeOK`, `NoChildLeak`, `CloseUnblocks` |
| `transfer_150` | 1 user, 1 closer | **violated** `InSync` |
| `transfer_shared` | 2 users | **violated** `SuccessIsServed` |
| `settings_session` | 1 user, all seven calls | `TypeOK`, `RightMode`, `SettingsRestored` |
| `settings_shared` | 2 users, `PurgeJob` | **violated** `RightMode` |
| `reply_framing` | 3 codes, 6 pieces per reply, `CutAnywhere` and `LongEnds` FALSE | `Framed`, `CutIsError` |
| `setup_calls` | 2 names, 3 kinds of caller, 2 switches to TLS | `TypeOK`, `LayersAgree`, `NoClearAfterAuth`, `CredentialsProtected`, `UserWasAccepted`, `TypeAgrees`, `NoOrphan`, `OpenReturns`, `CloseEndsSetup` |
| `cli` | remote file of 2 cells, local file and offsets to 3, gzip length modulo 2, 2 spool files, 2 dataset rows, numbers to 3 with 2 as the largest | `TypeOK`, `SuccessIsOnDisk`, `ResumeCompletes`, `BelowOffsetKept`, `RejectedTouchesNothing`, `HandlesClosed`, `StoredAsAsked`, `DetailAsListed`, `RowsAsListed`, `ExitZeroMeansDone` |

Why the bounds are enough. The mutex is either held or free, so two goroutines and a closer
give every overlap of a command with a waiter and with `Close`; the third goroutine lets a
bounded command, a cancelled one and a multi-step one meet. `MaxCommands` bounds calls, not
commands: a call that has started makes all its round trips. In `Transfer` a user makes any
number of calls; `MaxUnread` stops new calls on a session that is already out of phase (in
the passing run `transfer_session` this never happens). Two ports tell a new listener from a
stale one. Three codes are the expected one, the opening one and a deceptive one. In `Setup`
two names tell a second login from the first, and two switches the first layer from the ones
on top of it; `MaxTLS` bounds the successful ones only. In `Cli` processes follow each other
without bound; a file of two cells can be empty, cut, whole or followed by an older rest, an
offset can lie below, at and beyond its end, and the gzip length wraps. The listing commands
read no file, so `EmptyDisk` lets them start from the empty disk only.

Fairness. A goroutine that can take a step takes it (the Go scheduler); a waiter for
`sync.Mutex` gets it if it is free again and again (its starvation mode), hence strong
fairness of `Lock` and `Close`; a timeout expires. Nothing is assumed of the server or of a
caller's cancellation. In `Transfer` nothing is assumed of a wait
for a reply either (`CloseUnblocks` starts from a closed session, where none is left), and
the data phase is assumed to end only if the peer ends it or the child is closed. Deadlock is checked in every run but
`reply_framing`, where a stream that has ended stays so, and `setup_calls`, where a refused
caller stops and a silent server may be waited for for ever.

In `Setup` the calling goroutine runs and a server that is neither silent nor gone answers
(`FairSpec`); nobody is assumed to call `Close`. `OpenReturns` therefore holds up to a
greeting that never comes, and `CloseEndsSetup` with a server that is silent.

What the violations show. (1) `Close` sets the socket deadline without the lock; a bounded
command that is just returning clears it, and an unbounded command that gets the lock next
waits for a silent server with `Close` behind it; `control_waits` shows that this is the only
way. (2) A 150 announcement keeps the session although the terminal reply is still to come.
(3) A transfer's terminal reply can be read by another goroutine's command. (4) A restore of
FILETYPE can fall between another goroutine's set and its DELE.

Observations without a run of their own. Where a property has an exception for one, TLC
refutes the property without it.

- `confirmData` returns when closing the data connection fails, without reading the terminal
  reply and with the session open (`transfer.go:159`): `InSync` of `Transfer` fails with
  `CloseMayFail = TRUE` and without 150.
- A transfer whose context runs out between an accepted REST and its own command sends nothing
  more (`cmd.go:42`) and returns its error with the session open. If the server keeps the offset
  over TYPE and PASV, the next STOR or RETR starts at it and is reported as a success:
  `SuccessIsServed` fails in `transfer_session` with `RestLingers = TRUE`.
- `check` compares the end of a reply only with lines that fit its buffer (`codes.go:191`):
  `Framed` fails with `CutAnywhere = TRUE` and with `LongEnds = TRUE`.
- `Get`, `GetAt` and `GetAndGzip` assign a failed `file.Close` to a variable that is no longer
  the result (`get.go:24`): the caller sees success (exception `lost`).
- The signal handler's `os.Exit(0)` runs beside main's `os.Exit(1)` (`ftp.go:129`,
  `cli/main.go:23`): an interrupted command may report success (exception in
  `ExitZeroMeansDone`).
- A SITE reply that is a warning is only logged, and `Put` goes on (`put.go:255`; exception
  `warned`).
- `SubmitJCLFile` never closes the file it opens (`jes.go:68`).
- `get --gzip --offset` ignores the offset (`cli/internal/cmd/get.go:46`).
- A job listing that starts with a blank line is read as level 1 (`hfs/spool.go:268`), and one
  cut inside the details is accepted, for want of a trailer to compare with.
- The JSON of a dataset has no state (`hfs/dataset.go:42`).
- The comment above `checkLast` (`cmd.go:131-134`) says a mismatched reply keeps the session,
  while the code closes it (`cmd.go:183`), as the model does.
- A cancelled context without a deadline does not interrupt a read (`cmd.go:16-17` speaks of
  cancellation), and the timeout of a command does not bound its wait for the lock
  (`SendCommandReturnsUnlessBehind`).

## Proofs

Every safety property of a passing run is a theorem, for every value of the constants: any
number of goroutines, commands, ports, names and switches to TLS, files, offsets, listings
and numbers of any size. Conditions are stated where a theorem needs them (`~CutAnywhere` and
`~LongEnds` for `ReplyReader`, `Alone` for `Transfer` and `SiteSettings`); otherwise only what the modules assume of their constants is used
(`NoOne` is not a goroutine, bounds are numbers, `Ops` are operations of the script). The
server's part of each model is assumed too. Hardly a property is inductive as it stands;
the invariants that are, and why they are needed:

**ControlConn.** `InSync` says nothing of who may write and read.
`IInv == TypeOK /\ Locked /\ Stream /\ DeadlineOwned`: `Locked` says that the holder of the
mutex is the one goroutine between `enter` and `return`, and that writers and readers are on
an open session; `Stream` that the stream of an open session is empty, or holds the command
being waited for, or its reply. One step lemma per conjunct, one case per action. From
`SessionInvariant` follow `TypeCorrect`, `RepliesInSync`, `DeadlinesOwned`, `ClosedFinal`.

`ImplementsSerialSession` is the refinement. The abstract call counts the replies to its own
commands, so `Progress` says that a goroutine has had a reply per round trip behind it, and
succeeds only after the last. With it every step maps: `Lock` is `Begin`, `Read` is `Answer`,
`IOFail` is `Break`, `Reject` and `Return` are `End`, `Close` is `Shut`; timeouts, writes, the
poke and the server are invisible. `SerialSession` has no fairness.

**ReplyReader.** `Framed` speaks of returned replies only; `Together` adds that while a reply
is being read, reader and server agree on its code and on the pieces read. `TakeStep` is the
common part: if a piece ends the loop exactly when it ends the reply, the invariant is kept;
`FirstStep`, `InnerStep` and `RestStep` show that each kind of piece does.

**Setup.** `IInv` adds to the types `Wire` (what is on the wire belongs to the command in
progress and is in the layer the client writes in), `Upgrade` (the two ends differ by at most
the handshake that is due, and an accepted AUTH has left its traces) and `Dialogue` (how far
the login is on the server's side: after an accepted USER the server has the name that PASS
will confirm). Seven theorems follow from `SetupInvariant`.

**Transfer.** Two invariants. `AnyInv == TypeOK /\ Messages /\ HeldOpen /\ Children` holds
however many goroutines share the session and whatever the server announces: `Messages` types
the streams, `HeldOpen` says that only an open session is waited on, `Children` that an open
data connection belongs to a call between its dial and its cleanup and is registered under the
port of that call, if at all. `TypeCorrect` and `ChildrenClosed` follow.

`OneInv == Stream /\ Connected /\ Restarted /\ Typed /\ Reported` needs `Alone`: one user
beside any number of closers, `Prelim = {"125"}`, data closes that succeed and a server that
drops an unused REST. `transfer_shared` and `transfer_150` refute the properties without the
first two, and `InSync` and `SuccessIsServed` fail without the third and the fourth
(observations above). `Stream` says what the control stream holds at each point of a call; while
the data moves it is empty, and afterwards it ends with what the server did: if it says 226 or
250, `served` is true, or the client has seen its own connection fail. `Connected` ties the
server's job to the dialled connection, `Restarted` says how long an offset holds, `Typed`
when the two types may differ (only between TYPE and its reply) and what is saved, `Reported`
when a result is known. `StreamRecvOK`, `StreamCheckLast` and `StreamReceive` are the steps where
a terminal reply could be left or taken by the wrong command. `RepliesInSync`,
`SuccessServed`, `TypesAgree` and `TypeIsRestored` follow from `OneInvariant`.

**SiteSettings.** `AnyInv == TypeOK /\ Placed` holds for any users (`Placed`: a call stands at
an instruction of its script of its kind). `OneInv == Mode /\ Remembered /\ Kept /\ Owing` needs
one user, as `settings_shared` shows. `Mode` says that the server has what the last save of
each setting set; `Owing` that a setting which is not `stale` either has the application's
value and no restorer, or its earliest restorer will write that value; `Remembered` and `Kept`
supply the step from one to the other. `WorkInRightMode` and `SettingsComeBack` follow.

**Cli** and its parts. The proofs of the parts are stated for a step of any process
(`FileStep`, `WalkStep`, `ListStep`), and `CliProofs` shows that every action of `Cli` is one.

- `FileInv` (`LocalFileProofs`): `Positions` (which call is where, and how it got there: a
  transfer's offset is not negative, and a close has no more to lose than the call wrote),
  `Content` (what has been moved by then, and everything on success), `Upload`, `Untouched`
  (a refused resume stopped at its guard), `Prefixes`, and `BelowOffsetKept`, which is inductive
  with them. `Shaped` bounds the cells: a byte of the remote file lies where that file has one,
  so a file cannot be longer than the remote file and still be a prefix of it.
- `WalkInv` (`ListingProofs`): in every section the lines above the position are those the
  section comes after, blank lines aside, and the details counted so far are the well-formed
  lines passed. The property compares two ways of reading the lines, by position and by what
  precedes a line; `Nth` numbers the lines that are not blank by counting, because a
  recursive filter could not be reasoned about here. `Least` gives the least element of a set of naturals,
  by well-foundedness, for the blank lines that the walk skips at once.
- `ListInv`: the datasets so far are the rows so far, each parsed with the layout that the
  server's header chose. `ChosenFits` shows that this layout fits the server's columns: each
  of its columns holds its own text whole and nothing of a neighbour's.
- `CliInv == FileInv /\ WalkInv /\ ListInv /\ Processes /\ Making /\ Parsing`: `Processes` says
  what a process that is not working cannot be in the middle of, `Making` and `Parsing` that it
  may say "done" only of the call of its own command. `ExitStatus` and ten more theorems follow
  from `Invariant`.

TLC checked these invariants on the instances of the runs before they were proved, those
with conditions on the instances that meet them.

Only model-checked: `CloseReturnsUnlessErased` and `SendCommandReturnsUnlessBehind` of
`ControlConn`, `CloseUnblocks` of `Transfer`, `OpenReturns` and `CloseEndsSetup` of `Setup`. They
are liveness properties under fairness, and the prover has neither `ENABLED` nor the rules for
fairness.

## Not modelled

TLS records and certificates (a handshake succeeds or fails), keep-alives, the text of
commands and replies, the logger, `eol`, generated tables; the PDS member parser,
`ParseInfoJob`, return and abend codes, dates and floats (pure text, a line at a time);
`classifyJesOutput`; the getters and setters of single settings that are not saved and
restored (one round trip each, like `SendCommand`); wall-clock time (`generateJobFileName`);
data races on `jobPrefix` and `lastMessage`.

## Plan

1. `Transfer` with two users for `CloseUnblocks` (`ChildrenClosed` covers the safety part), and
   registry keys that are reused when a server hands out one port twice.
2. An abstract specification of a transfer call (it returns what the server did, or an error),
   refined by `Transfer` for one user.
3. What remains of `Framed` with `CutAnywhere` or `LongEnds`: the reader never returns more than one
   reply, and is back in step at the next reply without such a line.
