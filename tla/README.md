# clavator: models, checks and proofs

clavator is a web application around gpg and OpenPGP cards. A node server drives `gpg`,
`gpg-connect-agent` and the card readers, one page in a browser shows what keys and cards there are
and sends requests, and a PAM module in C++ asks for a pin when somebody logs in. Nothing of this is
a protocol on paper. It is callbacks: of children that end, of sockets that open, close and fail, of
timers, and of signals, each of them free to come before the other; and forms in which a person may
do anything at any time, while lists and cards change under them. The modules in this directory
say what those callbacks do, TLC checks what they add up to on small instances, and TLAPS proves the
most important part of it for all instances.

All paths below are relative to the repository: `src/src/...` is the TypeScript of server and page,
`src/pam/...` the C++. `PROJECT.json` has, for every definition of a module that stands for code,
the file and the lines it stands for.

## 1. The system

### 1.1 Parts that are modelled

**Observers** (`src/src/server/observer/`, `src/src/server/wss-update.ts`, `server.ts`).
- *State*: the registered sockets; per observer one `timeoutId`; `WssUpdate.prevWss` and `prevT`,
  the sockets and the list it has seen; and, in closures only, any number of polling loops.
- *Operations*: `register`, `unregister`, `suspend`, `resume`, `action` (spawn gpg), the callback of
  gpg (`WssUpdate.run`), the callbacks of the sends (`WssUpdate.send`), the timer.
- *Interactions*: a browser that connects registers at two observers (keys, cards); a transfer of
  keys to a card suspends both and resumes both.
- *Hard*: one `timeoutId` for many loops; polls that answer out of order; an array of sockets that
  is pushed to by one operation and replaced by another while polls hold it; no count of suspends; a
  reader that throws in the callback of gpg; a gpg that cannot be started and calls back twice.
- *Correct when*: polling dies in named cases only, each browser gets a list, browsers agree.

**Key sets** (`dispatcher/gpg-create-key-set.ts`, `dispatcher/send-key-to-yubikey.ts`,
`tasks/create-key-set-task.ts`).
- *State*: per request the promise of `CreateKeySetTask`, one thread of callbacks per key that
  matches, the index `idx` into the subkeys that go to the card; gpg's keyring and the card.
- *Operations*: create a master key, list, add uids, add subkeys, fetch, settle the promise, move
  subkey after subkey, resume the observers.
- *Interactions*: requests meet in the keyring (same name and mail); the card is shared; observers
  are suspended while keys move.
- *Hard*: a promise settled by the first of several threads; exit codes that are not looked at; a
  `ws.send` that throws between two slots; a reader that throws; a promise nobody settles, a move
  that is never answered.
- *Correct when*: a key that is handed on is complete, the card holds what was reported, a refused
  request never writes to the card, every request is answered.

**Moving a key to a card** (`Gpg.keyToYubiKey`, `prepareKeyToYubiKey` in `src/src/gpg/gpg.ts`).
- *State*: a temporary home directory with a copy of the secret key; which of six children runs.
- *Hard*: every child may fail or fail to start (two callbacks then), only some exceptions are
  caught.
- *Correct when*: a copy of the secret that stays on the disk is reported; ok is said once, and
  means it.

**Request dispatch** (`src/src/server/dispatch.ts`, the other dispatchers, `src/src/gpg/result.ts`).
- *State*: children that run per request, the cached dice ware lists, the array of attributes that
  `changeCard` shifts.
- *Operations*: ResetYubikey, GpgChangePinYubikey, DeleteSecretKey, RequestAscii, ChangeCard,
  DiceWares; `Result.run` with the callbacks of 'error' and 'close'.
- *Hard*: a child that cannot be started calls back twice; a callback that throws on 'error' ends
  the process; two runs that delete two halves of a key.
- *Correct when*: a browser is told once, what it is told is true, nothing is left half done
  silently.

**Page** (`src/src/ui/model/ws-channel.ts`, `card-status-list-state.ts`, `key-chain-list-state.ts`,
`components/assistent.tsx`, `controls/channel-status.tsx`, `controls/read-ascii-respond.tsx`).
- *State*: the socket and its reconnect timer, the two lists, the status with its delayed timer, the
  loading of the dice ware lists, the dialog that waits for a text.
- *Hard*: reconnects, timers that outlive their connection, answers that outlive their dialog, lists
  merged in place, a `send` that throws.
- *Correct when*: one socket at a time, always back, what is shown is what was sent, an answer is
  for the dialog that shows it.

**SystemCmd** (`src/pam/src/system_cmd.hpp`, `during_exec.hpp`, `pipe_action.hpp`,
`pipe_writer.cpp`).
- *State*: the count of parts that reported, each pipe, the pending wait for SIGCHLD, the result.
- *Hard*: signals and ends of pipes in any order, SIGCHLD of other children, full pipes in both
  directions, a child that could not be executed, a second attempt.
- *Correct when*: nothing of the output is lost, the exit code is the child's, a run ends, a success
  is not run again.

**Assistent** (`src/src/ui/components/assistent.tsx`, `assistent/`, `controls/`; `src/src/ui/model/`:
`simple-yubikey.ts`, `pass-phrase.ts`, `double-password.ts`; `src/src/model/`: `warrents.ts`,
`container.ts`; the server's use of them).
- *State*: the list of warrents (the people a key is made for), the key made for them with its uids,
  its parts of pass phrases and pins; for each part two fields and what the page drew last.
- *Operations*: type, add, done; select and leave the tab; edit, draw, throw dice; send.
- *Interactions*: the lists of Page enable the dice; the first card of the page is the key's; the
  server builds the same object again from the message and throws if it does not fit.
- *Hard*: the list of warrents stays editable until the dice ware lists arrive, and is so again when
  the tab is left and selected; drawn values must not replace typed ones; lengths are dealt out to
  any number of people; an exception at the server is in a listener that nobody guards.
- *Correct when*: the key is for the people listed, typed values stay, what is shown as valid is
  taken by the server.

**Dialogs of cards** (`src/src/ui/components/card-status-list/`, `card-status-dialog.tsx`,
`controls/button-to-progressor.tsx`; `src/src/gpg/types/change-card.ts`).
- *State*: the one dialog, the card and the form it was opened with, its button; the list of cards
  it was opened from; requests at the server, and which of them were told to be over.
- *Hard*: a form is a copy and the card changes under it (by another browser, by an earlier request,
  by a hand that pulls it); a reset names no card at all; the connection goes while a request runs.
- *Correct when*: only what was edited changes, the card wiped is the one named, one request per
  dialog.

**Readers of gpg's output** (`list-secret-keys.ts` and `card-status.ts` in `src/src/gpg/types/`;
`gpg_list_secret_keys.hpp`, `gpg_card_status.hpp` in `src/pam/src/`).
- *State*: what a reader has made of the lines so far and where the next line goes.
- *Hard*: lines say nothing of what they belong to, only their order does; two programs in two
  languages read the same text.
- *Correct when*: each line is filed where it belongs, both programs find the same, what did not
  change is not sent again.

### 1.2 How they interact

```
   person                                                        PAM module ---- SystemCmd ----> commands
     | Assistent, Dialogs                                            |  Readers        launchctl, agent
     v                                                               v
   browser page  <------- web socket ------->  server ------ children ------> gpg, agent, card
      Page            lists, requests,          Observers     (external)
                      answers, progress         Dispatch
                                                KeySets -----> KeyToYubiKey
                                                Readers    CardMove: what a move promises
                            Observers <------------+
                              Transfer: suspend once, resume once or never
```

Two of these arrows are specifications of their own: `Transfer` and `CardMove`. `Observers` takes the
steps of its transfers from `Transfer` as they stand there, `KeySets` is proved to implement it, so
the two big modules can be read, checked and proved apart. `CardMove` is what the callers of
`keyToYubiKey` rely on; `KeyToYubiKey` is proved to implement that.

### 1.3 Parts that are not modelled, and why

| Part | Reason |
| --- | --- |
| Rendering | layout and wording only; what rendering does to the state (an exception that blanks the page) is in `Page` and `Dialogs` |
| gpg mock | a stand-in for gpg in tests |
| PAM module and agent | in the middle of a refactoring at this commit: both files use members that do not exist and do not compile. The retry they share is in `SystemCmd`; how the pin gets from one to the other is not determined |
| gpg-agent.conf | neither of its writers is called at this commit, not by the programs nor by their tests: `Gpg.write_agent_conf` (`gpg.ts:375`, with `agent-conf.ts` and `agent-line.ts`) and `setup_gpgagent_conf` (`pam_clavator.cpp:133`, with `gpg_agent_conf.hpp`) |
| Sockets and pinentry of PAM | `socket.hpp` is used by its own test only; `pinentry.cpp` copies bytes |
| Decoders of PAM (asn1, base64, oid, pem, ssh keys, plist) | functions of one input without state |
| pinentry of the server | renamed to `.ts-off`, not part of the program |
| Images and builds, dice ware word lists | scripts and build steps, no protocol |

Of the parts that are modelled, the following is left out: static files, certificate and command
line of `server.ts`; how gpg and the mock are found (`Gpg.create`, `findGpgMock`); the text of
progress messages; `toChildPipe` together with a retry (the descriptors of the pipe are closed by
then and what their numbers stand for is not determined); how a line of gpg is split into fields;
`ViewWarrent` and the `readable` flags of the assistent (they show and hide fields, nothing else
reads them); `NestedFlag` and `ObjectId`, which serve the rendering; the parameters of `KeyGen`
other than uids and pass phrases, which are data; `create-key-set.ts`, which nothing imports.

## 2. The modules

Each component `X` has its model in `X.tla`, its theorems in `XProofs.tla` (which EXTENDS `X`) and,
where TLC needs definitions for constants or symmetry, `MCX.tla`. The theorems about `Assistent` and
`Dialogs` are in `FormsProofs`, those about the readers in `ReadersProofs`. The `.cfg` files are
named after the module they are run on. State that belongs to somebody else (gpg's keys, a card, the
other end of a pipe) is marked *external* where it is declared; it is modelled by what the code
relies on. History variables are marked as such and no guard reads them.

In all modules one action is one callback, run to its end, since node and the io_service run one
callback at a time. What interleaves is the order of callbacks.

### 2.1 Observers, Transfer

| In the model | In the code |
| --- | --- |
| `conn`, `registry` | `readyState` of a socket, `Observer.wss` |
| `chain[k][c]` | a loop: gpg runs, it has read its device, sends are out, a timer is armed |
| `.wss`, `.shared` | the array captured by `action`; *shared* says it still is the array `register` pushes to |
| `timeoutId[k]` | the one timer `clearTimeout` knows |
| `prevWss`, `prevT` | the fields of `WssUpdate` |
| `Register`, `Unregister`, `Drop` | `register`, the 'close' event, the connection leaving OPEN before that |
| `Fire`, `Read`, `ReadFails`, `Answer`, `SendDone` | timer, gpg looks, gpg fails, callback of gpg, callback of a send |
| `SpawnFails` | gpg cannot be started: 'error' and 'close' call back, and the loop goes on twice |
| `Throws` | callback of gpg with a list that has a uid without a mail: `fill` throws (`list-secret-keys.ts:71`) inside `list_secret_keys` (`gpg.ts:313`), `cb` is never called and the loop is over |
| `Suspend`, `Resume` | the first key goes to the card, the last one is there |
| `Restart`, `Abort` | a transfer of no keys, a transfer that fails (nobody resumes) |

`Read` and `Answer` are apart: what gpg saw and when its exit is noticed differ, and that is how an
older list overtakes a newer one. Only the observer of keys has a reader that throws (`KeyRings`).
The second callback of a gpg that could not be started comes a little later in the code; here both
answers are there at once, and are taken in any order, at any time. A `spawn` that throws instead,
in the callback of a timer, ends the server with all that is modelled here, and is left out. Two
variables are history: `threw`, that the reader of an observer threw since a registration or a resume
last started it, and `missed`, whom the polls that ended like that were for. The four actions of
transfers are those of `Transfer`, with what they do to the loops. The properties:

- `PollingAlive`: with a browser registered the loop goes on, unless a transfer that is under way or
  failed has stopped it, or the reader threw since it was last started.
- `ServedOrPending`: an open socket has a list, or a poll that will bring it is in flight, or the
  poll meant for it got a list that could not be read.
- `OnlyRegisterDisagrees`: browsers that all show the same list go on doing so, in any order of
  answers, closes, suspends and failures; only a newcomer breaks it. That it does is a consequence
  of `wss-update.ts:46`: a poll that covers a newcomer sends to newcomers only.
- `Converges`: a browser that stays sees, again and again, what gpg prints, unless the polling of the
  list is over or, from some time on, the list WssUpdate compares with is withheld from it, as it was
  sent to another browser only (`Withheld`).

### 2.2 KeySets

A request is a `stage` up to its promise and beyond, and for every key a `step` of the thread that
works on it (`uids` n, `subs` n, `get`). `Listed` starts a thread for each key in the keyring, since
all requests of the model ask for the same name and mail. `UidAdded`, `SubKeyCreated`, `Found` and
`NotFound` are the callbacks of one thread; `Found` of the first thread resolves the promise and,
for a `SimpleYubiKey.run`, starts the transfer; `MoveDone` and `MoveFails` are the callbacks of
`keyToYubiKey`, one step here because `CardMove` says a move has one verdict or is lost. `MoveLost`
is that: `rimraf` (`gpg.ts:693`) or a `spawn` on the way throws, the callback is never called and
the stage stays *lost*. Where a thread sends progress to a browser that is gone, `ws.send` throws in
a callback of gpg: the thread is dead and settles nothing. So is one that lists the keyring while
some key has a uid without a mail (`unreadable`, which comes and goes with `BareUid`): `ListThrows`
before the threads are started, `GetThrows` in one of them. A child that cannot be started, with its
two callbacks and the server it may take down, is in `KeyToYubiKey` and `Dispatch` only.

- `ResolvedIsComplete`: if no gpg run fails, the key the promise resolves with has all uids and
  subkeys, also when two requests work on the same key and keys get deleted.
- `CardMatches`: slot i holds subkey i of the one key, as many as were reported, and no other but for
  the next one when the transfer broke off there.
- `NoMoveAfterReject`: who was told *aborted* or *refused* never has a key moved, although the other
  threads of the request go on and try to resolve the same promise.
- `AnsweredOrLost`: every request is answered; the exceptions it lists are the code's (the reader of
  the list throws, or no key matches, or each thread dies of its own list, so that nobody settles the
  promise; the keyring cannot be listed for a `CreateKeySet.Request`; the browser is gone).
- `ImplementsTransfer`: for the observers a lost move is a transfer under way.
- `TransferEnds`: a transfer ends and the browser is told, unless a move is lost: then nobody is told
  and the observers stay suspended for good.

### 2.3 KeyToYubiKey, CardMove

`stage` is the child that runs, or the file operation under way (`mkdir`, `link`); `home` is what
there is of the temporary directory. `Succeeds`, `Fails`, `SpawnFails`, `Closes`, `NextThrows`,
`CardThrows`, `Moved` and `NotRemoved` are all that can happen to a step: the child ends well or
not, cannot be started ('error', then 'close'), the callback throws while it starts the next child,
or the home cannot be removed.

- `LeftoverReported`: a home that outlives its move was reported as a failure, or the move ended
  with an exception of `spawn` or `rimraf` that nobody catches.
- `Settled`: a move has a verdict, with the same exceptions.
- `ImplementsCardMove`: one verdict although the callback may run twice; ok once, and only with the
  key on the card and no copy left.

### 2.4 Dispatch

A child is a record: its request, what it does, its number. `CallBack` is the common part of all
dispatchers: it starts the next child (`FollowUp`) or tells the browser the end (`Claim`), or throws
(`Throws`). `EndsOk` and `EndsBadly` call it once, `SpawnFails` calls it with an error and leaves
the child in `closing`, whence `Closes` calls it again. Throwing on 'error' ends the server (`up`).
`WordsLoaded` and `AddLists` are the two steps of loading the dice ware lists.

- `ToldOnce`: one end per request, nothing runs after it, as long as its children could be started.
- `ToldTrue`: a pin said to be changed was (`PinHonest`); a card said to be changed has all
  attributes of the one request that changed it, though the array is shifted by every callback
  (`CardWritten`); a reset or deletion said to be done was done by gpg, unless a child of it failed,
  since nobody looks at the exit codes (`ClaimsDone`).
- `NotHalfDeleted`: a key without its secret half but with its public one has a deletion at work, or
  one that failed or lost its browser in between.
- `SameLists` (proved, not run): no browser gets the lists twice over, whoever asked before they
  were cached.
- `DownForAReason`: which failures end the server, and no others.
- `Answered`: every request is answered, but for the exceptions listed.

### 2.5 Page

`sock[s]` is a WebSocket, `ws` the one the channel holds, `reconnects` the timers that will call
`connector`. `OnClose` is the 'close' event with everything the channels do then; `Opened` the
'open' event. `asked[s]` is what was sent on `s` and not answered. `Merged` is
`CardStatusListState.onMessage`: known readers are replaced in place, new ones are appended in the
order of the message, and the list is cut to the length of the message. `mounted` is FALSE when an
exception has removed the page.

- `OneSocket`: a socket or a timer that will make one, never both, never two.
- `CardsShown`: as many cards as the last message had; the same cards unless a reader has gone since
  the connection opened (then a card that is gone may stand in the place of one that is there).
- `AnswerFits`, `LoadingHasReason`: requests and their answers; `DiceWareOnce` (proved, not run).
- `ComesBack`, `StatusCatchesUp`: the channel, and what is said about it.

### 2.6 SystemCmd

`completed` is `DuringExec.completed`; the io_service stops when it reaches `Total`, or when
`handle_completed` is called with force. Pipes carry numbered chunks and hold `Cap` of them; `holds`
and `lingers` are the ends the child and a process it left behind have open, without which there is
no end of file. `armed` is the one `async_wait` for SIGCHLD, `raised` a signal that came.
`ForeignDies` and `StragglerDies` are other children of the process, among them the child of the
first attempt. A child whose `execve` failed (`execOk`) writes the error to both outputs and exits
with 42. `program` says what the child does with its input: anything at all, or it is a filter that
writes two chunks for each one it reads, which is what fills pipes in both directions.

- `OutputComplete`: all output is in the result, all input was offered, in whatever order handlers
  ran.
- `ExitCodeHonest`: an exit code in the result is the child's.
- `SuccessIsFinal`: a success is run again only after a failing pipe or a foreign SIGCHLD.
- `RunEnds`: no deadlock of full pipes, no signal waited for in vain. A run that could not fork ends
  only if it has input, whose write fails; without any it waits for a SIGCHLD for ever.

### 2.7 Assistent

A value of a password field is by whom it is (`person`, `chance`) and how long: that is all the code
tells apart of it, and all the properties need. A part is a `DoublePassword` (two fields, what the
page drew last, the limits `MinMax.create` dealt to it, whether it was made with dice ware lists).

| In the model | In the code |
| --- | --- |
| `warrents`, `name` | `AssistentState.warrents`, what each `Warrent` says |
| `mounted`, `done`, `lists` | the tab, `RcWarrents.done` (a new one with each mount), the dice ware lists |
| `syk` | `_simpleYubiKey`, made by `completed()` |
| `TypeName`, `AddClick`, `DoneClick` | the input of the last warrent, the button under the list |
| `EditUid`, `AddUid`, `DelUid`, `TypePart`, `Randomize`, `DiceOne`, `DiceAll` | the form of the key |
| `DiceThrows`, `Approve` | buttons that end in an exception |
| `Ready`, `ServerTakes` | the button 'testing': `toObj`, the message, `fill` and `asKeyGen` at the server |

A warrent is an object and compared as one, so `NewWarrent` takes any id that the list and the owners
of the key do not have. The length of a pin is stated as the number of its digits, and not as a sum.

- `FormFits`: the form is for the people listed, all of them named, no two alike, each with a part
  of the admin pin and of the pass phrase; only a list that was opened again under a key parts the
  two (`reopened`).
- `TakenByServer`: a message ends the server only if the page showed the key as not valid, or for a
  key whose list was opened again.
- `PinLength`: valid pins have the digits they must have in total, however many people share them.
- `TypedStays`: what a person typed is replaced by that person only, not by dice, a random pin or
  another key for the same list.

### 2.8 Dialogs, Forms

`shown` is the list of the page, merged as in `Page`; `dialog` the dialog that is open with the id
of its card and a copy of its attributes; `pending` the requests at the server. A request of another
browser is like one of an earlier dialog of this page, so there is one kind of request. The server
ends a request in one step (`DoesNothing`, `ChangesCard` with any part of the attributes written,
`ResetsCard`); its chains of children are in `Dispatch`. What an attribute says is who wrote it last,
and whether it is *odd*: a value that does not survive the way to the page and back (a name with two
given names, a sex that is not said, an url with several escapes).

Three flags are history, put on a dialog or request when something happens that may part it from
its card: `unsure` (a card was plugged or pulled, so a reset may hit another), `stale` (the card was
written since it was listed), `unheard` (its connection went). The properties name them as their
exceptions, and a flag is only ever put on by what really has that effect.

- `OnlyEditedChanges`: *Update* writes all fields, yet only edited ones change, on the card the
  dialog was opened for, unless the form is stale or the field odd.
- `WipesNamedCard`: a reset, whose request names no card, wipes the one its dialog names, unless two
  cards are in or the list was out of date.
- `OneTryPerDialog`: one request per dialog; once the button is gone its end is told, to come, or
  lost with the connection.

`Forms` puts `Assistent` and `Dialogs` in one specification for one run. They share no state of
their own, so a behaviour is about one of them; it is not a composition.

### 2.9 GpgText, SecretKeys, CardStatus, Readers

A text grows line by line and both readers read each line, so that one run has every text up to its
bound and every prefix. `server` and `pam` are what they have made of it. A line is a record of what
the readers tell apart of it: whether a key has an expiry, how a uid is written (with comment,
without, without mail), which of a card's numbers are empty. `Readers` has both texts, one per
behaviour. `Lines` has what is said of a text: the lines of one kind in their order, the last one of
them. The order is given by rank (the k-th line is the one with k of its kind up to it), not by a
recursion, so that proofs can use it.

- `ServerReadsText`: uids, subkeys, fingerprints and groups are filed under the key they were printed
  for, values of a card under the card and the slot. It is stated over the text, by the sections of
  its lines, and not by a reader. A list is lost exactly if a uid has no mail.
- `QuietPolls`: what gpg prints twice the same is not sent to the browsers twice, but for keys that
  never expire and for numbers of a card left empty (`NaN` equals nothing), and for those always.
- `PamFindsTheSame`: the PAM module finds the same keys, uids, cards and slots, but for names of uids
  with a comment, escapes in the url, and the fingerprints of CAs, which it files one slot too low.

## 3. What TLC checks

| Run | Instance | States | Checks |
| --- | --- | --- | --- |
| `observers_safety` | 1 observer (of keys), 2 sockets, 4 loops, 1 transfer, 3 lists, one of them unreadable, 1 change or failure, symmetry | 562k | `PollingAlive`, `ServedOrPending`, `OnlyRegisterDisagrees` |
| `observers_live` | the same with 2 loops, no symmetry | 467k | `Converges` |
| `keysets_pair` | 2 requests, 2 uids, 1 subkey, 1 slot, no failing gpg, symmetry | 2.09M | `ResolvedIsComplete`, `NoMoveAfterReject`, `ImplementsTransfer` |
| `keysets_single` | 1 request, 1 key from before, 2 uids, 2 subkeys, 3 slots, 2 failing gpg runs | 162k | `CardMatches`, `AnsweredOrLost`, `TransferEnds` |
| `keytoyubikey` | 2 moves, 2 faults | 2.5k | `LeftoverReported`, `ImplementsCardMove`, `Settled` |
| `dispatch_requests` | 2 requests of any kind, 2 browsers, 2 keys, 2 attributes, 2 faults | 467k | `ToldOnce`, `ToldTrue`, `NotHalfDeleted`, `DownForAReason`, `Answered` |
| `page_all` | 2 sockets, 2 keys, all lists of 2 readers with 2 contents, 2 timers, 2 dialogs | 194k | `OneSocket`, `AnswerFits`, `LoadingHasReason`, `CardsShown`, `ComesBack`, `StatusCatchesUp` |
| `systemcmd_command` | any child or a filter, retry, 3 chunks of input, 2 of output per pipe from a child that does as it likes, pipes of 1 chunk, 1 foreign death | 628k | `OutputComplete`, `ExitCodeHonest`, `SuccessIsFinal`, `RunEnds` |
| `forms` | 3 warrents and names, 2 parts of a pass phrase, 2 digits of admin pin, 1 to 2 of user pin; 2 cards, 2 dialogs; symmetry on names | 1.36M | `FormFits`, `TakenByServer`, `PinLength`, `TypedStays`, `OnlyEditedChanges`, `WipesNamedCard`, `OneTryPerDialog` |
| `readers` | keys: texts of 6 lines; cards: texts of 4 lines, 2 ids, 2 slots, symmetry on ids | 310k | `ServerReadsText`, `QuietPolls`, `PamFindsTheSame` |
| `page_blank`, `systemcmd_notlaunched` | the smallest that show it | | one violated property each, section 5 |

`TypeOK` of each module is the first theorem of its proof module and is in no run.

**Why these bounds.** *Observers*: a loop is started only by a registration, a resume or a gpg that
could not be started, so one name for each of them is enough in the safety run, where the guards
that need an idle name never bind. In the liveness run two names are enough for what it asks: a loop
that goes on beside one that was doubled or left over; a step that needs a third waits, which is no
step anybody owes. A newcomer and an old socket need two sockets, an overtaking answer two lists, a
list withheld from one both, and all are there at once; the third list cannot be read. Both
observers have the same code and share only the registry, hence one kind, the one whose reader may
throw. *KeySets*: two requests are what it takes to find each other's unfinished keys; two uids are
one beyond the first (which comes with the master key); more slots than subkeys and fewer both occur
(`NSlots` 3 and 1, and a key found by two requests can get more subkeys than asked for).
*KeyToYubiKey*: a fault ends a move, so two faults for two moves are no bound at all. *Dispatch*:
the shared state is the keys, the card and the lists, and each pair of the six kinds of requests
meets on them; two attributes have a first and a last. *Page*: a closed socket is used again, so two
sockets stand for any number of connections; lists of two readers have every order, and every way to
lose, gain and replace a card. *SystemCmd*: pipes of one chunk with more than one to transfer block
both sides, which is the point; a second foreign death finds no wait that is left to take. Further
pipes to the child have the same handlers as its stdin; the theorems are for any number, no run has
one. *Forms*: three people are one more than there are parts of the pass phrase and digits of the
admin pin, so that parts are shared and a part without a digit occurs; three names are what a list
of three needs; two uids give one to keep and one to delete; two fields changed by a person are
enough to make a part valid, or to part its two fields. Two cards and two dialogs let a reset meet
the other card, and a change meet one that was sent before it; one edit of two fields leaves one
that must not change. *Readers*: six lines hold two keys, of which one has a subkey, each with what
belongs to it; four lines hold two cards with a line each, or one with three; two slots show a
shift.

**Deadlock** is checked for the page, which never stops. Everywhere else it is off in the `.cfg`,
because the system may stop: bounded requests are all over, all browsers are gone, the command has
returned, the text is at its end, an exception has removed the page.

**Fairness.** It is stated in each module next to `Fairness`, and is what the runtime gives:
children of gpg end and their callbacks run (`ChainStep`, `Task`, `Thread`, `Ends`, `Closes`,
`Proceeds`); the event loop runs due timers (`StatusTimer`, `Connector`); a dropped socket emits
'close' (`Unregister`, the failing sockets of `Page`); the io_service runs handlers that are ready,
and a command and what it leaves behind end (`SystemCmd`). All of it is weak fairness but for one:
`Opened` is strongly fair, since a page can only be expected to come back if the server can be
reached again and again, and each attempt that fails disables it for a while. Users, browsers that
leave and all failures owe nothing. `Assistent`, `Dialogs` and `Readers` state none: a
person owes nothing at a form, and no liveness is claimed there.

Every property of a passing run has a mutant in `PROJECT.json`: a plausible slip in one definition
of the model (a suspend that stops polls in flight, a slot counted from the index, a promise settled
twice, a cache that is never looked at, SIGCHLD that guesses), kept in the module next to the
definition it replaces, under which TLC finds the property violated in the same run. They show what
each property is able to catch.

## 4. What is proved

All theorems hold for every value of the constants that satisfies the named assumptions of the
module: any number of sockets, keys, requests, readers, pipes, any bound, any list. The assumptions
say that names differ, that counts are natural numbers, that some sets are finite, and one more
thing: a command with a retry has no pipe of its own (`RetriesAssumption`). TLC evaluates each of
them in the runs.

| Module | Theorem | States |
| --- | --- | --- |
| `ObserversProofs` | `TypeCorrect` | `TypeOK` |
| | `PollingNeverStops` | `PollingAlive` |
| | `StrangersAreUnknown`, `NewcomersAreServed` | a socket not yet connected is in no book and in no poll; an open one unknown to `WssUpdate` is in a poll or missed one that could not be read, and who is known has been sent a list |
| | `OpenIsServedOrPending` | `ServedOrPending` |
| | `AgreementIsKept` | `OnlyRegisterDisagrees` |
| `KeySetsProofs` | `TypeCorrect` | `TypeOK` |
| | `ResolvedComplete` | `ResolvedIsComplete` |
| | `RejectedForGood` | `NoMoveAfterReject` |
| | `CardIsAsReported` | `CardMatches` |
| | `Refinement` | `ImplementsTransfer` |
| `KeyToYubiKeyProofs` | `TypeCorrect`, `LeftoversAreReported` | `TypeOK`, `LeftoverReported` |
| | `Refinement` | `ImplementsCardMove` |
| `DispatchProofs` | `TypeCorrect`, `EndsOnce`, `TellsTheTruth`, `HalfAKeyHasAReason`, `GoesDownForAReason`, `AllGetTheSame` | every invariant of the run, and `SameLists` |
| `PageProofs` | `TypeCorrect`, `NeverTwoSockets`, `NoForeignAnswer`, `WaitsForSomething`, `LoadedOnce`, `ShowsWhatWasSaid` | every invariant of the run; also `DiceWareOnce`, and that a closed channel shows nothing (`ShowsOnlyLive`) |
| `SystemCmdProofs` | `TypeCorrect`, `NeverStopsEarly`, `NothingIsLost`, `ExitCodeIsTheChilds`, `SuccessIsNotRepeated` | `TypeOK`, `StopsWhenDone`, `OutputComplete`, `ExitCodeHonest`, `SuccessIsFinal` |
| `FormsProofs` | `FormIsForTheList`, `ValidFormIsTaken`, `NobodyOverwrites`, `PinsAreLongEnough` | `FormFits`, `TakenByServer`, `TypedStays`, `PinLength`, for the assistent alone (`AssistentSpec`) |
| | `DialogsTypeCorrect`, `TriesOnce`, `UpdatesWhatWasEdited`, `WipesTheRightCard` | type correctness of `Dialogs`, `OneTryPerDialog`, `OnlyEditedChanges`, `WipesNamedCard`, for the dialogs alone (`DialogsSpec`) |
| | `BothForms` | the seven properties, for a page with both |
| `ReadersProofs` | `TextIsFiled`, `PollsAreQuiet`, `PamAgrees` | `ServerReadsText`, `QuietPolls`, `PamFindsTheSame` |

### 4.1 The arguments

**Observers.** `PollingAlive` is inductive over `TypeOK`: whatever kills a loop is followed, in the
same callback, by a new one, or is a suspend, or is a reader that throws, which `threw` remembers
until a registration or a resume has started a loop anew. The interesting case is `register`, which
cancels the last timer and starts a poll, and `suspend`, which cancels one timer and may leave
others. `ServedOrPending` is not inductive: a poll serves exactly those of its array that
`WssUpdate` does not know, so the proof needs both halves of `NewcomersAreServed` (whoever is
unknown is in a poll, or missed one; whoever is known was sent something), and for a fresh socket
that nobody has it in a book (`NewIsUnknown`). `OnlyRegisterDisagrees` rests on `Agreed`, which says
of polls in flight that they cover all registered sockets and none that is unknown: without the
second part a late answer would count a socket as a newcomer and skip the others.

**KeySets.** That a key is complete when it is fetched is a property of a thread's whole history.
The invariant `WorkIsDone` says of each `step` which uids and subkeys the key of that thread must
have by now (`Backed`), and `Fresh` that nobody works on a key that is still to be made. Other
requests only add to what a key has; a deletion takes the key out of the keyring, so that it cannot
be fetched any more, and what is said of a key chosen before is what it had then.
`NoMoveAfterReject` needs to know that the message *aborted* and the stage *rejected* come from the
same step (`RejectInv`), and that a promise which is rejected ignores later resolutions.
`CardMatches` needs two counts of each request: `Counts` says at which stage how many keys have been
moved and when that has been reported, `OnCard` that a request which is alone with the card has
filled its slots from the first one on, from one key. A move that ends without a callback, or with a
bad one, may have written the next slot; that stage is the last of its request, so it is one at most.

**KeyToYubiKey.** `HomeInv` ties the stage to what is on the disk, `VerdictInv` says that a verdict
comes when a move is over and not before, and that the second callback of a child that could not be
started finds a move that already failed. The refinement follows case by case from these two.

**Dispatch.** The proof is organised around what all callbacks share: lemmas `BackTypes`,
`BackChild`, `BackOnce`, `BackHalf`, `BackCard` and so on say what a callback preserves, once for
all the ways it is called. `ChildInv` says what a child may be for its request, `OnceInv` that a
request whose children start has one at a time, `CardInv` that attributes up to the running child
are written, `DiceInv` that whoever waits for lists waits before the first copy is added. For
`ClaimsDone` the invariant says of a request whose children all ended well how far gpg has come with
it (`BackDone`).

**Page.** `ActiveInv` ties `isActive` to the socket that is held, `TxnInv` says that a request with
the transaction of the open dialog is that dialog's own, `DiceInv` that at most one callback waits
for the lists. `AnswerFits` needs `TxnInv`; `LoadingHasReason` needs all three, and `OneSocket`,
because what is asked on a socket is lost with it. `CardsShown` has an invariant of its own
(`CardsInv`): each reader is in the list once, and was in some message of this connection. If no
reader of those has gone, the cards the list had and the fresh ones of a message are together the
readers of the message; as many different cards as it has, all of them its own, are all of them, so
cutting the list to its length drops none. No induction over messages is needed.

**Assistent.** `TypedStays` is not inductive: what the page fills in goes to fields whose value is
what it drew last, so the proof needs that this is never what a person typed (`FieldInv`), also for a
key that is made anew with the same list. `FormFits` and `TakenByServer` need the shape of a key
(`KeyInv`: its parts follow its owners in turn), of the list (`ListInv`: all but the last are named)
and that an unopened list is that of the key (`ReopenInv`). `PinLength` would be a sum over parts;
instead, place k of a pin is given to part k % n + 1, which is a bijection between the places and the
digits of all parts (lemma `SumOfDealt`), so that the lengths add up by counting.

**Dialogs.** The three flags are what the invariant is about. `FormInv` says of the dialog and of
every request of any time that what its form says of a field not edited is what the card says,
unless it is stale; `ShownInv` ties the list that is shown to the cards in the readers: if nothing
was plugged or pulled since the list and none went while others stayed, it shows only cards that are
in. So a dialog opened from it that is not unsure names the only card, if there is one. Each step
that disturbs either puts the flag on whatever it disturbs (lemmas `Marked`, `MarkedForms`, `Keeps`,
`StaysOpen`). `TxnInv` says that a transaction is the number of its dialog, hence one request each.
That the merged list has no hole where it is cut to the length of the message is a count
(`MergedCards`): the cards it knew and the fresh ones together are at least those of the message.

**SystemCmd.** `CountInv` is the heart: `completed` is the number of pipes at their end plus one for
the signal, so reaching `Total` means all of them, and no order matters. `OutFlow` and `InFlow`
conserve chunks; `ReadyInv` describes the state from which an attempt starts, the second as well as
the first. `SuccessIsFinal` has `SignalInv`: in the first attempt, a wait for SIGCHLD that is over
before the own child died was ended by another child, and a child that was reaped with a code left
that code in the result.

**Readers.** A reader is proved right line by line, and not by what it computes for a text. The
invariant says what the last lines mean: the current key (or the open card) is the last one printed
and nothing has ended it since (`Current`); each key, uid, subkey or slot holds what its
lines say (`Filed`, `SlotsFit`: the last line of a field, or nothing if it has none). One more line
changes the section it belongs to and no other, and since the order of lines is their rank, the lines
before it keep their places (lemmas about `Lines`). `PamFindsTheSame` compares no results: the two
readers are kept `Alike` with each line they read, up to the named differences. `QuietPolls` is about
one text read twice, so it follows from what a reader holds when compared with itself.

### 4.2 What is only model-checked

- Liveness: `Converges`, `AnsweredOrLost`, `TransferEnds`, `Settled`, `Answered`, `ComesBack`,
  `StatusCatchesUp`, `RunEnds`. The prover does not handle fairness and ENABLED.

Every safety property of the passing runs is stated by a theorem. What a recursion computes for every
input would take an induction the prover does not have; the modules with theorems have none, as they
say what is counted, ordered or merged by sets, ranks and cardinalities.

## 5. Where the code and its texts disagree

- **A command that was not executed can be ok** (`systemcmd_notlaunched`, `NotLaunchedIsNotOk`).
  `src/pam/src/system_cmd.hpp:393` says not ok only for exit code 42 together with the error on both
  outputs. If the command has input, its first write fails once the child is gone, the io_service is
  stopped by force and the exit code is never seen. The test 'not launched'
  (`src/pam/test/test_system_cmd.cpp:45`) says that `ok` is false for a command that cannot be
  executed; it runs without input.
- **The page sends while there is no connection** (`page_blank`, `SendsConnected`).
  `src/src/ui/model/ws-channel.ts:32` tests an observable box instead of its value, so a component
  that registers is always told that the channel is open; half a second later the dialog 'Wait for
  Reconnect' goes, and a click on the assistent runs into `throw new Error('ws socket not
  connected')`.

Other things the models show, which no text of the repository contradicts, and which the properties
therefore carry as named exceptions:

- *Server.* A failed transfer ends the polling for all browsers until another one is done
  (`PollingAlive`), and one whose move is never answered leaves it suspended for good
  (`TransferEnds`); a key with a uid without a mail ends it too, at the next poll (`PollingAlive`);
  two transfers are not counted, the first that ends resumes under the second; a poll that covers a
  newcomer withholds a changed list from the others until it changes again (`OnlyRegisterDisagrees`,
  `Converges`); a request whose key does not match, or whose list cannot be read, is never answered
  (`AnsweredOrLost`); a reset and a deletion are said to be done whatever the exit code was, and for
  a reset even if gpg could not be started (`gpg-reset-yubikey.ts:31`, `delete-secret-key.ts:47`;
  `ToldTrue`); a copy of a secret key stays on the disk after every failure (`LeftoverReported`).
- *Assistent.* Approvals always throw, because `checkWarrents` (`rc-approve-warrents.tsx:23`) changes
  an observable outside of an action (`app.tsx:33`), so with two people or more the key is never
  completed. A key made before the dice ware lists arrive has no dice, and their buttons throw.
  *done* without a card drops the last input, then throws (`assistent.tsx:163`). A deleted uid leaves
  a hole, at which `toObj` throws. The button 'testing' is always enabled, and the server does not
  guard the listener (`server.ts:95`): a phrase that is not valid, or more parts than the list has
  people, ends it (`TakenByServer`). With more people than digits some part of a pin has no limit
  (`PinLength`).
- *Dialogs.* The dialog that sends a key to a card blanks the page whenever it opens
  (`card-slot.tsx`); an update changes odd fields nobody edited (`gpg.ts:702` for names, `:706` for a
  sex that is not said); a reset with two cards in wipes either; a card that was removed may stay on
  the page in the place of one that is there (`CardsShown`, `WipesNamedCard`).
- *Readers.* One uid without a mail loses the whole list of keys (`list-secret-keys.ts:71`); a key
  that never expires makes every poll a change (`:214`); the PAM module files the fingerprints of
  CAs one slot too low (`gpg_card_status.hpp:202`).
- *SystemCmd.* A success whose exit code was lost is run again without its input (`SuccessIsFinal`);
  a command without input whose fork fails never returns (`RunEnds`).

## 6. Plan

Done, in this order: `Observers` and `Transfer`, `KeySets`, `SystemCmd`, `Page`, `Dispatch`,
`KeyToYubiKey` and `CardMove`, each with its runs and theorems; then `Assistent`, `Dialogs`,
`SecretKeys` and `CardStatus`; then the theorems about these, and the ones still missing
for the others, so that every safety property that is checked is proved as well. Next:

1. **Compositions**: `Observers` with `KeySets` in the place of `Transfer`; `Page` with a server
   whose lists come from `Observers`; `KeySets` with `KeyToYubiKey` in the place of the single step.
   Both sides of the first and the last are proved to keep to the specification between them.
2. **PAM module and agent**, once the code determines how the pin gets from one to the other, and
   gpg-agent.conf once something calls its writers.
