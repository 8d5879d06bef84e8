# Verification of Pico FIDO

TLA+ models of the firmware in `src/fido`, the TLC runs that check them on small
instances and the TLAPS proofs of what holds for every value of their constants.
Paths are relative to the repository; a number after a file is a line.
`PROJECT.json` lists the components, the runs with the properties they check,
the source lines of every definition, the hazards that the properties are for,
the places where the code and its documentation disagree, and the theorems. For
each property it names a *mutant*: a definition changed as a plausible mistake
in the code would change it, under which TLC finds the property violated.

    tlc -config Oath.cfg MCOath          # a run: module and cfg are in PROJECT.json
    tlapm PinToken_proofs.tla            # the proofs of a module

## 1. The system

One thread (`cbor_thread`, cbor.c:111) takes requests from the USB core and
handles them one at a time; CTAP commands, APDU applications and button presses
are its handlers. A second task, `bio_task` (biometric.c), owns the fingerprint
sensor. State is in flash files, written one at a time, and in global variables
that live until the power is lost. So there are four sources of difficulty:

* **writes that belong together**: a handler writes several files, and the power
  may fail between two of them;
* **state in RAM between requests**: enumerations, the list of an assertion,
  tokens, sessions, a large blob half written, which other requests, deletions
  and a factory reset meet in the middle;
* **two tasks**: commands and events in queues, flags and a cache both tasks
  touch, one serial line to the sensor without a lock, waits that end before the
  command does;
* **limits**: retry counters, bytes that count to 256, 16 credentials in a list,
  counters that wrap.

| Component | State | Operations | What makes it correct | Module |
|---|---|---|---|---|
| PIN, tokens, configuration (cbor_client_pin.c, cbor_config.c; checks in cbor_make_credential.c, cbor_get_assertion.c) | `ef_pin`, `ef_minpin`; `paut`, `ppaut`, mismatch counters | set, change, get token by PIN or finger, setMinPINLength, make, assert, reset | the policy always holds or a change is forced; a token is good for what was asked, by who showed the PIN now set | PinToken |
| The same, write by write (with fido.c, kek.c) | `ef_pin`, `ef_keydev`, `ef_minpin`, `ef_pauthtoken`, `session_pin` | each write and comparison of setPIN, changePIN, getPinToken; power loss | guesses are paid in advance; the device key stays openable; tokens die with their PIN | PinVault, PinFlash |
| Discoverable credentials (credential.c, cbor_cred_mgmt.c) | `EF_CRED+i`, `EF_RP+i`; positions of the enumerations | store, delete, update, enumerate | counts match files; an enumeration misses nothing | CredStore |
| Fingerprints (biometric.c, cbor_bio_enroll.c) | the sensor's slots, queues, flags, slot cache, names | enrol, verify, remove, cancel, list, name | an answer is that of its command; cache, names and promises are true; the task comes back | BioTask |
| Assertions (cbor_get_assertion.c) | `credsx`, `credentialCounter`, `flagsx`, `timerx` | getAssertion, getNextAssertion | each permitted account once, newest first, to its relying party only | Assertion |
| OATH (oath.c) | `EF_OATH_CRED+i`, `EF_OATH_CODE`, `EF_OTP_PIN`; `validated` | the commands of the application | a HOTP code once; access only for who proved it | Oath |
| OTP slots (otp.c) | `EF_OTP_SLOT1/2`, `session_counter`, `scanned` | press, configure, update, swap, start | the next password is new; configurations stay | Otp |
| Large blobs (cbor_large_blobs.c) | `ef_largeblob`; position and buffer of a write | set in fragments | the array read is one that was written whole | LargeBlobs, BlobStore |
| Device key, lock and counter (fido.c, cbor_config.c, cbor_vendor.c; the requests that sign) | `ef_keydev`, `ef_keydev_enc`, `ef_certdev`, `ef_counter`; `keydev_dec` | boot, enable, disable, unlock, backup, wrap, sign | the key is never lost nor left beside its lock; the counter grows with every signature | DeviceKey |
| U2F (cmd_register.c, cmd_authenticate.c) | none of its own between requests | register, authenticate | the certificate is for the key that signs; counts grow | DeviceKey |
| Sensor driver (drivers/r302.c) | the serial line; the sensor's image, buffers and library | the commands of a verification, enrolment, removal and scan | a run is decided by the replies to its own commands | Sensor |
| Dispatch, management, device information, files | | | | not modelled |

How they meet: clientPIN hands out the tokens that makeCredential, getAssertion,
credential management, bio enrolment, configuration and large blobs verify; the
PIN opens the device key that every credential is encrypted under, and the lock
puts it under a key of the host instead; getAssertion
reads the files that makeCredential and credential management write; the UV path
of clientPIN and the check for presence use bio_task, and both tasks the sensor; a restart starts all of
them anew, and a factory reset erases the files of all of them and the RAM of
none.

## 2. Modules, and how they correspond to the code

A handler is one action where nothing can come between its steps, and a sequence
of actions where a power loss or another task can. A request that is refused
before it changes anything is a step that changes nothing and is left out.
Variables have the names of the code's; those marked *history* in their
declaration are not in the code and no guard reads them, but for the bounds of
an instance.

* **PinToken** has the handlers of the PIN and its tokens as single actions.
  PINs are model values with a length; a wrong PIN is one that does not compare.
  The stored minimum is a byte (`% ByteMod`), as in cbor_config.c:272.
* **PinFlash** takes setPIN, changePIN and getPinToken apart into their writes
  (`job.at` is the next step) with `PowerLoss` between any two. **PinVault** is
  what they promise of guesses and retries; `ImplementsVault` is
  `V!Spec` under the mapping of PinFlash's variables onto PinVault's.
* **CredStore**: `Store`/`AddRp` and `Delete`/`SubRp` are the two writes of a
  change. A credential is a relying party and a user; `Clash` is which user
  identifiers are a prefix of one another, all that credential.c:322 tells apart.
  Byte counters wrap at the number of slots, as 256 does in the code.
* **LargeBlobs** is the handler of one request: `SetFirst`, `SetNext` and
  `SetRefused`, a request that has set size and place when it is refused. An
  array is a row of cells, each with the array it was taken from and its place
  in it, so that pieces of two hosts can be told apart; the first cell stands for
  the 17 bytes whose checksum is not looked at. **BlobStore** is what is
  promised: no positions and no buffer, a write takes effect with its last piece
  or never. `ImplementsStore` is `B!Spec` with the buffer up to the next offset as the draft.
* **DeviceKey**: a handler is the row of file writes it has left, `job`, which
  other requests wait for and a power loss cuts. The key file has the formats of
  the code: raw, with a format byte in the clear (`f1`) or under the PIN (`f2`),
  and the zeros it is overwritten with. AUT_ENABLE encrypts a file of
  33 or 61 bytes into room for 32; what the rest overwrites is undefined, and the
  model keeps what the file then has: the tag cut off, a blob nothing opens
  (`Broken`). A device may come from older firmware, with a PIN file of 34 bytes
  (`oldPin`) and perhaps a key of 32 bytes that `ef_mkek` encrypted: the first PIN
  shown writes back whatever load_keydev returned (`UpgradePin`, `ChangeOldPin`),
  and when that returns nothing the request fails, every time (`FailUpgrade`).
* **Sensor**: the two ends of the serial line. `Send`, `Receive`, `NoReply` are
  the tasks' side of r302.c, with the runs of commands of biometric.c (`First`,
  `After`, `AfterTz`); `TakeImage` to `Count` are the sensor, known only from its
  use. After a timeout the driver returns 255, which search and count take for a
  length, and they look at a code nobody wrote: `NoReply` takes any.
* **BioTask**: the actions of the card task (`Ask` to `CardReturns`) and of
  bio_task (`TaskStep`), one for each use of a queue, a flag or the cache, and
  `Fingers`, the user. `Look` is the check for a cancellation between two looks at
  the sensor (biometric.c); only after it can a finger be taken. Of the line
  Sensor models, BioTask keeps what comes of it: a scan may miss a template
  (`ScanSlot`), a store or delete that was done may be reported as failed
  (`Unheard`), whoever else is or is not at the sensor, and when the reply read
  may be that of another command (`Stray`) a slot may seem used and a failed
  command done (`Misheard`). `Straggles` is a reply given up: nothing flushes the
  line, so all that follow may be off by one until a restart. Outside a scan the
  count of templates is only compared with 0, and any value is allowed for it.
  **Templates** has the template numbers of both, whose other names differ so that
  one module can prove things about both. Time is not modelled: a wait may end at
  any moment.
* **Assertion**: `Chosen` is the part of cbor_get_assertion that picks the
  credentials (load, filter, sort, truncate), `GetAssertion` writes the list and
  `GetNextAssertion` takes it up. A request that answers with one credential
  changes nothing here. An allow list may name a credential twice, which is then
  loaded twice (`writer.twice` is which ones). The time of creation is the time since the last start.
  The loops of the sort are recursive functions (`Pass`, `Sorted`). **CredFiles**
  has the files both modules speak of.
* **Oath** and **Otp**: an action for each command that changes state. In Oath a
  HOTP code is sent after its factor is written (`Calculate`, `Send`), and a PIN is
  compared before its counter is (`VerifyPin`, `WriteEntry`). `Validate` is given a
  response of full length; `ValidateShort` is one of fewer bytes, of which only
  those are compared, so that an empty one always passes. In Otp a
  password is typed before (`PressYubico` or `PressHotp`, then `Write`).
* **MC...** modules hold the values of constants and the symmetry for TLC;
  **..._proofs** modules the theorems (BioTask_proofs those of Sensor too, CredStore_proofs
  those of Assertion).

## 3. The runs

| Run | Instance | States | What it shows |
|---|---|---|---|
| `pin_token` | 4 PINs, 4 retries, 3 mismatches, 2 relying parties, a sensor | 346 000 | the PIN meets the policy, the policy only tightens, a blocked PIN yields nothing, and the life of tokens over every sequence of requests, restarts and resets |
| `pin_flash` | 3 PINs, 3 retries | 46 000 | GuessBudget, the device key and the persistent token with the power lost anywhere; PinFlash implements PinVault |
| `cred_store` | 3 slots (and so bytes of 3 values), 2 relying parties, 3 users | 785 000 | counts and enumerations under interleaved changes, at the limit of the byte too |
| `bio_task` | 2 slots, one of them named, queues of depth 1 | 1 110 000 | answers, cache, names and promises over both tasks, with replies lost, late and misread; bio_task comes back |
| `assertion` | 3 slots, list of 3, 2 relying parties, 3 credentials, allow lists of 2, 2 starts | 169 000 | what the answers of a list have in common; nothing permitted is left out |
| `oath` | 2 names, one the beginning of the other, 2 slots, 3 keys, 2 codes, 2 PINs | 1 600 000 | HOTP codes once, sessions, the PIN's counter, names |
| `otp` | 2 slots, 2 configurations, counter up to 3, session counter of 2 values | 1 900 000 | the next password is new, configurations stay |
| `large_blobs` | 5 arrays of 1 to 3 cells, fragments of 0 to 2 | 2 500 | what is stored is one array whole; LargeBlobs implements BlobStore |
| `device_key` | 3 keys, counts up to 2, 2 mishaps between two resets | 2 440 000 | where the key is, what is made under it, that counts grow and booting completes, over lock, backup, PIN, older firmware, signatures and power loss |
| `sensor` | 2 fingers, 2 slots, 1 packet left on the line by a timeout | 1 690 000 | which reply decides a match, and what a run that nothing disturbed leaves true |

Why the instances are large enough: the properties relate at most two PINs (the
old and the new), two tokens, two relying parties, two credentials or two slots
and one other, and every counter is given few enough values to reach its limit
and wrap within the run: retries run out, a byte of three values overflows with
three slots full, the session counter wraps and the counter stops, queues are
full at depth 1 (2 in the code). In `large_blobs` two arrays of two cells and
two of three can be mixed at every place, in one fragment or several.
In `bio_task` the host names the finger of one slot, which is what NamesOwn needs
of the other one: somewhere to be enrolled instead. `device_key` has three keys, so that there can be two resets and what one left
meets the next, and two mishaps between them, one upon what the other left. In `sensor` one late packet is enough to put every later
reply off by one, and both tasks can still have a command of their own under way. `assertion` has as many slots as the list has
room, so that OffersAll says something of every state; with more credentials
than room the code leaves some out, which is in the list of hazards.
`Slots`, `MaxList`, `MaxPinRetries`, ... are constants of the code; the
bounds of the instance alone are named as such where they are declared.

Where a property holds only with an exception, the exception is a history
variable that says what happened (`cut`, `stale`, `unsettled`, `doubtful`, `late`,
`excused`, `clash`, `proven`, `lost`, `twice`, `odd`, `clean`), and the exception is a hazard of `PROJECT.json` at its
line. They are:
a power loss between two writes that belong together; an enumeration that a
change interrupts; a wait that ended before its command; a fingerprint slot that
was misread, or whose store or delete was done and reported as failed, and all
slots once a reply was given up; a credential the allow list named twice; an OATH
session opened by a response shorter than the code; an OATH PIN compared
with the power lost before its counter was written; an OTP slot swapped or
updated; a start at which the host asks for the OTP status before the slots are
counted up; a rename onto a name in use; a run at the sensor beside another
task's or after a timeout; and the mishaps of DeviceKey, which its properties list
one by one: a lock of a file with a format byte, or of one under `ef_mkek`, an
unlock that fails on an unlocked device, AUT_DISABLE, a change of PIN or an
upgrade of the PIN file on an unlocked device, either of them after AUT_DISABLE
or with a key that is none, a backup put over another key, a reset of an
unlocked device. PolicyTightens
names one in its formula: a minimum length that the byte cannot hold
(cbor_config.c:272: 256 is stored as 0).

### Where the code and its documentation disagree

Two runs are counterexamples to what a document or a test says: `pin_uv` (user
verification is reported from a token that survived a factory reset) and
`cred_user` (of users with a common prefix the wrong one's credential is replaced).
Each checks one property and TLC ends with the trace that violates it.

### Fairness

Only `bio_task` has a liveness property, TaskComesBack: whatever command it
took, it asks for the next one again (it is without a command again and again). It assumes weak fairness of `TaskStep`
alone (of which every step moves `running`, so that variable is the subscript): the scheduler runs a task that is ready, and the driver's waits for a
reply of the sensor are bounded. The user (`Fingers`) and the card task are not
fair. The other components are handlers that end, and have no such property.

## 4. What is proved

The `..._proofs` modules are checked by TLAPS. Their theorems hold for every set
of PINs, relying parties, users, permissions, keys, seeds, names, codes, arrays
and fingers, every number of slots, retries, cells and signatures and every depth
of the queues that satisfies the assumptions declared in the modules: counts are
positive, the sorts disjoint, lengths below the byte, template numbers a finite
initial segment from 0, and `None` and the other marks none of the values they
are told apart from. 39 of the 40 properties of the passing runs are stated by a
theorem. What most proofs need is an inductive
invariant, stated at the head of the module in named parts with a comment on each;
TLC checked it on the run's instance first. Each theorem names the property it
proves.

**PinToken_proofs.** TypeCorrect goes by one step for each action. PolicySafe
needs `ForcedHasPin` (a change is forced only on a PIN that exists): without it
setPIN could clear a forced change on nothing. TokensSafe proves the parts of
TokensHeld together, since each is what the other needs when a
PIN is changed while a change is forced. UsesSafe (TokenUses) needs `BoundToUse`: a
permission to make credentials implies that the token is bound to the relying
party it made one for. PolicyStays and BlockedStays are action properties:
the first needs PolicySafe and TokensSafe, so that a request that takes a forced
change back can only be authorised by a fingerprint's token, the second the
type invariant.

**PinFlash_proofs.** The inductive invariant `IInv` adds to the types what each
point of a handler knows: which PINs the running job holds (`JobType`,
`Present`), that a retry was paid before a comparison (`Paid`: the sum of wrong
guesses and retries is one less than the limit from the decrement on), and which
session the device key is wrapped under (`Wrapped`). KeySafe, GuessSafe,
SessionSafe and TokenSafe follow, the last two with an invariant of their own
(`SessionInv`), and Implements shows that each step is a step of PinVault or
changes none of its variables.

**CredStore_proofs.** `CountInv` says of each relying party that it has exactly
one file, with the number of its credentials in a byte, less or more the one a
write is still to come for (`Pending`), or no file if there are none. That a new
relying party finds a free file (`RoomForRp`) is a pigeonhole: each file is that
of a relying party with a credential, and a credential just stored is in a slot
of its own. `RpEnumInv` and `CredEnumInv` say what an enumeration has replied
after m answers: the first m files in the order of slots (`Place`, the number of
files up to a slot), so that after as many answers as it announced none is left;
with all slots of the byte taken the number announced is 0, which is why the
property speaks of fewer. The search for the next file takes the lowest
one; that there is one is the principle of the least number, taken from the
library's well-foundedness theorem (`WFMin`), which needs no induction scheme.

The second part of the module is about Assertion. That a recursive function
exists, and what it returns, are inductions over data, which no scheme can be
cited for; but over an interval the same least number proves them (`Climb`: a
set that holds the first number and with each the next holds them all), once the
set is named. So the loops of the sort are defined (`PassFacts`, `SortedFacts`), every exchange leaves
a rearrangement of the same credentials (`Orders`), and after i passes the first
i entries are in order before all that comes after them (`Settled`). With
`RecordInv`, that the numbers of credentials differ and that of two made since
one start the later has the later time, a list sorted by time is sorted by number
(`OrdersInOrder`). `AnswersInv` says what has been answered from a list that lasts: its
beginning, without the first entry if the request that wrote it failed
afterwards. OfferedOnce, PromiseHolds and AnswersLawful follow; AllOffered is a property
of `Chosen` in every state with `RecordInv`.

**BioTask_proofs.** Nine invariants that need one another. `OwnInv`: the command
the card task waits for is the last one handed over, and after its event there is
no other. `CleanInv` and `ForeignInv`: whatever else is in the queues is of an
earlier wait, and its slot is known to be unsettled. `ResultInv`: what a command
that is waited for says it did is so, until a reply was given up. `ScanInv`: a scan
has seen the slots below the next one that are not `doubtful`, and with a slot
that is not, bio_task sleeps and the count was right. `CacheInv` and `ReadyInv`: outside the doubtful
slots the cache is off by the command that has just ended, at most, and only
until bio_task marks it. `SlotInv`: a slot that
is settled is as its name and its promise say, but for the slot of a command
that was answered and whose answer was not yet read (`Unanswered`). OwnAnswers,
CacheExact, PromiseFree, NamesTheirs and AnswersTrue follow. The invariants were
also model-checked with queues of depth 2, as in the code.

The second part of the module is about Sensor. MatchSearched needs only that a reply which says ok and is as long as
one to a search is one (`LineInv`). OutcomeRight needs `StepInv`: a clean run and the
sensor go in lock-step, with one command or one reply on the line, and what the
reply will make of the run is already so in the sensor (`Fits`, at the place the
run will go to). SensorTypes bounds the line: no more packets than
tasks that wait and packets left by timeouts (`RoomInv`).

**Otp_proofs.** `KeyInv`: keys are configured once, two slots share one only
after a swap that was cut, and a handler in mid-write holds its slot's own
record (`OwnRecord`). `OrderInv` is then NextIsNew at every point of a handler:
what was typed last comes before what the slot types after the write
under way, after init_otp has counted the slot up, or at once. PasswordsNew
follows, and ConfigsSafe from `KeptInv`, which counts in the record a swap holds
in RAM.

**DeviceKey_proofs.** The rows of writes a handler can have left are named (`JobInv`,
`Stage`) and closed under taking the first write away, so that a step is a case by
what is left of a row. `CountInv`: the counter is
above everything a key *at hand* has sent, where at hand are the keys in the
files, in RAM and in what is still to be written; so a backup that is put back
is named in the property. `CertInv`: there is one key at hand, and the certificate is for
it. `KeptInv`: a handler that overwrites one of the two files leaves the key in
the other. `LockInv`: key and blob lie side by side only between two writes.
`CleanInv`: zeros lie in the file only before the last write of a lock. `BootInv`:
until the counter is there nothing but scan_files has run since the reset.

**LargeBlobs_proofs.** The inductive invariant adds `Filled` to the types: no
cell below the next offset is one nothing was received for. Without it a row of one
cell, whose checksum is not looked at, could be stored unwritten. StoredWhole
follows, and Implements shows that every request is a step of BlobStore or
changes none of its variables: lemmas say that a fragment taken at the next
offset appends its piece to the draft (`RowReceived`) and takes effect when the
draft is complete (`TakeFinishes`).

**Oath_proofs.** The type invariant and all five properties of the run.
GuessesBounded needs `Counted`:
the retries left and the wrong PINs compared since the last right one are
together no more than the limit and the guesses the power took (`Granted`), and
an outcome that is not yet written is accounted for as if it were (`PaidFor`). CodesOnce needs `FactorInv`: a key is new when
it is put, no two files hold the same, and the factor in a file is beyond every
code of its key that was sent or waits to be sent; that makes a code written but
lost with the power one that is skipped, never one repeated. NoShadow follows
the file that `Find` and `First` choose; AccessProven and LockedSteps go action
by action from the definitions.

What the proofs changed in the models. `After` and `AfterTz` of Sensor had cases
that overlap: TLC takes the first, in the logic it is undetermined which is
meant, so the theorems could not be had; the cases are disjoint now. A reset
in DeviceKey did not clear `repeated`, so that CountsGrow said more than the run could
show with two keys. Constants got what the proofs use: `None` is no slot, command,
number or outcome of a match.

The sort of Assertion was a fold, whose value no backend can unfold; as a pair of
recursive functions, which are the code's two loops, it can be reasoned about.

Model-checked only is TaskComesBack: liveness under fairness is beyond the prover.
The type invariants of PinToken, CredStore, Assertion, BioTask, Sensor, Otp,
DeviceKey, Oath and LargeBlobs are theorems, that of PinFlash is part of its
theorem Invariant; none is a run's property.

## 5. Not modelled

The flash and its file system, the queues between the USB core and the
card thread and the button are those of the SDK, which is a submodule: a write is done when the
call returns and writes do not change places. Cryptography is ideal: a token
verifies for who holds it, a key opens with the PIN it was wrapped under. CBOR,
APDUs and the encoding of records are data (but for the length of an OATH
response), as are credential identifiers (each
is new), the HMACs of OATH and the passwords of OTP. Ownership of heap blocks is
not modelled. Time appears as a nondeterministic end of a wait and, in
Assertion, as an order. What the code does past the end of an array is undefined: an allow list
of more than 16 credentials (cbor_get_assertion.c:123, 318) and the blob of
AUT_ENABLE are modelled up to there. A raw device key of 32 bytes whose first
byte is that of format 1 is taken by check_keydev_encrypted for one with a
format byte; that is left out. What the driver offers and nothing calls
(`r302_verify_finger`, `r302_empty_database`, `bio_begin_wipe`) is left out, as
is the usage timer of a token, which nothing observes. `PROJECT.json` gives the reason for each component that
is not modelled or modelled in part.

## 6. Plan

Done: PinToken, PinFlash with PinVault, CredStore, BioTask, Assertion, Oath, Otp,
LargeBlobs with BlobStore, DeviceKey, Sensor, and the proofs of all of them.
What remains, in this order:

1. An abstract store of credentials that CredStore implements, with the counts as
   functions of the credentials.
2. **Frames**: the HID frames an OTP request arrives and is answered in
   (otp.c:473-667), where one request may begin in the answer to another, and
   challenge-response, whose answer for an empty slot is that of an earlier one.
3. **Device**: LargeBlobs, Otp, the assertion list and the enumerations over one
   restart and one factory reset, for what a reset leaves behind.
4. The management application, and the key agreement of vendor commands.
