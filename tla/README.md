# TLA+ models of the GoShimmer C client

This directory models `goshimmer-client-c`: which addresses its wallet issues,
what it believes it can spend, how it builds and signs a transaction, how it
talks to a node over requests that can be lost or torn, and the buffers and
tables underneath. The modules are checked by TLC on small instances; the main
safety properties are proved with TLAPS for every value of the constants.
Paths below are relative to the repository's root.

## 1. The system

| component | source | state | operations |
|---|---|---|---|
| bitmask | `src/utils/bitmask.c` | bytes, capacity | new, op (set, clear, toggle; grows), get, clone |
| address manager | `src/wallet/address_manager.c` | seed, last issued index, first and last unspent index, spent mask | get address (any, new, first, last unspent), mark spent, three lists |
| output tables | `src/core/unspent_outputs.c`, `output_ids.c`, `balance.c` | per address: key index, spent flag, output ids with balances and inclusion state | add, update, append, remove, set spent, clone, balance, required outputs |
| wallet | `src/wallet/wallet.c` | endpoint, address manager, output table | init, refresh, balance, address calls, faucet request, send funds, node synced |
| transaction | `src/core/transaction.c`, `signatures.c` | inputs, outputs with balance lists, signatures | build, essence, sign, validate, encode, free |
| addresses, keys | `src/core/address.c` | none | derive from seed and index, sign, base58 |
| client API | `src/client/api/*.c` | one call's string and buffers | build request, POST or GET, parse reply |
| HTTP | `src/client/network/*.c` | none | libcurl, ESP32 |
| buffers | `src/utils/byte_buffer.c`, `iota_str.c`, `base64.c` | data, length, capacity | append, set, reserve, terminate, clone, convert |

**How they interact.** The application calls the wallet, one call at a time;
nothing is locked and nothing runs in the background. The wallet calls the
address manager (which owns the mask) and the output table directly, and the
node through the client API, which composes a url in a string and the request
and response in byte buffers. The HTTP client hands over the response piece by
piece through a callback. The only concurrency is the node's: its ledger moves
between any two requests, and inside `wallet_send_funds` between the refresh
and the POST. The wallet keeps two records of what is spent, the mask of the
manager (by index) and the flag of the table (by address), and writes both only
in the loop behind the POST. Nothing is persisted: an application that starts
again hands three indices to `wallet_init`.

**What is hard here.** A request or its reply is lost; an error reply counts as
success in `send_tx_bytes`; replies describe a past ledger; the two records
drift apart (the table stores index 0 for addresses it learns from the node);
loop bounds leave out the last address or address 0; `bitmask_get` reads one
byte too far; the process ends between the POST and the marking; a reply comes
in pieces of which one is dropped; parsers reuse a string of the element
before; results of `append`, `reserve` and `realloc` go unchecked; a signature
is filed under another address than the one it is looked up by. `PROJECT.json`
lists each hazard with its line.

**What makes each component correct.**
Bitmask: a bit reads as it was written.
Address manager: the window `first_unspent_idx`, `last_unspent_idx` lies inside
the issued addresses, spent addresses stay spent, the lists are exact.
Wallet: an address pays once; what is offered for spending is really there;
change goes to an address the wallet owns and does not consume; a built
transaction is one the node applies; a call returns; confirmed funds become
visible. Tables: one entry per key, sums agree, a selection covers what is
asked. Transaction: what is signed determines the transaction, what validates
was signed as it stands. Client API: a result means what the node did, what is
taken is freed, odd replies invent nothing. Buffers: nothing is lost or
uninitialised, lengths stay inside their blocks.

## 2. Modules

**Address manager and wallet**

- `Bitmask` has pure operators over a mask `[cap, bits]`. An operation has a
  set of outcomes: `bitmask_op` may find `realloc` failing (`ReallocMayFail`),
  and `bitmask_get` takes an argument `heap`, the bits of the byte behind the
  buffer. Reading there is undefined behaviour; the outcomes of a build are the
  contents of that byte, so every caller quantifies over `HeapBits`. A byte has
  `ByteBits` bits.
- `AddressManager` has the four fields of `wallet_am_t` as variables and one
  action per function of `address_manager.c`. `InitFromIndices` is what
  `wallet_init` leaves (a prefix of spent addresses), `InitFromMask` what
  `am_new` leaves with a mask of the caller. `BackedSpec` starts with a mask
  that covers the issued addresses; `wallet_init` does not ensure it.
- `Wallet` extends it with the table (`unspent`, a sequence: uthash iterates in
  insertion order), the caller's remainder field, and the node (`ledger`,
  `txs`). `wallet_send_funds` is cut where the node can move: `SendFunds`
  (validation of the amount, refresh, selection, outputs, signatures,
  validation), `Post`, and one `MarkSpent` per iteration of the last loop. All
  other calls make at most one request and are one action. `posted` is a
  history variable: what was handed to `send_tx_bytes`, and whether it said
  success. `RefreshCrashes` is one outcome of freeing the uninitialised `res`
  in `wallet_refresh`; the other, nothing happens, is `Refresh` with an empty
  list.
- `WalletRestart` lets the process end anywhere, also inside a send, and runs
  `wallet_init` again with indices stored at any earlier moment (`Save`). The
  new manager has a prefix of spent bits, the new table what the node told, or
  nothing if that request failed. `restarts` is a history variable.
- `OneTimeAddresses` is the abstract promise: a growing range of addresses, and
  payments each taking from addresses no other takes from. `Wallet` implements
  it with `issued <- last_addr_index` and `payments <-` the source addresses of
  `posted` (property `OneTime`). It also implements the specification of the
  address manager (`ManagerSpec`): no call bypasses the manager's operations.

**Buffers**

- `Base64` has base64 and hexadecimal text as functions on sequences of bytes.
- `ByteBuffer` and `IotaStr` have the operations as pure operators. A block is
  a sequence of exactly the allocated length, or `Null`; fresh bytes are `Junk`;
  an operation has a set of outcomes, with a failed allocation among them when
  `AllocMayFail`. A write or clone outside a block gives `Corrupted`, after
  which a model stops.
- `Buffers` is a user that makes any calls in any order. `ByteString` is the
  promise to it: a string of bytes that calls extend, assign or terminate, and
  that a failed call leaves alone; `Buffers` implements it with `value <-` the
  content of the buffer.

**Client API**

- `Tables` has the three nested hash tables as sequences of entries, with an
  allocation per entry that may fail and sums modulo `Modulus`.
- `Reply` has the parsers. A document is a record of the fields the code asks
  for, with `Missing` and `NotArray` for what it treats as such; the parsers
  fold over arrays and carry what the C code leaves in its local buffers.
- `Api` runs one call step by step: url, buffers, request, the transfer over
  either HTTP client, terminator, parser, clean-up. The node refuses, answers
  nonsense, or acts on the request and answers; the answer comes in three
  pieces of which any can be dropped by a failed append, all of them if the
  ESP32 client gets it chunked. Then the caller of `get_unspent_outputs` edits
  the table it got. `applied` and `oom` are history variables: the node has
  acted, and an allocation has failed.

**Transaction**

- `Transaction` has the essence, its two passes, the signatures, validation and
  serialisation. Buffers hold one element per field copied as a whole. Balance
  lists live at places in memory (`lists`), because ownership matters. Keys are
  symbolic: a key is the seed and index it is derived from, a signature its key
  and text.
- `TransactionUse` is the owner: it builds, signs with either of the two
  functions, changes, signs again and frees in any order, and goes on working
  on the list it built an output from. `made` and `signed` are history
  variables.

`MC...` modules hold values for TLC, `...Proofs` modules the theorems.
`FoldProofs` has what these need of naturals, folds and sums.
Definitions with a comment "Mutation:" are not part of the model: each is a
plausible bug, to be put in the place of the definition behind it to see a
property fail.

In `Wallet` an address is its index, derived injectively from seed and index,
amounts are integers without a width, and a request is answered or not; `Tables`
and `Api` have the widths, the failing allocations and the odd replies.

**The node** is outside the repository and modelled from how the client uses
it. `Wallet` assumes that it answers with an entry for every requested address,
in any order; that it applies a transaction iff its inputs exist, each
signature's key owns its address, and balances are conserved per color; that an
output is confirmed at some time after it appears, and not removed but by being
spent. A reply is an atomic picture of the ledger. `Api` assumes only that who
answers with an id has acted and who answers with an error has not.

## 3. Runs

| run | shows | states |
|---|---|---|
| `am_any` | any calls, any mask, failing `realloc`, reads behind the buffer: types, `WindowInsideIssued`, `SpentNeverForgotten` | 3 191 |
| `am_backed` | a long enough mask: `UnspentListComplete`, `TopBoundsKept` | 2 451 |
| `am_unbacked` | *violated*: a short mask makes the unspent list depend on the heap | |
| `wallet` | the wallet with two tokens and payments to itself, and a lossy node: `NoReuse`, `NeverOverstates`, `ChangeIsFresh`, `SoundTxAccepted`, refinement of `OneTimeAddresses` and of `AMSpec` | 387 373 |
| `wallet_live` | restarts, and fairness: `ReuseNeedsRestart`, `SendReturns`, `CatchesUp` | 530 968 |
| `buffers` | a byte buffer and a string, any allocation failing: bounds, `StrFaithful`, `Conversions`, refinement of `ByteString` | 266 306 |
| `api` | the four calls over both clients and the table they leave: `UrlWhole`, `CrashNeedsOom`, `NoLeak`, `IdMeansApplied`, `SyncedIsReported`, `ReplyTaken`, `NothingInvented`, `KeysUnique`, `SumsAgree`, `RequiredSound`, `CallReturns` | 47 915 |
| `transaction` | a transaction in any order of calls: `OutputsOwnLists`, `EssenceReads`, `TxSignCovers`, `ValidMeansSigned`, `OneSignatureEach`, `SerialisedWhole` | 123 584 |
| `wallet_change` | *violated*: change goes to a spent address | |
| `wallet_keys` | *violated*: signs with the key of index 0 | |
| `wallet_unsent` | *violated*: marks sources of a payment that was not sent | |
| `wallet_empty` | *violated*: a refresh with nothing unspent frees garbage | |

The five violated runs check what a comment of the repository says; the
findings in `PROJECT.json` quote it.

**Bounds.**
*Manager*: six addresses in bytes of two bits: an address can lie inside a short
mask, in the byte behind it, or beyond, and a window can be empty, in the middle
or at either end.
*Wallet*: two or three addresses and three transactions, incoming and own
together (`MaxTx` guards new ones), so that a payment, its change and a second
payment fit, and a payment needs part of an address, all of one, or two; bytes
of one bit in `wallet`, so that each address has a byte of its own, and the
second one may lie behind the mask. One restart (`MaxRestarts`) of a wallet with
three addresses in bytes of two bits: saved indices can be current, one send
old, or older, and the third address can be read from the heap, or from a mask
that has grown. The other wallet runs have bytes of eight bits, so that what they
show does not come from such a read; `am_unbacked` is about it.
*Buffers*: five bytes (`MaxLen`): groups of three bytes and of four characters
with every remainder, texts that are valid base64, padding and blanks.
*Api*: two addresses, two ids, two colors; replies with each field missing,
doubled, mistyped or out of range (`MCApi`); a double with a significand of
three bits (`Mantissa`, at least one bit) and sums modulo 16 (`Modulus`), so that amounts round
and sums wrap within small numbers; two calls on the table (`MaxEdits`).
`Torn` lists what an answer without its middle may parse as.
*Transaction*: two inputs, two outputs, two balances each, the owner's list and
one for each output (three `Places`, which are symmetric: nothing looks at a
place but to compare it).
All bounds are in guards or constants; the theorems hold for every value.
`CHECK_DEADLOCK FALSE` is said where the system really stops: a crashed wallet on
a settled ledger, a call that has returned or waits for a silent node, a
program that has died, a model at its bounds.

**Fairness.** Of the wallet: `WF(Post)`: the POST returns. The ESP32 client has
a timeout of 30 s (`http_esp32.c:16`); the curl client has none, so
`SendReturns` holds there only if the connection ends. `WF(MarkSpent)`: the loop
runs on. `SF(AnsweredRefresh)`: the application keeps asking for its balance
(nothing in the wallet does by itself) and a node asked again and again answers
again and again. `SF`, because sends come between and disable it. It is the refresh that
brings news whatever the heap holds: fairness must not choose the heap that
lists an address behind the mask. Confirmation
is not assumed: `CatchesUp` speaks of outputs already confirmed, and of a wallet
that has not crashed. With restarts it is the last one that counts, since their
number is bounded.
Of a call: `WF(LocalStep)`, and that timeout for the ESP32 client. Nothing makes
the node answer or a curl transfer end, so `CallReturns` for curl is conditional
on the whole answer arriving.

**Conditions of properties.** `SoundTxAccepted` is about transactions whose
signatures are right, whose sources showed only confirmed outputs of one color,
and whose remainder the wallet chose. Each condition is a case in which the
code builds a transaction the node refuses: all ids of a source become inputs,
and a preset remainder suppresses the remainder output. `NeverOverstates` is
about entries not spent and not being marked, that is, about what the next
payment may take from. `CatchesUp` has the premise that the mask always covers
the issued addresses (`[]AllBacked`). `wallet_init` does not ensure it: with
`last_addr = 8` and `first_unspent = 0` the bit of address 8 is read behind the
only byte of the mask, and if it is 1 there, `am_unspent_addresses` never lists
the address and no refresh asks for it. Without the premise TLC refutes
`CatchesUp` on `wallet_live` within four states: funds arrive at such an
address, are confirmed, and stay hidden. It is the same read as in the finding
of `am_unbacked`. Covered are wallets whose `last_addr` is in the byte of
`first_unspent - 1`, or in the first; new addresses let the mask grow with them.
`ReplyTaken` is about complete replies without doubled keys: an amount whose
color is there already is dropped, and an output without id takes that of the
one before. It compares address, output, `confirmed`, color and amount
(`Holdings`), which is what balances and selections read, and the other flags
but `solid`. `solid` is stored wrong: `get_unspent_outputs.c:43` reads it from
the key of `rejected`, and the constant for its own key is never used; the model
does so too (`KeyOf`). Nothing in the code but a printing function reads the
field, and no text of the repository says what it must hold. `NothingInvented` is what remains in every
case. `NoLeak` lists what the code does leave: the request text of `get_funds`,
the document and message of an error reply, the url of a failed append.
Several properties excuse a failed allocation where the code ignores the failure: a reply that lost a piece in the curl callback, a
string whose `realloc` failed, a serialised transaction whose block could not
be reserved. `SyncedIsReported` excludes the incomplete and the chunked reply.
`TxSignCovers` says when `tx_sign` makes a transaction that validates: it signs
for the outputs, and so only if every input's address is an output's too.
`ValidMeansSigned` allows for `tx_signautres_valid` skipping the check of a
signature when there is no memory for the essence.

## 4. Proofs

From the named assumptions on the constants only, for every value of them,
`tlapm` proves:

*Address manager* (`AddressManagerProofs`)
- `AMTypeCorrect`, `WindowStaysInside`: inductive together. The window needs no
  assumption on what a read returns: each scan picks from indices it has
  bounded. `SpentIsForever` is the action property from the types.
- `UnspentListIsComplete`, for `BackedSpec` and no failing `realloc`: the
  invariant is `BackedInv`, which adds that every issued bit is in the buffer,
  and that below `first_unspent_idx` every issued address is spent.
  `TopStaysBound` uses the first of these.

*Wallet* (`WalletProofs`)
- `WalletDrivesManager`: the wallet implements `AMSpec`. With it the manager's
  theorems hold of the wallet's manager.
- `NoAddressReuse`, `ChangeAlwaysFresh`, `BalanceNeverOverstated`,
  `WalletIsOneTime`: from `WalletInv`, which is the manager's types and window
  and four parts: `TableOK` (one entry per address, and its outputs at that
  address), `CallOK` (a transaction before its POST takes from consumed entries
  alone, none of them spent), `PostedOK` (whatever an earlier transaction took
  from is flagged spent, or consumed and about to be), `LedgerOK` (shapes).
  `NoReuse` alone is not inductive: it says nothing of the flags that stop the
  next payment. The proof sorts the wallet's steps into four kinds (lemma
  `StepKinds`): quiet ones, the one that builds, the POST, the marking. For
  each of them the table only *evolves*: entries keep place, address and spent
  flag. `BalanceNeverOverstated` takes `WalletInv` and carries itself: outputs
  leave the ledger only with the sources of a transaction, and these are no
  longer offered.

*Restart* (`WalletRestartProofs`)
- `ReuseOnlyAfterRestart`, for any number of restarts, from `RestartInv`. All
  of `WalletInv` but `PostedOK` survives a restart (`BaseInv` in
  `WalletProofs`). In its place stands `PaidOrForgotten`: each source of a
  posted payment is committed (spent, or about to be), or the last restart came
  after the payment and its `first_unspent` was not above the address. The last
  restart is always a witness, because a new table commits exactly the
  addresses below its `first_unspent`. `SavedOK` keeps stored indices inside
  the issued range.

- `WalletIsTyped`, `SoundIsApplied`: from `FundsInv`, which adds to the types
  that the ledger is finite with one output per address and transaction
  (`LedgerUnique`), that nothing is consumed between two payments (`Settled`),
  and that a transaction before its POST is still the one `wallet_send_funds`
  builds from what it consumes (`BuiltOK`). Its inputs exist because consumed
  entries are offered ones, of which `NeverOverstates` speaks. Its outputs are
  worth what its inputs are: what it spends is the disjoint union of the ids of
  the consumed entries, so the inputs are worth the balance `wallet_send_funds`
  computed, all of it in the payment's color; the outputs share this balance.
  Whatever arrived or was confirmed since the refresh does not matter.

*Buffers* (`ByteBufferProofs`, `BuffersProofs`)
- `ByteBufferProofs` has one lemma per operator of `ByteBuffer` and `IotaStr`:
  from a sound buffer (length inside capacity inside block, nothing
  uninitialised below the length), what the result shows. `HexRoundTrip` and
  `Base64RoundTrip` say that either text decodes to the bytes it was made from.
  The four characters of a group give back its three bytes, 0 for one that is
  not there (`GroupBack`), and the text has padding only in its last group, one
  character for each byte missing (`EncodedAt`); so each part that
  `base64_decode` writes begins where its bytes do.
- `BuffersTypeCorrect`, `StringHoldsAll`, `BuffersImplementByteString`: from
  `BuffersInv` (sound buffer, faithful string) by one lemma per kind of call.
  Assumed of the model's values: `Null` and `Corrupted` are no objects.
- `ConversionsLossless`: every call either returns nothing or converts the
  sound buffer of `BuffersInv`. That `base64_decode` stays within the size it
  asks for (`DecodeFits`) is proved of any text the first pass accepts, blanks,
  line ends and an incomplete last group included. The invariant of its loop:
  after each group at most three bytes per group less the padding so far; and
  the padding that is not among the complete groups is at most the rest of the
  text, which is what the size counts for it.

*Client API* (`ApiProofs`)
- `UrlIsWhole`, `CrashOnlyOutOfMemory`, for every set of replies, from `ApiInv`:
  the string holds the url, then url and command; the response buffer is sound,
  and has an element if it has a block. The last is why `byte_buf2str` never
  reads in front of the block here. The proof uses the lemmas of
  `ByteBufferProofs`.
- `ApiIsTyped`, `NothingLeaks`, `IdIsAPromise`, `SyncedAsReported`, from
  `ApiInv` and `CallInv`: who owns each block in each phase (`OwnersOK`), which
  pieces of the answer the response holds as long as no allocation fails
  (`ResponseOK`), and that an id in the node's answer is given for a request it
  acted on (`ReplyOK`). What a text parses as depends on the pieces, so
  `ResponseOK` must be exact, up to the terminator that the parser meets.
- `KeysAreUnique`, `NothingIsInvented`, for every set of replies and any edits,
  from `TableInv`. It says of every outcome of the parser's three nested loops
  what the loops keep: one entry per key, and each amount and confirmation from
  one output of the reply.

- `SumsAlwaysAgree`, `PickedIsEnough`, from the types in `TableInv`. What a
  table holds is a set: address, id, confirmation, color and amount of each
  balance (`Holdings`). Because keys are unique, the holdings of different
  entries, of different outputs in an entry and of different colors in an
  output are disjoint, so each of the code's three nested sums is, modulo
  `Modulus`, a total over a disjoint family (`SumLevel`, once per level), and a
  balance is the total of what counts in all the table holds (`TableHeld`,
  `SumsAre`). The totals of the colors add up to the whole; that each is taken
  modulo first changes nothing (`AlikeSums`). `RequiredCount` is the least
  number of entries that is enough, whether sums wrap or not (`CountIs`), and a
  clone for which no allocation fails is its original (`SureTable`).
- `ReplyIsTaken`, from `TakenInv`: after a whole, well-formed reply was parsed
  and until the caller edits the table, `got = TableOf(reply.unspent)`, the
  table written down from the reply, entry for entry. `ReplyTaken` speaks of
  holdings and a balance when the call has returned; the invariant must fix
  them from the parser on, and by equality. It is proved loop by loop, from the
  inside: without a failing allocation, each of the parser's loops over an
  array without missing or doubled keys has one outcome, the array mapped
  (`SureDeserBalances`, `SureOutputsTaken`, `SureAddressesTaken`). An amount
  that a double represents is not rounded (`ExactAmount`). The balance then
  follows from the totals above.

The assumptions on the replies (`ApiAssumption`) are the types of a document,
and that an answer which is no JSON, or has no body, is not a document. Colors
are finitely many (`ReplyAssumption`), for a sum over them to be one.

*Transaction* (`TransactionProofs`)
- `OutputsOwnTheirLists`, for any number of outputs, balances and places: the
  allocated lists are exactly those of the outputs, pairwise different, and the
  owner's. `ListsInv` adds the types of the outputs.
- `TxIsTyped`, `OneSignatureForEach`, `ValidIsSigned`, `TxSignCoversOutputs`,
  for any number of inputs and calls, from `TxInv`: the signatures have one
  entry per address, each made by a key for the text that `made` remembers
  (`SignaturesInv`), and after a signing call that text is the present one
  (`SignedInv`). `ValidMeansSigned` alone is not inductive: it does not say of
  which text the signatures of an earlier call are.
- `EssenceCanBeRead`, `SerialisesWhole`: the essence and the serialised
  transaction are what is read back, for any inputs, outputs and balances. The
  two passes of `tx_essence` agree, field by field.

*Naturals, folds, sums* (`FoldProofs`). A set of naturals has a least element
(a fact of the library without operator parameters), which gives induction up
to a number. The function by which `FoldLeft` is defined exists, so a fold is
the last of a chain of values; what `FlattenSeq` makes of parts has each
part where the lengths before it add up to. A sum over a finite set is a function on its
subsets in which each element adds its value, whichever `CHOOSE` takes first;
sums over disjoint sets, and over families of them, add up; numbers with the
same remainder can stand for each other in a sum that is taken modulo.

Every invariant, action property and refinement that a passing run checks is
stated by a theorem. Model-checked only is liveness (`SendReturns`,
`CatchesUp`, `CallReturns`), which is out of the prover's reach, as is
`ENABLED`. The library's theorems that take an operator as a parameter cannot
be instantiated by an installed prover; therefore every shape of a fold has a
chain lemma of its own in the proofs above, and the selections `Kept` (what
`base64_decode` does not skip, what `unspent_outputs_balance` counts) are
folds and not a `SelectSeq`.

## 5. Not modelled, and what is left

Not modelled: base58, BLAKE2b, Ed25519, cJSON, libcurl and the ESP libraries
(symbolic, or from how they are used); printing; `asset_registry.h` and
`message.h` (declarations only); texts cut off by `strncpy` into fixed buffers;
the example `http_download_chunk`; the branch for big-endian machines (a TODO in
the code); a failing `malloc` of the wallet itself, of the manager and of
`uthash` (which ends the program); amounts of 64 bits in `Wallet`;
`wallet_init` without a seed (the manager draws a random one, the table is
derived from the NULL pointer) or with `first_unspent` or `last_unspent` above
`last_addr`, which it does not check; `balance_ht_remove` (`balance.h:221`),
which deletes without looking whether the color is there, and which nothing in
the library calls; the value `wallet_refresh` returns.

Done: everything the first plan listed (manager, wallet, restart, transaction,
replies, tables, HTTP clients, buffers), and for each part the theorems. What would come next is `Wallet` over the
replies of `Reply` in place of "answered or not": what a reply with doubled or
missing keys does to `NeverOverstates`.
