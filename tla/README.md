# A verification project for the Ledger Cosmos app

The app runs on a Ledger device. A computer (the *client*) sends it commands
(APDUs); it derives addresses and signs Cosmos SDK transactions after the user
approved them on the device's screen, or without a screen of its own when the
Exchange app starts it as a library to sign one swap payment. Its promise is
short: **what is signed is what the user read**. This directory states that
promise and the ones it rests on in TLA+, checks them on small instances with
TLC and proves the most important ones with TLAPS.

## 1. The system's parts

Paths are relative to `src/app/src` of the repository.

| Part | Source | State it keeps | Operations | Module |
|---|---|---|---|---|
| Dispatcher and session | `apdu_handler.c`, `common/actions.h` | `g_tx_state`, `hdPath`, `bech32_hrp`, `encoding`, `G_io_apdu_buffer` | get version, get address, sign (init, add, last), the review callbacks | `ApduSession` |
| Transaction buffer, parse entry | `common/tx.c` | the upload buffer (RAM, then flash), `parser_tx_obj` | `tx_initialize`, `tx_reset`, `tx_append`, `tx_parse`, `tx_getItem` | `ApduSession` (lifecycle), `TxDisplay` (`tx_getItem`) |
| Launch, library entry | `common/main.c` | the BSS, `G_swap_state` | start from the dashboard, start by Exchange for an address, an amount or a signature | `ApduSession` (sign) |
| Swap check | `swap/handle_sign_transaction.c` | `G_swap_state` | copy the parameters, compare a transaction with them, finalize | `SwapCheck` (the comparison), `ApduSession` (lifecycle) |
| Swap helpers | `swap/swap_utils.c`, `swap/handle_check_address.c`, `swap/handle_get_printable_amount.c` | none | chain table, own-address check, printable amount | `SwapCheck` (chain table, amounts); the rest planned |
| Keys and signatures | `crypto.c` | none of its own | hash, derive, sign, address | `ApduSession` (what is signed) |
| Chain configuration | `chain_config.c` | none | coin type and prefix to encoding | `ApduSession` |
| Address screens | `addr.c` | none | address, path | `TxPages` (items and pages), `ApduSession` (the address) |
| Parser front end | `parser.c`, `parser_impl.c` | `parser_context_t`, `extraDepthLevel` | parse, validate, item count, item and page text, amounts | `ItemPages`, `TxPages`; `TxDisplay` (at the level of items), `SwapCheck` (first page of an amount) |
| JSON tokens | `json/json_parser.c`, jsmn | a token array | tokenize, walk objects and arrays | `JsonText`, `JsonScan` |
| Traversal, display index | `tx_parser.c`, `tx_display.c` | `parser_tx_obj.query`, the display cache | index root fields, count and find items, group messages, hide defaults | `TxDisplay`; `TxWalk` (the walk over tokens) |
| JSON validation | `tx_validate.c` | none | whitespace, key order, required fields | `TxValidate` |
| Textual screens | `cbor/cbor_parser_helper.c` | `tx_text` | count and find screens | `ItemPages`, `TxPages` |
| Secret menu | `secret.c` | a click counter | show an identity string | not modelled |
| zxlib, secure SDK | git submodules, not in the repository | main loop, views, flash, USB | deliver commands, run callbacks, reset I/O | external actions of `ApduSession` and `TxPages` |

How they interact. The main loop `app_main` waits for a command in
`io_exchange`, hands it to `handleApdu` and catches what escapes it. A handler
answers at once by throwing a status word, or shows a review and returns with
`IO_ASYNCH_REPLY`; the reply is then sent by a callback (`app_sign`,
`app_reject`, `app_reply_address`, `app_reply_error`) that runs when the user
answers. Between the command and the callback everything the reply depends on
lives in globals: the upload buffer, the path, the prefix, the encoding, and
for an address the very buffer that commands and replies travel in. Exchange
starts the app with the parameters of a swap; the app then compares the one
document it is sent with them, signs without a screen and returns.

What is hard about it:

- *stale state*: the parse happens at the last chunk, the signature at the
  user's approval, and the path and the prefix were checked at the first chunk;
- *interleaving*: commands and user answers are two unsynchronised actors over
  the same globals, if the I/O layer lets a command in while an answer is pending;
- *partial failure*: handlers store arguments before they check them, `crypto_sign`
  may fail after the decision to sign was taken, an I/O reset may cut a
  handler off while it shows a screen or sends its reply;
- *protocol sequence*: uploads are three kinds of command over one session
  state with a single error rule (`CATCH_OTHER`) for every failure;
- *crash and restart*: power can be lost at any point; RAM is lost and the
  settings in flash are kept;
- *display logic*: what a transaction shows is computed by index arithmetic over
  a token array, with grouping, hiding and caching;
- *limits*: token lists, pages, page counts, titles and indentations meet fixed
  buffers and one-byte counters, and a transaction is validated with other buffer
  sizes than it is reviewed with.

`PROJECT.json` lists these hazards at the lines where they bite.

What makes each part correct:

- session: a pending question is about the globals its answer will use; a
  refused command disturbs nothing; a path outside its limits is never used;
  a review ends; a swap signs at most once and always returns to Exchange;
- buffer: the document parsed is the concatenation of the chunks accepted, and a
  chunk is accepted whole or not at all;
- swap check: the document pays the amount, fee, memo and destination agreed, and
  nothing else;
- traversal and display: every leaf of the document is shown exactly once, or is a
  default the rules hide; the count equals the number of items that can be shown;
- items and amounts: the pages of an item, concatenated, are its value;
- token walkers: count, n-th key, n-th value and lookup agree with the tree;
- validation: what is accepted is canonical (no whitespace, sorted keys).

## 2. The session: `ApduSession`

### State

| Variable | Code |
|---|---|
| `app`, `result` | the process: running, returned to Exchange (with the result it reports in `finalize_exchange_sign_transaction`), or stopped by `PANIC` |
| `g_tx_state` | `g_tx_state` (`common/actions.h`): idle, receiving, reviewing |
| `hdPath`, `bech32_hrp`, `encoding` | the globals of the same names |
| `buffer` | the upload buffer of `common/tx.c` (zxlib `buffering`), a sequence of chunks |
| `io` | `G_io_apdu_buffer`: an own address, or contents nothing depends on |
| `view` | what zxlib's view shows and which callbacks it will run |
| `expert` | `app_mode_expert()`, kept in flash |
| `called_from_swap`, `should_exit` | the fields of `G_swap_state` |
| `reply` | the last reply sent |
| `sent` | history: the payloads of the upload since its `P1_INIT`, whether the buffer took them or not |
| `signatures`, `resets` | history: signatures of this launch by Exchange, I/O resets of this launch |

### Actions

| Action | Code |
|---|---|
| `GetVersion`, `Malformed` | `handle_getversion` and every refusal of `handleApdu` before it calls a handler |
| `handleGetAddr` | `handleGetAddrSecp256K1`: prefix, path, configuration, derivation, then reply or review |
| `SignInit`, `SignAdd`, `SignLast` | `process_chunk` by P1, with `handleSign` for the last chunk: expert check, own address, `tx_parse`, and then a review or, in a swap, signature and return |
| `ShowExpertRequired`, `RejectDocument`, `ShowReview`, `CheckSwap`, `Failsafe` | the outcomes of `handleSign` and `tx_parse` |
| `ApproveTxn`, `app_reply_address`, `app_reject`, `app_reply_error` | the callbacks of `common/actions.h` |
| `ToggleExpert` | external: the idle menu |
| `Launch` | a start after an exit, or after a power loss at any moment |

`Throw`, `AfterThrow`, `Finally` and `ResetInHandler` are the `CATCH`, `CATCH_OTHER`
and `FINALLY` blocks of `handleApdu` and are part of every command: a handler's
step includes the state it leaves when it throws, the reply, and the exit to
Exchange that `FINALLY` makes of it.

### What is abstracted

- A document is a sequence of chunks. Whether it parses and validates is
  membership of `ValidTxs`; whether it is the payment of the swap is membership
  of `SwapTxs`. Both are constants, so the proofs hold for any parser that is
  a function of the document and its type.
- A path is a member of a set with the classes `extractHDPath` and
  `checkChainConfig` distinguish (coin type 60 or 118, beyond the normal-mode
  limit, bad). A prefix likewise.
- `action_addrResponseLen` is part of `io`: it is read only together with the
  address written with it.
- `CHECK_PIN_VALIDATED`, stack canaries and the wording of every screen are left
  out. Validation is taken not to depend on expert mode (which items are
  *shown* does; see `TxDisplay`).
- An I/O reset is modelled where it matters: while a handler shows a screen and
  while a reply is sent. A reset in the main loop's idle wait changes nothing
  that is modelled.

The I/O layer is not in the repository. Whether it hands the app a command while
a review is pending is the constant `Concurrent`: with `FALSE` commands wait for the
answer, with `TRUE` they arrive at any time. The code prepares for the second
(`COMMAND_NOT_ALLOWED`, the comment at `apdu_handler.c:334`), so both are checked.

### `SigningPromise`

What the session promises, without buffers, paths or state machines: there is at
most one offer on the screen; a signature or a confirmed address is given out
only by approving the offer, and is exactly what the offer grants; addresses are
public and may be given unasked; a swap gives out one agreed signature. The
refinement mapping (`Promise == INSTANCE SigningPromise ...`) reads the offer
off `view` and what was given off `reply`.

## 3. The items of a transaction: `TxDisplay`

What the user reads of a JSON transaction is decided in three phases that share state: indexing
counts the items of each root field and notes which types and delegators repeat;
`parser_validate` fetches every item once; then the view fetches items as the user pages to
them, in any order. Every fetch is a walk over the document that skips by what indexing noted
and stops at a depth that depends on which text was read last.

| Variable | Code |
|---|---|
| `phase` | where `tx_parse`, and then the review, stands |
| `doc` | the tokens of the buffer, as the walks see them |
| `expert` | `app_mode_expert()` |
| `extraDepthLevel` | the global of that name (`tx_parser.c:27`) |
| `cache` | `display_cache`, the flags and `filter_msg_*` fields of `parser_tx_obj.tx_json` |
| `root`, `item` | the counters of the loops of `tx_indexRootFields` |
| `checked`, `seen` | history: what `parser_validate` fetched, what the review showed |

| Action | Code |
|---|---|
| `ParseDocument` | `parser_parse`: a new document, the cache invalid, the depth reset |
| `IndexItem`, `IndexRootDone`, `IndexDone` | the loops of `tx_indexRootFields`, one item a step, then `calculate_is_default_chainid` and the switches that follow |
| `ValidateItem` | one pass of the loop of `parser_validate`, its end, or a refusal by a count |
| `tx_getItem` | `tx_getItem` as the view calls it |
| `EndReview`, `ToggleExpert` | external: the user's answer, the menu |

`tx_traverse_find`, `get_subitem_count`, `retrieve_tree_indexes`, `tx_display_query` and the two
grouping rules (`GroupType`, `GroupFrom`) are operators.

What is abstracted:

- A document is, for every root field, the sequence of leaves the walk meets at the field's
  maximal level, and for `msgs` also the leaves one level deeper. A leaf has a key, a text and
  the *atoms*, pieces of the document that its text contains: a flattened leaf has the atoms of all that is
  below it. That makes "everything was shown" a statement across both depths.
- `tx_traverse_find` counts an index up and shifts the index it looks for with each leaf it skips.
  The operator is the closed form: the leaf with that many unskipped leaves before it.
  `retrieve_tree_indexes` likewise. `get_subitem_count` is kept case by case.
- Documents are those `tx_validate` lets through: root fields present, keys sorted. Why a
  document has these leaves, the recursive walk over the token array, is `TxWalk`.
- A document is *what the walks of the seven indexed root fields meet*, and nothing said about documents here is about more. A root member that
  is none of the seven (`timeout_height`, say) is neither shown nor refused by the code and is not in the model. The elements that
  `tx_parser.c:211` fails to count in an array of plain values are on no leaf; that they are lost is the run `walk_arrays`.
- `DocsAssumption` says what a walk makes of any text: the grouped fields (`GroupedKeys`: a type, a delegator) are fields of messages and hold
  no amounts; the type that sets the depth, being a text, is met again one level deeper (`TypeMetDeeper`). An address is shorter than a page.
- That the parts met one level deeper contain all that the leaf contains (`Splits`, `SplitInto`: a leaf is met again, or its atoms are spread over parts with
  other keys) is *not* assumed: the arrays above break it. It is a condition of the part of `AllShown` that needs it, and the run has a document without it (`WithoutLast`).
- A key stands for itself and for its friendly form. `tx_display_make_friendly` renames the keys
  compared here one to one, `msgs/value/inputs` and `msgs/inputs` (and `outputs`) excepted, which get the same names.
- An amount is readable or in `BadAmounts`; pages are `TxPages`.
- The view is taken to ask for items in any order. zxlib goes forward and back, so the model
  has every order the device has, and more.

Two statements have a form that is easy to get wrong. `AllShown` is about documents that are `Regular`: of one depth, with
grouped texts that their first pages tell apart, and with a memo that is one string, as indexing stops at an empty text of it. It has two parts.
`MetIsSeen`: each leaf that the walks meet at the depth they go to was an item of the review, or is one the rules hide. `NothingMissing`: the leaves at the
fields' own level, with all that they contain, were shown; for messages walked one level deeper this needs `Splits`. `RejectedForCause` is an *action*
property, and a count below zero (repeated texts taken away more often than they came) is no cause. As an invariant (`phase = "rejected"` implies a cause) it is false: the user may switch expert mode after the refusal, and then the cause is no
longer one; and the leaves looked at are those of the depth the walks have at that moment (`Leaves`), as a malformed amount one level down is no cause for a document
whose messages are read at their own level.

## 4. The swap check: `SwapCheck`

`SwapCheck` extends `TxDisplay`: Exchange starts the app with a payment (`StartSwap`,
`copy_transaction_parameters`), the app reads documents until one is valid (`ReadDocument`, the
actions of `TxDisplay`), and `check_swap_conditions` compares the items of that one with the
payment, by position: `CheckFirst` finds where the messages start and which chain it is, `CheckRow` is
one comparison, `CheckCount` the number of items. `Rows` is the table behind
`parser_simple_transfer` and `parser_msg_send`: position, key and following row of each comparison.
Each fetch of an item goes through `tx_display_query` and moves the depth flag like any other.

The value of an amount field stands for a list of coins; `parser_getItem` with page 0 gives the
first coin's text (`parser_formatAmount`). A text is a pair of number and unit: two coins have
the same text only if they are the same coin, for amounts written as plain integers. The
fields of `G_swap_state` hold 49 characters and a page holds 64, so a first page equals an
agreed text only if it is the whole text; that is the last conjunct of `SwapAssumption`.
Formatted amounts are taken to fit one page. A field is formatted as coins where `parser_isAmount` (`parser.c:140`)
holds of its key, which is so only in messages, fee and tip; what cannot be formatted (`BadAmounts`) has no coins.

`AcceptedRowsAgree` states the verdict in terms of the items (all rows of one form agree at once, no item is left
over), `AcceptedPaysAgreed` in terms of the document (what it pays, to whom), `AgreedIsAccepted` is the converse: a document in
a standard form that pays what was agreed is not refused. `StandardForm` spells out the layouts that the comments above `parser_msg_send` and
`parser_simple_transfer` list (`handle_sign_transaction.c:108`, `:288`): chain id, account number, sequence and memo of one text each, one message with its
fields in order, a fee of amount and gas, no tip. In both, the order is the sorted one that `tx_validate` demands.

Going from items to the document, the check takes things for granted, and `WellFormed` lists them: positions count items, so the chain id,
the account number, the sequence and the memo are single texts; a fee is compared once, so it has one amount; the item behind an
amount is skipped as the sender, so it is one (`from_address`); and the depth of the messages is set by a *type*, no other text spells a MultiSend. A document
outside `WellFormed` may be accepted and say more than was agreed. All three properties are about documents of one depth (`OneDepth`), in which the depth flag does not
change between the two attempts of the check; for documents of mixed depth, where what the first attempt reads moves what the second finds, nothing is claimed. `FieldOf` and `SwapAssumption` tie keys to root fields: a key that the check compares begins with the name of its field.

What acceptance does not say: the payment has no chain id, so the agreed number is compared in
the unit of the chain the *document* names; and the sender's address is skipped. Both are as in the code.

## 5. From the text to the items: `JsonText`, `JsonScan`, `TxValidate`, `TxWalk`

A JSON transaction is signed as text and shown as items. In between is a list of tokens: spans of the text in the
order of their starts, from which nothing but arithmetic on positions tells what is inside what.

| Module | Code | One step is |
|---|---|---|
| `JsonText` | `json_parse` and the jsmn tokenizer | (operators) one character |
| `JsonScan` | the six walkers of `json_parser.c` | one pass of a walker's loop: `Skip`, `Take`, `Found`, `Finish` |
| `TxValidate` | `_read_json_tx`, `tx_validate` | a character read, a check, or a step of the walker that was called |
| `TxWalk` | `tx_traverse_find`, searched for item after item as `tx_indexRootFields` does | a step of the recursion, whose open calls are `stack`, or of the walker called |

`call`, `token_index`, `prev_element_end` and `element_count` of `JsonScan` are the locals of the walkers, `result` what the
last one returned. `max_level`, `max_depth`, `out_key` and `current` of `TxWalk` are the fields of `parser_tx_obj.tx_json.query`.

The reference is stated over spans and knows no loop: an element of a container is a token inside it that no
other token inside it encloses; a member is an element that the text marks as a name (a string before a colon); an item of a
field is an outermost value that has no parts or lies as deep as values are entered. `ScanIsExact` compares the walkers with
the first two, `FoundIsAnItem` and `EveryItemMet` the search with the third.

What is abstracted:

- A string or a number is one character between or without quotes; escapes inside strings, which jsmn checks, are left out. A
  name of 256 bytes or more is in `TooLong`: `is_sorted` refuses it, sorted or not.
- The tokenizer is not strict (jsmn is built without `JSMN_STRICT`): it takes texts in which commas, colons or values are missing. What
  should be found in a text that is not JSON is nobody's to say, so the promises are stated for token lists of a JSON text (`IsJson`: spans
  nest, and names and values alternate); for all texts `TypeOK` and `Answered` hold. The search needs the condition, too: in a text with `{"a""b"}` inside, without a
  colon, which is accepted, the walk takes the first string for a name that the text does not mark as one.
- The reference for the path of an item is the names of the members that enclose it (`LeadsTo`).
- Names are compared by `Rank`, which tells any two apart (`strcmp`). A member is looked up only in a document that is an object (`Has`).
- The path of names (`out_key`) is a sequence of names; that the buffer of the key cuts long paths is left out.
- Skipping by grouped types and delegators is in `TxDisplay`; here the cache is not yet valid, as while indexing.

## 6. Pages: `ItemPages`, `TxPages`

`ItemPages` holds the operators of what is on one page: the text of a coin and of a list of coins (`parser_formatAmount`, with the
pages summed coin by coin and the page asked for counted down), the fields of a screen of a textual transaction and its options
(`cbor_check_screen`, `cbor_check_optFields`), the translation of characters that cannot be shown, the place of the title.
`TxPages` is the state machine: parse, validate (page 0 of every item, buffers of `MAX_TITLE_SIZE`), then the review turns
the pages of every item, with buffers of its own (`Views`).

| Variable | Code |
|---|---|
| `tx`, `phase` | the document in the buffer and how far `tx_parse`, then the review, got |
| `displayIdx`, `pageIdx`, `pageCount` | the loop of `parser_validate`, then the view's item, page, and last page count it was told |
| `view` | `outKeyLen`, `outValLen` as the view passes them |
| `pages` | history: for each item so far the pages shown |

What is abstracted:

- `pageString`, `z_str3join` and the paging loop are zxlib's and external. They are modelled as the repository's tests and
  fuzzers use them: ask for page 0, then for as many as the last call said.
- Items of a JSON transaction are the ones `TxDisplay` finds; a coin is its type and its tokens, with a mark for those that count as its elements.
- A CBOR screen is the sequence of its fields. TinyCBOR, vendored under `src/deps`, is not modelled: it is taken to hand over the fields a map holds. What it makes of
  malformed encodings is left out, but for the conditions on the outer map, which are the four flags of an envelope; so are strings sent in chunks
  and integers that wrap when they are narrowed.
- A title is copied raw and then handled as a C string (`parser.c:454`, `:468`): `CString` ends it at the first `NUL`. Contents go through
  `tx_display_translation`, which writes a NUL out.
- `Decimal` is `fpstr_to_str`, a table over amounts.

`docs/TXSPEC.md` numbers the keys of a screen 1 (text), 2 (indent), 3 (expert); the code has 1 (title), 2 (content), 3 (indent) and 4
(expert) and is what is modelled. The count of expert screens (`n_expert`) is kept by the code and read by nothing; expert screens are shown
in every mode, and no property is stated about them.

`ScreensShownWhole` has conditions, each a limit of the code. `TitleEndsOnce`: the title has no NUL. Validation looks at the length of a title, not at its
characters (`cbor_check_screen`); a NUL in a title that moves to the text ends the joined text there, and the content is on no page, though `docs/TXSPEC.md:102`
has each screen "displayed in its entirety". The condition is needed: without it the documents of the `pages` run, in which such titles come up, violate the property.
`ContentsDistinct` is about contents only: titles are shown raw. `Ordered`: a title behind the content is taken for an unknown option, and of a key that
comes twice one value is lost; the code looks at neither the order nor the repetition of keys, which the "CBOR deterministic encoding" `docs/TXSPEC.md:102`
demands excludes. `IndentFits`: marks are put before a key as long as there is room,
and of the options of a screen *without* a title one too few is read (two fields are counted as text, `cbor_parser_helper.c:140`), so an
indentation in last place is lost there. `TextFits`: a title joined with a content that grew when control characters were written
out is cut at 600 bytes (`parser.c:456`); the end of such a content is on no page.

`AcceptedCanBeShown` rests on `ViewAssumption`: the review's buffers are no smaller than those of the validation. With a smaller
value buffer the pages of a list of coins could pass 255 in the review and not in the validation. It rests, too, on `TextsCounted`: zxlib counts the pages of a text
in a byte, and a text of more than `UINT8_MAX * (MAX_TITLE_SIZE - 1)` characters (9945 of the 16384 the flash buffer holds) would have a number of pages that wraps, in
the validation at another length than in the review. Addresses and paths are within that bound by assumption: the address is in the APDU buffer and the path in a
buffer of 300 characters (`addr.c:64`).

## 7. What the runs show

| Run | Expect | Question |
|---|---|---|
| `session_serial` | pass | Commands wait for a pending answer. Is a pending question always about the globals its answer uses, is what is given out what was shown, is a checked path used, does a swap sign at most once even when two I/O resets cut off its exit, is success reported only for the agreed payment? Does every review end and every swap return to Exchange? Does the session implement `SigningPromise`? |
| `session_concurrent` | pass | Commands arrive at any time. Is the screen at least right whenever the session is `REVIEWING`, does a refused concurrent command disturb nothing, does an open upload hold every payload sent since it began, and is what is shown and signed all of them, does one reset never lead to the failsafe? |
| `concurrent_sign` | violation | Commands arrive at any time. Is a signature always for what was shown? |
| `display` | pass | Has a user who paged through all items, in any order, seen all that the walks meet but what the rules hide? Does an item show what was validated? Is a document refused only for what it says, never because counts and walks disagree? |
| `display_mixed` | violation | Is every message displayed, also when messages of several types are mixed? |
| `display_limit` | violation | Can every item of an accepted document be asked for? |
| `swap_check` | pass | Does an accepted document pay what was agreed on, once, to whom, with which memo and fee? Is a payment as agreed accepted in every mode and on every chain? |
| `swap_coins` | violation | Does the check find every discrepancy? |
| `json` | pass | From the characters on: do the walkers find exactly the elements of a container? Is what is accepted one complete, sorted object? Is a text refused only for the cause named? Does the search for items meet each once, under its own path of names? Does every text get an answer? |
| `json_whitespace` | violation | Is a text with spaces outside strings refused? |
| `walk_arrays` | violation | Is every element of an array on an item? |
| `pages` | pass | Can every page of what was accepted be shown? Do the pages of an item say all of it: every coin, the address and the path, title and content of a screen? Can titles be read, and contents be told apart? |

The violations are disagreements between the code and a line of its comments or documents;
`PROJECT.json` quotes the lines:

1. *concurrent_sign*. A command refused with any code other than
   `COMMAND_NOT_ALLOWED` sets `g_tx_state` to idle while the review is still on
   the screen. A new upload then replaces buffer and path, and the approval of the
   old review signs the new document. It needs an I/O layer that delivers
   commands during a review.
2. *display_mixed*. `extraDepthLevel` is set by whichever known type was read last and applies to all
   messages. A document with a MultiSend and another message is counted at one depth and
   fetched at another, so fields are on no item and others twice. The properties of
   the `display` run are stated for documents of one depth (`OneDepth`): no MultiSend, or nothing but MultiSends.
3. *display_limit*. An index is a `uint8_t` in the parser and an `int8_t` in `tx_getItem`.
4. *swap_coins*. Only page 0 of an item is compared, so further coins of an amount or a fee pass.
5. *json_whitespace*. `contains_whitespace` goes from the end of one token to the start of the next. Tokens are nested: the end of a container
   lies behind all that is in it, so a space between an opening bracket and the first element is not looked at; and the position
   right behind a token is skipped. `AcceptedIsValid` says precisely where spaces go unseen (`Unseen`).
6. *walk_arrays*. `tx_traverse_find` counts the elements of an array with the walker of objects, which takes two tokens for one
   element. With elements that enclose other tokens, as messages and coins do, the count is right; of an array of three plain
   values the third is on no item. `EveryItemMet` is stated for arrays that are counted right (`ArraysAreCounted`).

What the runs do not cover. `session_serial` holds commands back during a review, so the interleavings of a command with a pending answer cannot occur in it:
`PendingCoherent`, `SignedWasShown` and `AddressWasShown` are no evidence about them there. `ReviewingCoherent` (`session_concurrent`) and the violation
`concurrent_sign` are about a signature under concurrent commands; about an address under them, and an error screen answered late, no run says anything.
A change of expert mode while a review is shown is excluded by the model (`ToggleExpert` is the menu, which a review hides). `RejectedWithCause` is about
texts that became tokens; that the tokenizer stops when its list is full is `TypeOK` of `json`.

Further limits of the code have no run. A confirmed address waits in `G_io_apdu_buffer`, which a concurrent
command overwrites (`actions.h:75`). `app_sign` cannot report that `crypto_sign` failed, and after an I/O reset with `should_exit` set any
command whose handler returns without throwing a status word (one that shows a review; `sw` is then 0 in `FINALLY`) is reported as the swap's success, so `SuccessMeansAgreed` is stated for launches without a reset and says
that the document was the agreed payment, not that it was signed (`apdu_handler.c:272`). The
limit on path components is checked at the first chunk; the user may leave expert mode before the last (`apdu_handler.c:118`). Grouping compares
the first 69 characters of types and delegators, and `AllShown` holds for documents in which that tells them apart (`PagesTellApart`). Root members
that are not among the seven fields are signed unseen. So is the content of a textual screen whose title is too long for the key and has a NUL in it (`parser.c:454`, section 6).

### Bounds

*Session* (`MCSession`). `Capacity` 2 and two payloads: a document of zero, one or two chunks, an upload that
overflows, and two documents that share their first chunk; three are valid, of which two pay the swap. Four paths: coin type
118, coin type 60, one beyond the limit of normal mode, one bad. Prefixes: one of each
coin type, and an unlisted one in the concurrent runs. `MaxResets` 0 to 2: one reset cuts off one reply, two
are needed to reach the failsafe, and more add nothing a new launch does not reset.
The state of one command depends on the earlier ones through the globals only,
so a violation needs few commands: the longest counterexample has seven steps.

*Display* (`MCTxDisplay`). Documents of one or two messages of four types (one known and grouped, one with an
amount, the MultiSend, one unknown with a nested list), delegators that are equal, different, the
user's own or alike on their first page only, the default and another chain, with and without memo and tip, a
chain that is refused, an amount that cannot be formatted, a fee without leaves, a MultiSend with an array whose last element is not met. Two messages suffice
for grouping: it compares each message with the first. A document changes nothing for the next one
but the depth flag and the cache, which `ParseDocument` resets; the run parses them in any order in both modes.
`ByteMax` is 255 but in `display_limit`, where bytes have four bits, so that three messages have more
items than the signed index counts; the real limit of 128 needs about fifty messages, which the 600 or 768 tokens allow.

*Swap* (`MCSwapCheck`). Payments with and without memo, one with a memo and one with an amount that do not fit. Both
forms, the right payment and one discrepancy at a time (amount, receiver, fee, memo, second message,
coins in and out, no gas, a tip, another type), two chains of the table and one that is not on it.

*JSON* (`MCJson`). Transactions with a message, two, a MultiSend in both forms, nested and plain arrays, seven nested arrays; then texts a
few edits away: members swapped, repeated, missing or with long names, a space at every place outside strings, a character removed at every
place, a prefix, a suffix, a zero byte, more than `MaxTokens` (100) tokens. The search is run for every field, at each level
`get_root_max_level` may give it. Nesting deeper than `MAX_RECURSION_DEPTH` (6, as in the code) is met.

*Pages* (`MCPages`). The sizes of the code are constants and scaled: bytes have four bits (`UINT8_MAX` 15), titles 4, contents 7, the output buffer 11,
amounts and denominations 3 characters. They keep the order the code's sizes have (`SizeAssumption`), so that with texts of up to eight
characters each limit is met from both sides: a sum of pages at and past a byte, a title at each of the two printable lengths, an expanded content that
just fits, an indentation that wraps, lists of up to sixteen coins, fifteen and sixteen screens. Two views, one with the smallest buffers allowed and a larger one.
Contents of up to two signs of every class are compared with all others; two of the characters are written as code points. Titles have up to five
characters, with and without a NUL.

The theorems do not depend on these bounds.

### Fairness

`FairSpec` of `ApduSession` assumes that the user answers what the screen asks (`WF(UserAnswer)`) and that
the client keeps sending commands (`WF(HostCommand)`). The first is what a person
holding the device does; the app has no timeout and does not claim to end a review by
itself. The second is what Exchange's client does while it waits for the swap;
without it a swap whose reply was cut off waits for the next command forever,
by the design of `FINALLY`. No fairness is assumed of `ToggleExpert`, `Launch` or resets.
`session_serial` includes resets up to its bound of two a launch; resets without end
could keep a swap from ever returning, in the code as in the model.

`Spec` of `TxWalk` assumes `WF(Next)`: nothing interrupts the parsing of a document, so a step that can be
taken is taken. `Answered` thus says that no loop goes round without moving on.

## 8. What is proved

The eight modules `...Proofs` hold theorems TLAPS checks for every
value of the constants: any number of paths, prefixes, chunks and documents, any
parser, any number of resets, any texts and types, any width of a byte, any sizes of buffers, any tokens.

They rest on the named assumptions of the modules, which TLC evaluates in every run:

| Assumption | Says |
|---|---|
| `PathsAssumption`, `HrpsAssumption`, `TxsAssumption`, `BoundsAssumption` | the classes of paths and prefixes are subsets, `NoPath` is no path, a swap payment is valid, the bounds are numbers |
| `DocsAssumption` | documents have the shape of section 3; the type that sets the depth is met at both; a type cannot be both a "Multi" and another known one; the empty text is no type |
| `SwapAssumption` | the chain table is not empty, names a chain once, and its names fit and are not forbidden; the empty text and zero fit the fields of a swap; a page is longer than those fields; keys belong to their root fields, those of amounts to messages, fee and tip; what cannot be formatted has no coins; a byte counts the ten items of a payment |
| `StringsAssumption`, `InputsAssumption` | a name may be empty; the required names are strings, and comparing strings tells them apart |
| `MaxTokensAssumption`, `WalkAssumption` | the limits on tokens and recursion are numbers, the second not zero |
| `SizeAssumption` | the order of the sizes, as in the code; a byte counts the pages of a coin and of a screen, and the length of twice a title |
| `DecimalAssumption`, `WideAssumption` | a formatted coin fits its buffer; a code point is written with a backslash, a letter of its own and digits in a number fixed by the letter (`tx_display.c:655`), so none begins with another or with a substitution |
| `DocumentsAssumption`, `ViewAssumption` | the shape of a transaction; a byte counts the pages of addresses and paths; the review's buffers are no smaller than those of the validation |

### The session

For any I/O discipline (`ApduSessionProofs`):

- `TypeCorrect`, `ArgsChecked`. `TypeOK` is not inductive: that a signature carries a real
  path needs `SessionArgsChecked` (outside idle the path passed its checks), and a review left
  on the screen by a freed session needs `ReviewHasPath`. `TypedInv` is the three.
- `ReviewIsCoherent`, `SwapSignsAtMostOnce`. `ReviewInv` adds `SwapInv`: a launch has signed
  nothing before it has checked its document, only a normal session reviews documents, and
  nothing is left to sign once one was given out. Without it, a swap session with a document
  under review could sign twice.
- `RefusalHarmless`: the action property on refused commands, from the types and the step of each handler (`AnswerOrRefusal`).
- `UploadsAreWhole`: `UploadWhole`. `UploadInv` says that the buffer is the payloads sent (`sent`) while the upload is open and while
  the transaction it became is under review. With `ReviewInv`, by which a session that is `REVIEWING` asks about the present buffer, it gives what is shown and what is
  signed. A review left behind by a freed session is not meant: its buffer may be a later upload's (`concurrent_sign`).
- `SuccessWasAgreed`, `FailsafeAfterTwoResets`, `FailsafeQuiet`. `LifeInv` adds `ExitInv`, which follows a swap to its end: `should_exit` is
  set only with the verdict on its document, a running app with it set has lost a reply to a reset, and the failsafe needs
  a second one. The run checks `FailsafeNeverTriggers` for `MaxResets <= 1`; the theorem derives it from `FailsafeNeedsTwoResets`, which holds for any number.

For commands that wait for a pending answer, `Concurrent = FALSE` (`SerialSessionProofs`):

- `PendingIsCoherent`. `SerialInv` strengthens `PendingCoherent` with `ReviewInv`. The lemmas
  `...Outcome` classify every command as *quiet* (nothing on the screen changes and nothing
  is given), one that *asks*, or one that *pays* a swap; each later theorem needs only
  that classification.
- `SignatureWasShown`, `AddressGivenWasShown`, `EthSignedByExpertsOnly`: the action
  properties, from `SerialInv` and the step.
- `SessionKeepsPromise`: the session implements `SigningPromise`. Every step maps to one of its
  actions or to a stutter.

### The display

In `TxDisplayProofs`:

- `TypeCorrect`: `TypeOK`, the counters of grouped fields within a byte included.
- `ShownAsChecked`: `SeenAsChecked`. `ItemInv` adds to `TypeOK` that for a document of one depth the flag already
  has that depth (`DepthInv`; while indexing a document of MultiSends it gets it at the first type, before
  the walks over `msgs` depend on it) and that an item fetched at any time is the one
  that fetching it now gives (`StableInv`). The lemma `DepthStays` is the heart of it: reading any item of such a
  document leaves the flag alone, so the walks for all items agree on the leaves.
- `RejectionsHaveCause`: `RejectedForCause`. `CountInv` says what indexing has counted at each moment: the leaves of the fields it is done with, and, of the
  messages so far, how many fields a group has, which of them is its first, and that all agree with it (`Group`; a count may
  have wrapped in its byte, and is then too small to be taken for the number of fields). Once indexing is done the counts are the leaves less those the walks skip (`Settled`), so an item below the count exists. The lemmas on
  `Kept` number the leaves left: each number below their count is that of exactly one. `GroupedNatural` and `CountsNatural` add that no count falls below zero, so a count that does
  not fit is one past a byte: the repeated types and delegators are different leaves.
- `EverythingShown`: `AllShown`, for what the walks meet (section 3) and, with `Splits`, for all the leaves contain. With `CountInv` every leaf not skipped is some item's (`AllSeen`), and a skipped one repeats the text of the group's first, which is.

### The swap check

In `SwapCheckProofs`:

- `SwapTypeCorrect`: `SwapTypeOK`.
- `AcceptedPaymentAgrees`: `AcceptedRowsAgree`. `SwapInv` carries `TypeOK` and `DepthInv` of the display over to
  `SwapSpec`, whose steps also fetch items, and adds `RowsInv`: before each stage the earlier rows of that form agree
  *now*. It is inductive because an item read for a later row leaves the depth, and so the earlier rows, alone
  (`CheckKeepsDepth`, `SameAgreement`).
- `AcceptedIsWhatWasAgreed`: `AcceptedPaysAgreed`. `PaymentInv` adds `CountInv` of the display and `ChainInv` (the messages are looked for from the first item on,
  or behind the three items of a chain that the first one names). In an accepted document the rows that agree pin down the keys at their positions; `Placed` then counts: the items before
  the messages, those of the messages, memo and fee add up to the expected number, so there is no further message, receiver or coin between them.
- `AgreedPaymentAccepted`: `AgreedIsAccepted`, in every mode and on every chain. From the keys of a standard form (`KeysAre`) and `CountInv` follow the counts of all
  root fields, and with them which leaf each item number gives (`Layout`, `AgreedItem`): the chain id is hidden only for the default chain in normal mode, the memo
  only when it is empty. `AgreedInv` says that a payment as agreed has not been refused so far, that once the first items were read the messages are looked for where they are,
  and that the rows of `MsgSend` are compared only for a send. It needs that an item counted for the memo is not empty, a conjunct of `RootsCounted` in the
  display's own invariant. Then no step refuses: each row agrees (`AgreedStep`), and the number of items is the expected one.

### From the text to the tokens

For the walkers of tokens (`JsonScanProofs`):

- `ScanTypeCorrect`: position, span end and count are natural numbers, a call keeps its arguments.
- `WalkersAreExact`: `ScanIsExact`. The invariant says that while a walker runs the elements before its position are
  the ones it has taken, that their number is its count, that no token before it ends behind `prev_element_end`, and that one of them ends there, or the container starts there. That `start <= prev_element_end`
  recognises what is inside it needs `Nested`: spans are inside each other or apart. For objects the pairs of name and value
  are taken together, which needs `Alternates`. It holds for any list of tokens, of any length and nesting.

For validation and the walk (`TxValidateProofs` has the lemmas, `TxWalkProofs` the theorems, as one specification runs from the first character to the last item):

- `AcceptedTextIsValid`, `RejectionHasCause`: `AcceptedIsValid`, `RejectedWithCause`, for every JSON text. `TokensTo` is the invariant of the tokenizer: tokens
  end within the text read, and a string or a primitive is over before the next token starts. `PhaseInv` follows `tx_validate`:
  the objects before the one at hand are sorted (`SortedBefore`), so are its names before the next (`SortedTo`), the required members looked up are there (`FoundBefore`),
  and `result` is that of the call just made. It uses `WalkersAreExact` for what each call returns.
- `WalkTypes`: `TypeOK`, that is: the walk stays inside the token list, `max_level` and `max_depth` never pass zero, and no item number beyond the one
  asked for is counted. `StackInv` describes the open calls: `LevelsOK` has the levels go down by one with each object on the way, the depth with each call.
- `ItemsInOrder`, `FoundIsItem`: `EveryItemMet` and `FoundIsAnItem`, for any JSON text, field, level and item asked for. `TreeInv` says where in the tree the walk
  stands: every open call is in a container that the walk goes into, the call below it in the child whose number it holds, `out_key` names the members that lead
  there, `max_level` and `max_depth` are what the containers above have left, and the items met are exactly those behind the walk (`TreeInvariant`). The items are numbered by their
  order in the text, so one step adds at most one. For `EveryItemMet` the walk must not leave an array too early: `CountInv` follows
  `object_get_element_count` over an array, where it takes two tokens for one element, and shows that it counts at least as many as there are whenever
  each but the last encloses something (`ArraysAreCounted`). `WalkersAreExact` gives what the other walkers return.
- `WalkRefinesScan`, `ExactInTheWalk`: the specification of the whole implements that of the walkers alone, so that they are exact when the validation and the walk call them.

### The pages

In `TxPagesProofs`:

- `AcceptedItemsCanBeShown`: `AcceptedCanBeShown` for any transaction or address with `TextsCounted`. That a screen is refused does not
  depend on the page or the buffers, so what page 0 said in `parser_validate` holds for each page of the review. A list of coins is followed through its loop
  (`LoopOK`): a coin takes no more pages in a longer buffer (`FewerPages`, `CoinPages`), so the sum that fitted a byte in the validation does in the review; and
  below the sum a page always has its coin. The invariant adds that past the first page the view asks for pages below the count the item gave.
- `AddressesAreShownWhole`, `AmountsAreShownWhole`: `AddressShownWhole` for any address and path and any buffers, and `AmountsShownWhole` for any transaction with
  `TextsCounted`: the pages that were read, put one behind the other, are the text. Two halves meet. On the side of the items, the pages of a text are cut where the
  next one begins (`TextTold`), and page `p` of a list of coins is page `p` less the pages of the coins before it of the coin they leave it to, so that the pages of
  the list are those of its coins in order (`Found`, `PagesInOrder`, `CoinsTold`). Both are inductions over what `FlattenSeq` computes. On the side of the review,
  `HistoryInv` says what `pages` holds: of each item that was left, pages 0 to the last it counted, of the one at hand those up to `pageIdx`.
  It is inductive as long as an item tells the same count on each of its pages (`Steady`), which for a list needs the invariant of the theorem before.

- `ScreensAreShownWhole`, `TitlesAreReadable`: `ScreensShownWhole` and `TitlesReadable` for any screens and buffers, with no condition on texts but that no NUL is in the title (`TitleEndsOnce`, `CStringIs`): a screen is no longer than the
  output buffer, whose pages a byte counts. `cbor_check_optFields` reads two fields at most, as a screen has four; of `Ordered` fields what it reads is what was
  sent (`OptionsRead`, `InfoRead`, `InfoSent`). `ScreenShown` follows the title: with room for the indentation its length cannot wrap in a byte, so it stays in the key only
  if it can be read there. The rest is `HistoryInv`, which holds of textual transactions and addresses without `TextsCounted` (`Kept`), and that no page is kept of an item past the last (`PagesAreOfItems`).
- `PagesAreTyped`: `TypeOK`, that no page is longer than its buffer (`ItemFits`). `TypeInv` adds that `pages` is a sequence of sequences of such pages. For a list
  of coins it needs that the loop ends at one of its coins or with an error, and that its sum is within a byte.
- `ContentsAreDistinct`: `ContentsDistinct`, for any characters, any code points as `WideAssumption` has them, and contents of any length. No character is shown as the
  beginning of another (`CodesApart`), so what is shown is read back one character at a time (`ReadBack`, an induction over the content); the `@` at
  the end tells a content that ends with a blank or with `@` from one that does not.

### Induction

The provers cannot instantiate the library's induction theorems. Two lemmas stand in for them and follow from the well-foundedness of finite sets under inclusion: `Greatest`
(a finite set of numbers has a greatest) and `Successors` (a set of numbers with 0 and every successor is `Nat`). With the second the equation of a recursive function
can be proved (`CoinsCounted`), and what it computes by induction on its argument.

### Only model-checked

`ReviewEnds`, `SwapEnds` and `Answered` are liveness properties, which TLAPS does not reach here. Every safety and action property of the
passing runs is stated by a theorem. That the *violations* are there is shown by their runs alone.

## 9. Not modelled

- The library commands for an address and an amount (`swap/handle_check_address.c`, `swap/handle_get_printable_amount.c`) and the
  entry that tells them apart (`common/main.c`): planned below.
- The move of the upload buffer from RAM to flash (zxlib): `ApduSession` has one buffer with one capacity.
- The friendly names of keys (`tx_display_make_friendly`): a table of titles.
- The cryptographic primitives, zxlib and the SDK: not in the repository, modelled by what the app relies on.
- TinyCBOR (`src/deps`): the fields of a map are taken as it hands them over; chunked strings and narrowed integers are left out.
- Root members other than the seven fields: no walk enters them.
- Memory layout, stack canaries and buffer capacities but for those named above.
- `secret.c`, tests, fuzzers, tooling: no state of interest.

## 10. Plan

In this order; a module goes before the ones that use it.

1. `TxWalk` to `TxDisplay`: the leaves a walk over tokens meets are the leaves of a document of `TxDisplay`, as a refinement.
2. `TxBuffer`: the upload buffer moving from RAM to flash. Property: it is the concatenation of the accepted chunks.
   Refinement: the `buffer` of `ApduSession`.
3. The library commands for an address and an amount, with the launch by Exchange.
