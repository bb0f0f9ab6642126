# A TLA+ model of rmoriebricklayer's core

`rmoriebricklayer` is an R package with C and C++ kernels. It analyses tables,
pins the data an analysis used (digests, archived copies) and signs the record
of it ("capsules"). Most of its 137,000 lines of R are statistics, plots, text
and file formats. What is modelled here is of two kinds:

- what keeps state across calls, processes, crashes and networks, where the
  order of steps decides whether a promise holds: the used-index record of XMSS
  keys, the key state of `rmbl sign`, bulk archiving in the Wayback Machine, the
  barrier around native calls with the transfers that run inside it, and random
  generators that are forked and saved;
- the native algorithms on which everything that is signed or verified rests:
  five families of post-quantum cryptography, digests, masked arithmetic, the
  verifiers of RSA and ECDSA, and the readers of CSV, JSON and DER, each run
  against a reference on the inputs at its boundaries.

## Inventory

| part | state | operations | what is hard | what makes it correct |
|------|-------|------------|--------------|-----------------------|
| used-index record of XMSS keys (`R/sign.R`, `src/rmbl_flock.c`) | record file, the old `xmss_index.json`, lock file, temporary file, each session's memory, copies of keys | `pqckg`, `cpssign`, `xmssadv`, `xmssregkey`, `xmssfgt` | several processes, stale copies of keys, a kill or a power cut between any two steps, an upgrade of the record's format | one index signs once; what a power cut leaves still shows it as used; the lock is given back |
| key state of `rmbl sign` (`R/xmss_state.R`, `R/capsule_cli.R`) | key file or state file with sectors, signatures seen, the block of a run | reserve, sign, report | two places say what was used; a copy of either is restored; keys are split | blocks of all runs are disjoint, in whichever copy; a place never goes back |
| Wayback bulk archiving (`R/wayback_save.R`) | queue, captures in flight, caps, results file | `wbsave`, `wbrtry` | a server that throttles, forgets, times out; an interrupt, and a second run that continues the file | every URL accounted for once; what was started is polled; a run ends |
| capsules (`R/capsule_check.R`, `R/bundle.R`, `R/attest.R`) | bundle directories, seals, attestations | seal, bundle, verify | a run that stops half-way, or replaces a bundle | what is on disk is the old bundle or the new one |
| signed services list (`R/services.R`) | two cached files (list and signature), a floor against rollback | `svcs` | a cache written in two steps, an old list replayed | never a list older than one seen, never a list with another's signature |
| data hub cache (`R/data_hub.R`) | cached manifest, cached tables | `dmnf`, `dload`, `hubfetch` | a manifest older or newer than the table it vouches for | what is returned has the digest of the current manifest |
| native transport (`src/rmbl_fetch.cpp`) | a request and its redirects, scratch file, destination file | download, fallback to the archive, API calls | redirects that carry a key, partial bodies, files that cannot be opened or moved, Ctrl-C between two requests, R code run from the progress callback | a key stays with its origin; the destination is the old file or a complete reply; nothing is sent after a Ctrl-C; a call ends |
| verified fetch in R (`R/fetch_verified.R`, `R/lib_data_loader.R`) | cache | `fetchvrf`, loaders | the chain from live to cached to archived copies | no unverified bytes pass for verified ones |
| C++ barrier (`src/rmbl_barrier.cpp`, `src/rmbl_entry.h`) | depth, interrupt flag, kept error | every `.Call` entry, the kernels of the C API | errors and interrupts across C++ frames, nested calls | the depth is the number of barriers; an interrupt taken is raised once, by the call it was taken for |
| hash chain, preregistration, ledger (`R/chain.R`, `R/prereg.R`, `R/ledger.R`) | files of entries | append, verify | partial writes | a chain that verifies has lost nothing |
| random bits (`R/drbg.R`, `src/rmbl_drbg_core.h`) | key, counter block, requests, process of each generator | new, reseed, generate | forks, saved copies, an interrupted reseed, the limit of requests, a counter that carries | no stream is repeated, none goes past the limit; the bytes are the standard's |
| LLM answer cache (`R/llm_answer_cache.R`) | files | get, put | stale and concurrent entries | an answer belongs to its question |
| bundle checker (`R/mkbndlchk.R`, `src/rmbl_reap.c`) | a child process | start, time out, reap | a child that outlives its time | no orphan, no foreign process reaped |
| signatures and KEMs (`src/rmbl_pqc.cpp`, `rmbl_slhdsa_*`, `rmbl_mldsa_*`, `rmbl_mlkem_*`, `rmbl_hqc_*`, `rmbl_prehash.h`) | none beyond a call | key generation, sign, verify, encapsulate, decapsulate | addresses changed in place, roundings at the borders of intervals, sums that are not reduced, rejection loops, damaged ciphertexts, second encodings | what is signed verifies, and as nothing else; both sides share a secret, or a damaged ciphertext gives the rejection's; no overflow |
| masked arithmetic (`src/rmbl_masked.h`) | registers and words of one primitive | gadgets on two shares | a share that overwrites the other one | opens to what the plain code computes; no value and no change of a value shows a secret |
| digests, MACs, KDFs, Merkle trees (`src/rmbl_digest.cpp`, `rmbl_kdf.cpp`, `rmbl_keccak.cpp`, `rmbl_core.cpp`, `rmbl_mgf1.cpp`) | a partial block | update, finish, derive, prove | any cutting of a message, padding at a block's end, odd nodes, Ctrl-C in a derivation | the standard's result for every cutting; a proof binds its leaf |
| readers (`src/rmbl_csv.c`, `rmbl_json.cpp`, `rmbl_asn1.cpp`) | a cursor | parse | quotes, breaks, marks; number ranges; second encodings | what was written is what is read; one encoding is accepted |
| verifiers (`src/rmbl_ecdsa.cpp`, `rmbl_asn1.cpp`, `rmbl_bignum.h`) | none beyond a call | RSA and ECDSA verification | the exceptional cases of point addition, leading zeros, numbers at the modulus | accepts exactly what solves the standard's equation |
| X.509, timestamps, revocation in R; SIU reports; statistics in C++ | none beyond a call | | functions of documents, or of floating-point numbers | published test vectors, fuzzing |
| statistics, surveys, plots, dashboards, search, reports in R | none beyond a call | | | |

How the parts interact. A session signs through `cpssign()` with a key that is
an R value; the used-index record is the only thing two copies of the key have
in common. `rmbl sign` has its own state in the key file and *also* reads and
writes the used-index record, when `RMBL_XMSS_INDEX_FILE` names one: it reads
the record before it takes its state's lock, and writes to it after the block is
reserved, so the two are kept in step but not atomically. Both use the same
locked function and the same checked write (`C_rmbl_flock_with`,
`C_rmbl_write_file_checked`). Sealing a capsule (`cpsseal()`) takes indices
from the block of its run. Fetching, the hub, the services list and the
Wayback run meet only in the network code, which keeps no state of theirs.
Every native function is called from R through the barrier
(`rmbl_guard()`), or by another package through the C API without one; while a
kernel runs it polls R for a Ctrl-C, and R may then run event handlers that call
native functions again. The ML-DSA and SLH-DSA signers share the pre-hash
header; ML-DSA, ML-KEM and Keccak have masked twins built on the same gadgets;
the X.509 and timestamp code in R reads its documents with the DER reader and
checks signatures with the RSA and ECDSA verifiers.

## Modules

| module | what it is |
|--------|------------|
| `OneTime` | the abstract promise: slots that are taken by one signer and used once; that its specification keeps it (`StaysExclusive`) |
| `XmssRecord` | the used-index record, step by step, with kills and power cuts |
| `XmssRecordProofs` | its inductive invariant and safety theorems; that nothing is lowered and a session repeats nothing; that it implements `OneTime` |
| `XmssState` | the key state of `rmbl sign`: places, splits, sectors, blocks |
| `XmssUses` | `XmssState` composed with a session on the same key and record, in the ways the documentation allows a key and its copies to be used |
| `XmssUsesProofs` | types of any state; in each use: no reuse, no place goes back, `OneTime` implemented |
| `WaybackRun` | `wbsave()` and `wbrtry()` with their results file |
| `WaybackRunProofs` | no URL is lost, what was started is polled, requests stay within the caps, what is finished stays so |
| `Barrier` | native calls that nest, polls, errors, interrupts raised or kept |
| `BarrierProofs` | its inductive invariant and safety theorems |
| `Transfer` | the transport as the body of a call: `Barrier` composed with requests and files |
| `TransferProofs` | that every behaviour is one of `Barrier`, and the transport's own theorems |
| `Generators` | the generators of `R/drbg.R` in several processes |
| `GeneratorsProofs` | that no stream is given twice and none goes past the limit, but for copies taken for their original |
| `Xmss`, `SlhDsa` | the hash-based signatures |
| `MlDsa` | ML-DSA over a small ring |
| `MlDsaRoundings`, `MlDsaWidths` | its reductions and roundings at the real modulus; packing and growth |
| `MlKem`, `MlKemReductions`, `MlKemWidths` | ML-KEM likewise |
| `ReductionProofs` | the reductions, roundings, hints and compressions of both, for every integer |
| `Hqc`, `HqcCode`, `HqcRing` | HQC's two versions; its code; its products and samplers, at the real sizes |
| `Masked`, `MaskedWords` | the gadgets on shares; their primitives as registers and stores |
| `Keccak`, `Digests`, `Drbg` | sponges, plain and masked; block digests and what is built on them; AES-256 and CTR_DRBG |
| `Csv`, `Json`, `Der` | the readers |
| `Numbers`, `Ecdsa` | limbs and RSA; the curve and ECDSA |
| `Fold`, `Tables`, `ToyHash` | loops as TLC evaluates them cheaply and the rounding to a double; bitwise tables; a small hash, and the digests ML-DSA and SLH-DSA sign |
| `MCXmssRecord`, `MCXmssUses`, `MCKernels` | small instances for TLC, with the restrictions each run names (`WaybackRun`, `Transfer` and, in `generators_restored`, `Generators` are run as they are) |

### XmssRecord

The files are `rec` (the record as processes see it, the indices by key and by
the legacy fingerprint) and `json` (the old `xmss_index.json` is still there).
A rename is visible at once and on disk only after the directory is flushed, so
`recMay` and `jsonMay` hold what a power cut *now* may leave; `PowerCut` picks
one of each. `tmp` holds the writers whose temporary file exists, `holder` the
process with the lock, `mem` each session's `.rmbl_xmss_used`, `copies` the
values of `next_index` of the key objects that exist anywhere. Copies are never
taken away: a user may keep a stale one for ever.

A session makes one call at a time. `pc` walks through it, and each step that
another session, a kill or a power cut can come between is an action:

| action | code |
|--------|------|
| `BeginSign`, `SignOff` | `cpssign()`: the key's index is checked; with the record off only the session's memory is asked |
| `BeginFresh`, `Regenerate`, `BeginRegister`, `RegisterOff` | `pqckg()` without and with `skseed`, `xmssregkey()` |
| `BeginForget`, `ForgetOff`, `ForgetAll` | `xmssfgt()` with and without a key |
| `Advance` | `xmssadv()`, which reads without the lock |
| `Acquire`, `GiveUp` | `.rmbl_xmss_with_lock`: attempts for 10 s |
| `Reserve`, `Register`, `Forget` | the locked functions up to the write |
| `WriteTmp`, `Rename`, `SyncDir`, `Migrate` | `.rmbl_xmss_record_write`, `C_rmbl_write_file_checked`, the rename of the old json |
| `Return` | the session remembers, the lock is released |
| `MakeSignature`, `SignFails` | the signature after the index is retired |
| `Fail` | any error or Ctrl-C inside the lock; the C cleanup releases it |
| `Crash`, `PowerCut` | the environment |

History variables say what signed (`signed`, `reused`, `made`) and which keys'
protection the user gave up (`exempt`: reset by `xmssfgt()`, or signed with the
record off); for those nothing is promised.

Left out: the wording and the parsing of the record's lines, the keys of other
schemes, Windows' replacement for the rename. Fingerprints are taken to be
unique.

### XmssState and XmssUses

`file` gives each place (key file or state file) its `next_index` and its state:
the highest index used, the number of sectors, the `base` of the split and the
highest index of each sector. The atomic write and the lock are those shown in
detail in `XmssRecord`, so here each is one step. A run of `rmbl sign` goes
through `Ask` (arguments, the signatures it sees, the record it reads), `Lock`
(lock, then read), `Commit` (all refusals, then the block is written), then
`UpdateRecord` and `Sign` for each capsule; `Quit` is any end, a kill included.
`Copy` is the user: a file copied or restored over another.

`XmssUses` adds a session that retires an index in the record (`SessionTake`),
signs, fails, or saves its key over a key file (`SaveKey`).

It also adds the user's rules: `use` is one of five documented uses, `Homes` are
the places where the key signs under it, and `PassOn` hands the key to the owners
of its copies, or to a state file. `Asks` is `Ask` with what a use allows; what a
run then does is `Proceed`, unrestricted. `PutBack` copies files back and `Session`
lets a session step, both while no run is under way (`Calm`). `RaceSpec` lets the
session step at any time, for `shared_race`.

Left out: the report of the state, its generation and writer (which only
reports read), the seen-log's format.

### WaybackRun

`file` is the last line of each URL in the results file, which is appended to
and read so that the last line wins. A run has its URLs in `queue`, in flight
(`inflight`, with the number of status checks made), in `results`, left for the
next run (`rest`), or in its hands between two steps (`hand`, with `pc` saying
which). `Post*` are the branches of `.bl_wb_submit`, `Poll*` those of
`.bl_wb_check_job`. `PollSaved` and `PollGivenUp` write the line, `Clear` then
takes the capture out of flight, as two steps because an interrupt can come
between; `.bl_wb_job_error` does it the other way round and so do `PollDaily`
and `PollError` followed by `Report`. `Stop` is Ctrl-C or an error, after which
the exit handler (`ExitRecord`) adds a line for each capture in flight; `Kill`
runs no handler. `Start` is `wbsave()` on any set of URLs, `RetryFinds` and
`Retry` are `wbrtry()`.

archive.org keeps no state in the model: any request may get any answer, which
allows more than any real server does. Times (holds, spacing, due times) are
left out, as they only delay; a capture is given up after at most `Patience`
checks, or before. Also left out: a run without a results file, the display, the
fallback to another archive.

### Barrier and Transfer

`frames` is the C stack: native calls through the barrier (`guard`), kernels
called by another package (`kernel`), and the R code that a kernel runs, each
with what happened to it (`stopped` by a poll, `failed`, `owes` an interrupt).
`depth`, `flag` and `kept` are `rmbl_barrier_depth`, `rmbl_kernel_interrupted` and
`rmbl_pending_error`; `ctrlC` and `limit` are what R has pending.

| action | code |
|--------|------|
| `Enter`, `EnterKernel` | `rmbl_guard()` up to the body; a call through the C API |
| `Poll` | `rmbl_interrupt_pending()` with `rmbl_chk_error_` |
| `RunR`, `ReturnR`, `FailClosure`, `InterruptClosure`, `FailEvent` | R code on top of a kernel, and how it ends |
| `RTakes`, `PressCtrlC`, `LimitReached` | R's own check for events; the user; `setTimeLimit()` |
| `Return`, `Throw` (with `Raise`, `Value`, `Error`, `Leave`) | the end of `rmbl_guard()`: a value, a C++ exception, an R jump through `rmbl_unwound()` |
| `KernelReturn`, `KernelFail` | `rmbl_interrupt_raise_unbarriered()`, `rmbl_arg_error()` |

`Transfer` adds what the call at the bottom of the stack does. `Begin` is an entry
point; `CheckHop` is `url_check()` and `redirect_policy()`; `Send`, `Receive`,
`Redirect`, `Answered`, `TransportFails` are `secure_perform()`; `Progress` and
`Aborted` are the callbacks; `EndFile`, `NoScratch`, `EndLookup` and `EndApi` are what
follows in `http_get_file()`, `fetch_with_fallback()`, `wayback_snapshot()` and the
API calls. Addresses are told apart by what the policy asks of them.

Assumed: R runs event handlers only inside a check for events; a handler's error
or interrupt is caught by it or ends the check, and its message is kept; a
progress closure makes no native call that polls; another package calls the C
API only outside this package's calls; a rename is POSIX's; a final reply has a
body when the stream was lost; no `bad_alloc` in mid-transfer. Parsing of
addresses, resolving, TLS and curl are external: their answers are any.

### Generators

A generator is an environment: key, counter block, requests served and the process
it was seeded in (`pid`). `generators` has them by process and environment, because a
forked child has the same environments as its parent. A key is the term of what
it was made from, so that two are equal only when they must be. `New`, `Reseed` and
`Generate` are `drbgnew()`, `drbgrsd()` and `drbggen()`, the first two with the user's
entropy or that of the operating system; a Ctrl-C may fall after any of
their assignments (`Assigned`). `Fork` gives a child all the parent's generators; its
number is one no process with generators has, and may be that of one that has ended.
`Save` and `Restore` are `saveRDS()` and `readRDS()`, in any process, the one that saved
included; `Forget` is `rm()`, or the end of a process. History: `seeds`, the entropy given
so far; in each generator the number (`seed`) of the one its key is from; and
`returned`, the seeds of which a copy came back, as a file or by a fork, to the process
number they were made in. `drbggen()` compares process numbers, so it takes such a copy
for the original (see `generators_restored` below).

### The kernels

A state of `MCKernels` is a call of one algorithm with one input; its next step is the
return, and the properties say what the call must have computed by then. Each module
gives the code's functions as operators under names like theirs, and then a
reference and the properties. Three ways of making them small are used:

- *A toy hash* (`ToyHash`, the compression in `Digests`): all of the structure
  around a hash is kept (addresses, prefixes, orders, checksums, buffers), and
  the hash itself depends on every element of its input and on their order.
- *A small ring at a small modulus* for the protocols of ML-DSA, ML-KEM and HQC,
  so that keys, rejections, hints, transforms and decapsulation run as wholes;
  *the real modulus, a coefficient at a time*, for roundings, reductions, packing
  and growth (`MlDsaRoundings`, `MlDsaWidths`, `MlKemReductions`, `MlKemWidths`); HQC's
  codes and samplers run at their real sizes.
- *A narrow alphabet*: lanes of two small bytes in `Keccak`, bytes of 16 values in `Der`,
  limbs of two bits in `Numbers`, `TRUE` as one symbol in `Csv`, a word or the
  four digits of an escape in `Json`.

| modules | references they are held against |
|---------|----------------------------------|
| `Xmss`, `SlhDsa` | signatures verify, and not for another message, leaf, digest, context or altered part; no address is used for two values, no field is left from another use |
| `MlDsa`, `MlKem`, `Hqc` | sign/verify and encapsulate/decapsulate agree; masked and plain agree; damaged ciphertexts give the rejection's secret; transforms multiply in the ring |
| `MlDsaRoundings`, `MlDsaWidths`, `MlKemReductions`, `MlKemWidths` | the standards' divisions and streams of bits; bounds of each integer type |
| `HqcCode`, `HqcRing` | multiplication in the field, evaluation of polynomials, correction up to the designed distance, cyclic products, remainders |
| `Masked`, `MaskedWords` | the plain function of the opened value; independence of the secret, over all the shares, of every stored value and every transition |
| `Keccak`, `Digests`, `Drbg` | FIPS 202, FIPS 180, RFC 7693 and RFC 6962 written from the whole message; FIPS 197's table and the generator's equations |
| `Csv`, `Json`, `Der` | a writer, a grammar, the encoding of a tree |
| `Numbers`, `Ecdsa` | the integers; repeated addition in the group and the standard's equation |

Three limits of what these say. For each ML-KEM key two altered ciphertexts are tried, and
some damaged ones of HQC, not every other ciphertext. A DER tag goes to R as a double
(`NodeToSexp`, with `Exact` for 2^53): `TagsExact` has every tag below exact, larger ones
may meet in one double, and that an encoding is unique is said of the parsed tree. A
name in a CSV header is exact with blanks, or nothing, around its quotes (`NameExact`);
what other quotes do to it is told below.

Left out of the kernels: the SIMD and assembly paths chosen at run time (the
portable ones are modelled, and `MaskedWords` gives the one program of the three
assembly forms, not the portable C beside them, whose registers the compiler chooses), the constant-time idioms except where a value depends on them,
R's argument checks, wiping of memory.

## Runs

All runs are finite and complete searches.

| run | question | states |
|-----|----------|--------|
| `record` | two sessions, one key carried over from an old release, kills and power cuts anywhere, histories without resets: `TypeOK`, `NoIndexReuse`, `RetiredOnDisk`, `TmpIntact`, `RecordNeverLowered`, `AdvancePastUsed`, `OneTime` implemented; is every lock released (`LockReleased`), does every call end (`CallReturns`)? | 60 k |
| `record_off` | one session has the record off, keys are reset, the directory cannot be flushed: does a session still not repeat itself (`SessionNeverRepeats`)? | 371 k |
| `uses` | the uses the documentation allows, one per behaviour: `NoIndexReuse`, `PlaceNeverGoesBack`, and `OneTime` implemented | 456 k |
| `wayback` | three URLs, any answers, runs that stop or are killed and continue: `EachUrlInOnePlace`, `AsksWithinCaps`, `StartedIsPolled`, `FinishedIsNotSent`, `RunEnds` | 505 k |
| `native` | calls nested three deep, transfers with two redirects, Ctrl-C and limits anywhere but in a progress closure: `DepthIsBarriers`, `KeptIsOwed`, `RaisedIffTaken`, `KeyStaysHome`, `AnsweredByAsked`, `DestIsAsTold`, `NoRequestOnceTaken`, `CallEnds` | 289 k |
| `kernels` | does every algorithm compute what its reference does (ten properties, `HashTreesExact` to `VerifiersExact`); and do generators in two processes, forked, saved, restored anywhere, removed and interrupted, keep their streams apart (`StreamsApart`)? | 468 k |
| `state_record_split`, `state_first_split`, `shared_race`, `wayback_interrupt`, `native_ctrlc`, `generators_restored` | the disagreements below | to the first violation |

Bounds, and why they are enough.

- `record`: two sessions, one key with four indices of which two are used. Every
  race in the protocol is between two sessions, or one and a power cut; a third
  adds a second waiter for the same lock. Four indices leave two to use, one
  more than the property needs to be violated, and reach exhaustion.
  In its histories no key becomes exempt (`LiveSpec`), since nothing is
  promised from there. Several keys share the file but not a bit of state; that
  one key's write keeps the other's entry is proved for any number of keys
  (`NeverLowered`).
- `record_off`: two indices, one new key; `OnePending` keeps at most one write
  that has not reached the disk beside the visible one, because without a flush
  nothing would ever take one away.
- `uses`: four indices, so the key can be split in two sectors of two, and blocks of
  up to two, so that a block straddles or exhausts a sector. Files are copied only while nothing runs, as the
  documentation asks. The five uses are: copies that each sign in a sector of
  their own; a move from key file to state file; backups put back, with every
  signature shown; backups put back with the record alone and an undivided key;
  a session and runs in turns. Each keeps to one way of telling a copy apart,
  because that is what the documentation promises will do.
- `wayback`: three URLs, one new capture a run (so that some wait for the next
  one), two in flight; the limits of 6 tries, 8 slow-downs and 20 resubmissions
  are scaled to 2, 2 and 1 so that each of them is the one that strikes in some
  behaviour. Ctrl-C comes anywhere but in the window that `wayback_interrupt`
  is about; kills come anywhere.
- `native`: three frames, so that a call is nested in a call with R code between
  them; two redirects, enough to leave an origin and come back (the code's limit
  is 5); one progress callback per leg, beside what polls it makes. A fallback has
  four legs. `native_ctrlc` needs two frames and no redirect.
- `kernels`: sizes are those of the toy instances in `MCKernels`, inputs those at a
  boundary: messages of 0 to 13 bytes over blocks of 4 with every cutting in two and
  some in three; contexts up to one past the limit (2 for 255); 48 digests
  of XMSS against each of the 256; a sample of the digest names,
  and one that is not in the table; roundings within one of each
  interval's border at the real modulus; sums by bounds that hold for any input;
  errors at, and just below, the distance of the real code; every CSV text of
  two to five characters from six; every JSON text of two to six symbols; DER trees
  within and past four nodes and two levels, with every change of one of their
  first eight bytes; all multiples of a generator past twice the order of a curve
  with fewer, and one with more, points than its field has elements (P = 23 with
  17, P = 13 with 19). In `Csv` the constants scale 4 columns, 2 digits of an
  `int` and 6 of a number; in `Json` 3 levels, 32 for 2^53 and 156 for the
  first number whose double is infinite; in `Der` 3 bytes of a length, 2 levels and 128 for 2^53. Limbs are checked for all pairs of 4-bit numbers.
  For generators: two process numbers with one environment each, four calls of `drbgnew()`,
  `drbggen()` and `drbgrsd()` (`MaxCalls`), one copy made by a fork or `readRDS()`
  (`MaxCopies`), one Ctrl-C (`MaxStops`), a limit of 2 requests for 2^48. Two equal
  deliveries need a generator, a copy of it and two requests, which leaves a call for a
  reseed or a second generator between them; the theorem has none of these bounds.
  `Next` starts a kernel only while no generator has been made and the other way round, so the two
  parts add up and do not multiply.
- `generators_restored` has two environments, so that a copy and its original stand in one
  process.

Symmetry is used over runs of `rmbl sign`, in `uses` and the runs beside it, which have no
liveness.

Fairness. `record`, `wayback` and `native` assume weak fairness of a process's own
steps and nothing of the environment's: R goes on to the next expression, the
attempts to lock end after 10 seconds (`GiveUp` is always possible while
waiting), a network request ends by its time-out. No fairness is assumed of who
gets the lock, of archive.org's answers, or of users. `native` assumes besides
that R code which runs on top of a transfer ends: `SF` of popping the stack at
each height. It is strong because such code may be re-entered by events again
and again, and each time it is the package's own code below that has to be let
on. A server is not assumed to answer: libcurl's time-out (`TransportFails`, and
`MaxPolls`) is one of the transfer's own steps.

## What the checks found

Six runs end with a violation, each a place where the code and its own comment or
documentation disagree.

1. `state_record_split` (`src/R/xmss_state.R:554`). The range of a split key
   comes from its sector's state alone; the value that carries the used-index
   record is looked at only for an undivided key. A split key file restored from
   a backup therefore goes back to indices that the record shows as used,
   against "never go back from it" (`xmss_state.R:331`).
2. `state_first_split` (`src/R/xmss_state.R:468`). A key that signed in a
   session before `rmbl sign` ever used it cannot be split: the new split's
   `highest` is still -1 when the check for a key that "signed outside rmbl sign
   after its state was split" runs, though the split counts what was used before
   as used in every sector (`xmss_state.R:412`).
3. `shared_race` (`src/R/capsule_cli.R:1820`). The record is read before the
   state's lock is taken. A session that retires an index in between is not seen
   and the block may contain its index.
4. `wayback_interrupt` (`src/R/wayback_save.R:1587`). A Ctrl-C between the
   "saved" line of a capture and its removal from those in flight makes the exit
   handler append "submitted"; the next run polls it and, if archive.org has
   forgotten it, sends the URL again, against "a finished URL is not sent
   again" (`wayback_save.R:185`).

5. `native_ctrlc` (`src/src/rmbl_fetch.cpp:654`). The progress closure of a
   download runs in `R_tryEvalSilent()`. A Ctrl-C that R's evaluator takes there
   comes back as a failed closure, and the download ends with an ordinary error
   ("the progress callback failed") that a `tryCatch(error = )` around it
   swallows, against "a pending Ctrl-C is raised by the barrier"
   (`rmbl_fetch.cpp:1667`).
6. `generators_restored` (`src/R/drbg.R:178`). `drbggen()` reseeds when the process number
   is not the one the generator was seeded in. A copy restored by `readRDS()` in the
   session that saved it has the same number and gives the bytes the original gives,
   against "a generator restored from `saveRDS()` [...] reseeds itself from the
   operating system on its next use" (`drbg.R:34`, and the comment at 175).

Smaller things met on the way, which no run checks: `reduce32()` of ML-DSA goes
to -6283009, one past the bound its comment gives (harmless, and
`ReducesExact` uses the true one); its `montgomery_reduce()` gives q itself at
a = 2^31 q, where the comment says below q up to there (no caller comes near it, and
`Montgomery64Exact` is for a below that); `dk_ok()` of the 2025 HQC re-derives the seeds of
a private key but not the `s` of the public key stored in it, so a key spliced
with another's `s` is decapsulated, where round 4's refuses it.

Two more are in the definitions as the code has them, and the properties leave just
that out. A whole number of JSON whose double is infinite (310 digits) is read as `Inf`
and nothing is told of it: the comparison of its digits is for finite doubles only
(`R_FINITE(v)` in `rmbl_json.cpp:229`, `is.finite(v)` in `json_native.R:2630`), where the
documentation has whole numbers beyond 2^53 "read as doubles with a warning"
(`json_native.R:403`). And the loop over the blanks after a quoted column name tests
`len > b`, which it never changes, and counts up to a length that includes quotes the field no
longer has (`rmbl_csv.c:404`): with more quotes after the name it takes the name's own
blanks (`"a " "" ,b` names the column `a`), and where nothing is left of an empty one a
negative length goes to `mkCharLenCE()` (`Refused("negative length")` in `Csv`), where the
comment says of a quoted name that it keeps its blanks (`rmbl_csv.c:396`).

The passing runs then use the model without these: `uses` has the record only
with undivided keys and a session only in turns, `wayback` has no Ctrl-C in the
window and `native` none inside a progress closure. In `kernels` nothing
is kept from happening: `StreamsApart` leaves out the seeds of copies that came back to
their process, `ParsersExact` says nothing is changed in silence of numbers below
`Huge`, and names exact of those with nothing but blanks around their quotes.

## What is proved

All for any constants that satisfy the assumption of the module (`ConstantsAssumption`,
`GeneratorsAssumption`); `ReductionProofs` has no constants.

`XmssRecordProofs`. `NoIndexReuse` is not inductive: nothing in it says why a
session may sign. The invariant `IInv` adds what a session knows at each step:

- `LockInv`: whoever is in the locked function holds the lock, so at most one
  is; everything else leans on this.
- `SignInv`, `CallInv`: calls that sign have a real index; a key that signed has
  copies, so `xmssfgt()` with no key makes it exempt.
- `VisibleInv`: what processes see is among what a power cut may leave.
- `WriteInv`: the record being written, and the one just renamed, shows every
  retired index *without* the old json, so that renaming the json away is
  harmless; after the flush the same holds of all that a power cut may leave.
- `PendingInv`: the index a session is retiring is not retired by another.
- `SoleInv`: an index about to sign is in nobody else's hands and has not
  signed. `NoIndexReuse` follows.
- `RetiredOnDisk`, `TmpIntact`: the two other properties, needed here too.

The theorems: `TypeCorrect`, `TmpStaysIntact` always; `NoReuse` and
`RetiredStaysOnDisk` where a directory can be flushed (`DirFlush`: where it
cannot, the code signs before the rename is safe, and a power cut may take it
back); `AdvanceGoesPast` when moreover no session has the record off (such a
session cannot see what others retired).

Its second part. `NeverRepeats`: a session's memory is at or above every index
it made (`RemembersInv`), with the record on or off and whatever `DirFlush` is.
`NeverLowered`: what is about to be written is no lower than the file
(`NoLowerInv`), and only keys that exist are named in it (`UnknownInv`, which is
what lets a reset of the whole file be told from a loss).

Its third part. `RecordImplementsOneTime`: a session holds the slot it is
about to sign with. `Return` of a signing call is `Take`, the signature is
`Spend`, a kill, a power cut or a failed signature is `Drop`, and calls that
make a key exempt are `GiveUp`; everything else is a stutter. `StaysExclusive`
shows what is gained: in `OneTime` no slot is in two hands and none in hand has
signed.

`XmssUsesProofs`, for any number of runs, places, sectors and indices (a power of two
up to 2^16, all that the constant's assumption says of it). Its first part is about
the operators: sectors are disjoint and within the key (`SpanType`, `SpansApart`), a
split hides nothing that was used (`SplitShows`), a block was not shown as used and
is once it is written (`BlockShown`), and nothing shown is hidden by writing it
(`BlockKeeps`). `StateTypes` needs them even for types: that no block leaves the key
rests on the borders of the sectors. It holds of every behaviour of `XmssState`.

The rest is about `UsesSpec`, since with any copies and splits at once the
properties are false. `NoIndexReuse` says nothing of who knows what, so the invariant
`UInv` says why each index that is *claimed* (it has signed, is left of a reserved
block, or is in the session's hands) will not be given out again:

- `HomesInv`: every place where the key signs shows the index as used, or a run there
  will see its signature, or the record shows it, or it is of another copy's sector.
- `RunsInv`: the same of what a run that was asked to sign has already read; files
  change under it only by blocks of other runs, which their place then shows.
- `LockedInv`: a run in the lock of its place holds it alone, and what it read there
  is still there. It is true because no two homes read the same files.
- `AskedInv`, `FilesInv`: a run keeps to the use; files are split as the owners agreed,
  not at all where the record is relied on, and a state file that is yet to take over
  is untouched.
- `RecordInv`: with the record on, what has signed is in it, save what was used
  before it was switched on, which the key's `next_index` shows in every backup.
- `HandsInv`: what is reserved is in one hand and has not signed.

Then a block that `Commit` writes has no claimed index (`BlockIsNew`), which is the
heart of the three theorems: `OneIndexSignsOnce`; `PlacesNeverGoBack`, also at a state
file that reads the key file the block was reserved in (`CommitKeeps`); and
`UsesImplementOneTime`, where `Commit` and `SessionTake` are `Take`, the signatures are
`Spend`, `Quit` and `SessionFails` are `Drop`, and the rest stutters. `UsesTypesHold` is
`TypeOK` with the session's steps. `BlocksPastRecord` is the other side of the
violation in `shared_race`: if sessions sign only in between runs, then what a run
read of the record before its lock is not too old, since whatever other runs
entered meanwhile their place shows (`PastInv`).

`WaybackRunProofs`. `UrlsStayInPlace`: the partition is inductive once it is known
that the URL in hand belongs to the run and, at `clear`, has its result
(`HandInv`). `StartedArePolled`: a known capture is in flight or the file's last
line for it is "submitted" (`KnownInv`), so `Start` puts it in flight again and
`Post` cannot meet it; this holds with Ctrl-C at any moment. `RunTypes` and
`AsksAreCapped`, from `LimitsInv`: a URL that has used its tries has its result
(`TriesInv`); until the run is stopped its requests are at most the URLs that are
out plus those put back, and also at most the cap plus those out (`AsksInv`). Both
bounds are needed, as a URL that is given up counts as put back but does not stop
the run. `FinishedStayFinished`: the file's last line for a finished URL says so, and
the URL is not in flight when the exit handler runs (`DoneInv`); it is of
`WaitingSpec`, where Ctrl-C does not come in the window of `wayback_interrupt`.

`BarrierProofs`, for any `MaxFrames`. `DepthIsBarriers` needs to know where barriers can
be: `IInv` says of the stack that native calls and R code alternate, that a kernel
without a barrier is at the bottom (`StackOK`), that a flag or a kept message
belongs to a call on top that was stopped, and that a frame owes exactly when a
poll stopped it. Each way of ending a call pops one frame and one barrier (`PopStack`),
and an R jump may also stop the frame below (`JumpStack`). Theorems: `DepthCounts`,
`KeptIsRaised`, `RaisedExactly`.

`TransferProofs`, for any number of redirects and polls. Every step of the transport
is one of the barrier's or leaves it alone (`TransferIsBarrier`), which brings the
barrier's theorems over. The rest is `JInv`: on the requests made in a leg (once
one went away, `away` is set; an API's trail is all home, and a key went out at
most once) and on the file (a sink that is `whole` is a reply's; the destination is
what it was until the reply is recorded). Theorems: `KeyStays`, `AnswerIsAsked`,
`DestIsTold`. `NothingSentOnceTaken` needs besides that only `Send` lengthens the trail
(`OnlySendAsks`): a call that owes an interrupt has been stopped by a poll, and a call
that was stopped sends nothing. They are of `Spec`, without a Ctrl-C in the closure, as
the run is.

`GeneratorsProofs`, for any processes, environments, calls, interrupts and `Limit`.
`StreamsStayApart` is about all seeds but those in `returned`, of which a copy came back to
the process it was seeded in. It is about keys, which are terms of any depth. To follow one back to
its entropy would be recursion over data; `seed` carries that answer along, and the
theorem needs only that a key was made of the entropy its seed names. The invariant
`StreamsInv` is:

- `TypesInv`: every key, of a generator, of the saved copy and of what was delivered,
  is of the seed it names, and no delivery is past the limit.
- `HomesInv`: of the generators in the process they were seeded in, no two have their
  key from one seed, unless the seed is in `returned`. The others, forked or restored, reseed before they deliver; an
  interrupted reseed may leave one with a new key and the old process, never the
  other way round, because the process is the last assignment.
- `BehindInv`: what such a seed delivered is behind the generator that has it now, in the
  number of updates and in the number of requests.
- `OnceInv`: so of one such seed no number of updates, and of requests, was delivered twice.

Deliveries with equal bytes then have different seeds of the same entropy, and of those
there are only as many as were given; those of one entropy are told apart by seed and
number of the request, of which there are `Limit` a seed (`DeliveriesCounted`).

`ReductionProofs`. The run `kernels` tries these functions at the borders of their
intervals; here they are for every integer of the range that the code gives them.
`ReductionsExact`: `div_q()` divides all numbers of 23 bits by q, `montgomery_reduce()` and
`barrett_reduce()` of ML-KEM take off a multiple of q and end within their bounds, also
where a product wraps in an `int16_t`. `CompressionExact`: `compress()` rounds, to 1 to 11
bits, every `int16_t`, and `decompress()` is its right inverse and is off by half a step at
most. `RoundingsExact`: `decompose()` gives the nearest multiple for every coefficient, and
for every error the signer lets pass the hint is set just when the high part changes
and gives the verifier the signer's high part back: the product of coefficient and
errors is far more than TLC can go through. `Reduce32Exact`, and `Montgomery64Exact`, whose
numbers of 64 bits TLC does not have. The argument is the same throughout: each quotient
gets a name and the inequalities that define it (`Dividing`, `Quotient`), after which what
is left is linear, or linear in each case of a coefficient's interval (`RoundsTo`: the
last one wraps to 0).

Every safety and action property of the runs `record`, `record_off`, `uses`, `wayback` and
`native`, and `StreamsApart` of `kernels`, is a theorem. Only model-checked: liveness
(`LockReleased`, `CallReturns`, `RunEnds`, `CallEnds`), which needs fairness and so
`ENABLED`, out of the prover's reach; and the rest of `kernels`. What is proved of
`MlDsaRoundings` and `MlKemReductions` is straight-line code; the other kernels are
loops, and what a loop computes for every input needs induction over data, which
TLAPS cannot do with its SMT and first-order provers; many of them are `RECURSIVE`
operators besides.

## Not modelled, and what is left

- `ServicesCache`: the list and its signature in two files, readers and writers
  in two processes, a crash between the files, an old list replayed; an abstract
  specification of a cache that never goes back.
- `DataHub` and the fetch chain in R: manifest and tables with their digests, a
  refresh that races a download, fallback to archived copies.
- Sealing and replacing bundles in `capsule_check.R`; chained files (`chain.R`,
  `ledger.R`) under partial writes; the bundle checker's child process; the LLM
  answer cache; two Wayback runs on one results file.

Not planned. `morie_core.h` and the other statistics in C++ compute with
floating-point numbers, which TLA+ does not have: over integers the models would
be of other code. `siu_parse.cpp` matches patterns in one publisher's HTML, and
nothing but the pages says what is right. `rmbl_strtod.cpp` and `rmbl_gunzip.c` are
checked by the repository against other implementations. Path building, name
constraints and revocation are functions of documents, in R. Statistics,
surveys, plots, dashboards and reports in R keep no state beyond a call.
