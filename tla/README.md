# KauMA: a verification development

KauMA is a command line program: one JSON object in, one action, one JSON object
out. Behind its actions are a padding oracle with its TCP server and client, an
Enigma-like byte cipher, AES-GCM with a streaming GHASH, and the recovery of GCM
authentication tags by factoring polynomials over GF(2^128). This directory holds
TLA+ models of these parts, configurations that check them with TLC and proofs
that TLAPS checks.

`PROJECT.json` maps every definition to the lines it models and lists the runs,
the hazards and the theorems. To repeat a run: `tlc -config <cfg> <module>`; to
repeat the proofs: `tlapm <module>_proofs.tla`.

## Inventory

| Part | State | Operations | Interaction |
|---|---|---|---|
| Padding oracle attack (`padding_oracle/attack.cpp`) | bytes recovered so far, candidate, answers | `recover_plaintext`, `recover_block`, `recover_raw_block`, `recover_byte` | one TCP connection per block |
| Padding oracle server (`padding_oracle/server.cpp`) | key, ciphertext, number of Q blocks left | `handle_client`, `decrypt`, `validate_padding` | runs in a process forked per connection |
| TCP communicator (`tcp/communicator.*`) | a descriptor; per call the bytes done | `read_num`, `write_num`, `read_raw`, `write_raw`, connect, close | both ends of every connection |
| TCP server (`tcp/server.*`) | listening descriptor, accepted connection | constructor, `loop_forever`, `accept_and_spawn` | `accept`, `fork`, inherited descriptors |
| Byte order helpers (`bytemanipulation.hpp`) | none | `byteswap`, `swap_for_endianness`, `append_as_bytes`, `from_bytes` | communicator, GHASH, encryptor |
| Bytenigma (`bytenigma.*`) | rotors, inverse rotors, positions | `process_byte(s)`, `forward_pass`, `backward_pass`, `turn_rotor` | none; two machines have to agree |
| GHASH (`gcm/ghash.*`) | tag, key, two lengths, buffer, finalized flag | constructor, `update`, `finalize` | called by the encryptor and the recovery |
| Encryptor (`gcm/encryptor.*`) | Y0, counter, keystream, hash | constructor, `update`, `finalize` | GHASH, block cipher (Botan) |
| GF(2^128) (`gcm/polynomial.*`, `sse.h`) | a register of 128 bits | `+ * /`, `pow`, `modular_inverse`, `random`, conversions | everything in `gcm/` |
| Polynomials over it (`gcm/cantor_zassenhaus/polynomial.*`) | coefficients | `+ *`, `divmod`, `pow`, `ensure_monic`, `ensure_normalized` | `factorize` |
| Zeros (`gcm/cantor_zassenhaus/factorize.*`) | three lists of factors | `zeros`, `cantor_zassenhaus`, `gcd` | called by the recovery |
| Tag recovery (`gcm/recover.*`) | candidates for the key | `recover_auth_tag`, `gen_poly`, `gen_auth_tag` | `zeros`, `ghash` |
| Actions (`actions/`) | none | decode the input, call, encode the result | all of the above |
| Dispatch (`main.cpp`, `glue.cpp`) | none | parse, look up the action, print | the actions |

What is hard in it: two processes that talk over a connection with nothing but
counts to frame it; calls of the kernel that do half of what was asked, or fail;
processes that are killed, and restarted, while others hold copies of their
descriptors; lengths, buffers and flags that must come out the same however the
input was cut; loops that end only if the data has a property nobody checks. What
makes each part correct is listed with its module below.

## The modules

    BlockRecovery      contract of recover_block
      ^ implemented by
    PaddingOracle      attack process || handler process, message by message
      ^ extended by    (BothEnd is the fairness TcpServer assumes of a client)
    Plaintext          recover_plaintext: block by block, a connection for each
    NumberStream       contract of one direction of a connection
      ^ implemented by
    Communicator       write_num || read_num, byte by byte
    TcpServer          parent, forked handlers, connecting clients, crashes
    Bytenigma          two machines, one encrypting for the other
    Ghash  <-- Encryptor                 (Encryptor EXTENDS Ghash: m_hasher)
    GF <-- CzPolynomial <-- Division  <-- Arithmetic    the arithmetic actions
                            GcmBlock  <-- Arithmetic
                        <-- Factorize <-- Recovery      the tag of a fourth message

`<M>_proofs` holds the theorems about `<M>` and about the modules it extends: those on
Plaintext are in `PaddingOracle_proofs`, those on Division in `Arithmetic_proofs`, those on
Factorize in `Recovery_proofs`. `CzPolynomial_proofs` has the lemmas on the field and on
polynomials that the last two rest on. `MC<M>` has the instances of `<M>` for TLC.
`Encryptor` needs no more than numbers and is run directly. `Ghash`, `Division`,
`GcmBlock` and `Factorize` have the state and the steps of a part and are run within
the module that calls it, as in the code.
A definition marked "Mutant of X" is X with a plausible mistake. It is
not part of any specification; put in the place of X it must break a property.

### PaddingOracle

One connection. The client's variables are the locals of `recover_raw_block` and
`recover_byte` (`index`, `candidate`, `responses`, `raw_recovered`), the server's
those of `handle_client` (`s_ciphertext`, `count`, `served`, `q`); `cpc` and `spc`
say which call is next, and each action is one call: `WriteCiphertext`,
`WriteCount`, `WriteCandidate` (256 times), `ReadResponse`, `Scan` (the loop of
lines 82-100), `WriteValidatorCount`, `WriteValidator`, `ReadVerdict`, `WriteEnd`,
`Finish` on one side, `ReadCiphertext`, `ReadCount`, `ReadZero`, `ReadQ`, `Reply` on
the other, and the ways to end early: `ClientThrows`, `ClientSigpipe`, `NoneFound`,
`ServerThrows`, `ServerSigpipe`. Between them are two bounded queues, `wire`, and the
state of the connection as each end sees it, `link`. A write blocks when the queue
is full; closing with unread input resets the connection, and the reset may
overtake data. `Sever`, `KillClient` and `KillServer` may happen at any time.

`ValidatePadding` returns the set of results the build can produce: a padding byte
greater than the block size makes the loop compare memory in front of the block.

### Plaintext

`recover_plaintext` around it: `Start`, `NextBlock` and `Return` are its loop,
`InvalidLength` its check, `Abandon` the exception of a block that fails. `Client` and
`Server` are the steps of PaddingOracle, for one connection after the other; the
child of the connection before has no more to do than to read a count of 0, and is
not followed when the next one is made. `disturbed` is a history variable: some fault
has happened.

### Communicator

The loops of `write_num` and `read_num` for a sequence of calls (`Widths`), byte by
byte. `WriteSome` and `ReadSome` move any number of bytes the kernel may choose.
`WriteFails` and `ReadFails` return -1, which the code keeps in a `std::size_t`: the
arithmetic is modulo `SizeMod`, so -1 is large, positive, and ends the loop. Numbers
are functions from significance to byte; each host has a byte order, and
`Memory` turns a number into its bytes in it. Bytes on the wire are tagged with
their call and place for the invariants only; no action looks at the tags.

### TcpServer

The parent is a loop through `Accept`, `Fork` and `Return` (the end of
`accept_and_spawn`, where `~Communicator` closes the parent's descriptor).
`holders[c]` is the set of processes that have client c's connection open and
`listening` the set that has the listening socket open: `fork` copies both, for
nothing in the code is close-on-exec and no exec follows. `child[c]` is the handler
of c, a zombie once it has ended. A client resolves the name, tries its
addresses (`Connect`, `NotConnected`), is served or cut off. Failures: `accept`
returns -1, `fork` fails exactly when `MaxChildren` processes exist, clients,
handlers and the parent are killed, and the parent is started again.

### Bytenigma

`enc` encrypts an arbitrary byte, `dec` decrypts what it gave. One action is one
rotor: `Forward`, `Complement`, `Backward`, `Turn`. `there`, `back` and `turns` are
history variables. `rotors` ranges over machines as bytenigma.hpp documents them
(`Documented`) and over others, for which the code throws at a bad index
(`thrown`), divides by zero (`killed`), or goes on.

### Ghash and Encryptor

Bytes are opaque and named by where they come from, so that every difference in
order, grouping or padding shows. The tag is the list of the absorbed blocks:
`tag += block; tag *= key` is determined by it, and two equal lists have
equal tags for every key. `pc` says from where `update` was called, which is what
the padding and the lengths depend on. The reference is `as_ghash_polys`, which
the program itself uses to set up its equations. A second hash object, used by the
encryptor's constructor for a nonce that has not 12 bytes, only determines Y0, and the
counter part of Y0 is arbitrary in the model. A byte of the keystream is named by the
counter block it comes from and its place in it.

### GcmBlock, GF, CzPolynomial

`GcmBlock` is the field element as it is in memory: a register of 128 bits with shifts
of bytes and of lanes, in the bit order of GCM, and the product of `operator*=`
instruction by instruction. `GF` is the field as the algorithms above it need it: an
element is the set of the exponents with coefficient 1 (as `to_exponents` gives it), and
the field is given by its width and the lower terms of its reduction polynomial.
Polynomials (`CzPolynomial`) are sequences of coefficients, the constant first, which may
lead with zeros where the code does not call `ensure_normalized`.

### Division and Arithmetic

`Division` makes each round of the loop of `divmod` a step, with the assertion behind it.
`Arithmetic` is one request to one of the actions of `gcm_arithmetic.cpp`. `at` says
which loop runs: the rounds of `gcd` and of the two `pow`, each with the divisions it
calls, and of the `pow` that `operator/=` calls for the inverse. An exponent is
the set of its bits; in `pow` modulo a polynomial it is a register and is shifted as one.

### Factorize and Recovery

`Factorize` has the three lists of `zeros`; each `Attempt` takes any
random polynomial that `random` may draw, evaluates `cantor_zassenhaus` on it,
and keeps the split if there is one; an unlucky attempt changes nothing.
`Exhausted` is the constant polynomial, for which `f.degree() - 1` underflows.
`Recovery` begins with a polynomial of any kind (the action `cantor-zassenhaus`) or with
the polynomial that `gen_poly` makes of two messages; a sender's key and mask are history
variables, from which the tags of the messages are computed. `BeginSearch` chooses the
third and the fourth message, which nothing looks at earlier; `DropCandidate`,
`Forge` and `NoCandidate` are the search through the candidates from the end of their list.

## What the runs check

| Run | States | Shows |
|---|---|---|
| `Plaintext` | 631 thousand | `ClearIsRight`, `RecoversText`: texts of several blocks, with every fault at every moment |
| `PaddingOracleFaults` | 213 thousand | `RecoveredIsRight`, `NotFoundOnlyOnLoss`, `FramesAgree`, `NeverWaitsForRoom`, `BothEnd` and `ImplementsRecovery` with every fault at every moment |
| `PaddingOracleVerdict` | violation | `PaddingVerdictIsSound` |
| `CommunicatorFaults` | 163 thousand | `ReceivedIsSent`, `WholeNumbers`, `Delivers`, `BothEnd`, `ImplementsStream` with every fault, for all pairs of byte orders |
| `CommunicatorReadError` | violation | `ReadFailureThrows` |
| `TcpServerFaults` | 64 thousand | `OwnConnectionOnly`, `StartsAlone`, `HangsUpOnNobody`, `EveryoneServed`, `NobodyWaitsForever`, `AllCloses` with every fault |
| `TcpServerZombies` | violation | `TurnedAwayOnlyWhenBusy` |
| `BytenigmaRotors` | 197 thousand | `Decrypts`, `NeverToItself`, `DocumentedNeverFails`, and `Odometer`: which rotors turn when |
| `Encryptor` (with Ghash) | 216 thousand | `OutIsCounterMode`, `KeystreamIsFresh`, `TagCoversOut`, `NothingAfterTag` |
| `Arithmetic` (with Division, GcmBlock) | 414 thousand | `BlocksAreRight`, `QuotientsAreRight` at 128 bits; `DivisionIsRight`, `RoundsShorten`, `GcdIsGreatest`, `ValuesAreRight`, `PowerIsRight` of polynomials |
| `Recovery` (with Factorize) | 14 thousand | `FactorsMultiply`, `ZerosAreRight`, `SomeDrawSplits`, `AbortsOnForgeryOnly`, `TagIsAuthentic` |
| `FactorizeIrreducible` | violation | `SearchGoesOn` |

Type correctness is proved (below) wherever there is a proof, and its run checks the
other properties only, except for `IInv` of Bytenigma. Liveness is
checked together with the faults: `Delivers` and `EveryoneServed` name the faults
that excuse them (an end of the connection is lost; the client, its handler or
the server is killed, or the process table is full when the parent forks for this very
client), so that the run shows of every other fault, and of whatever happens to other
clients, that it does no harm. `RecoversText` says that a text is recovered unless there
is a fault, and that the attack ends, with nothing wrong, if there is one.

`ClearIsRight`, `ValuesAreRight` and `BlocksAreRight` compare with definitions that are not
the program's: decryption in CBC mode, the value of a polynomial at each point of the
field, and the field of SP 800-38D on bytes. Where the field has so few points that the
values do not tell a polynomial, `ValuesAreRight` asks for more: the coefficients of a sum,
the degree and the leading coefficient of a product, and of a power that it is the product
that the bits of its exponent spell. `TagIsAuthentic` compares the forged tag
with the one that the sender, who has the key, would write. `AbortsOnForgeryOnly` says
that the key is always among the candidates, however degenerate the polynomial is.

A violation is a disagreement between the code and something the repository says
of it:

* `server.hpp:53-55` promises a verdict on the padding; for a padding byte above 16
  the verdict depends on the memory in front of the block. The attack is not misled
  by it (`RecoveredIsRight` holds, and is proved, for either verdict).
* `communicator.hpp:45` and `:67` promise an exception when reading or writing
  fails; a failed call is taken for a success of 2^64 - 1 bytes. The run shows it for
  reading; `WriteFails` is the same step on the other side.
* `server.hpp:27` promises to accept connections forever; children are never waited for,
  and once they fill the process table an idle server turns everyone away.
* `factorize.hpp:7` promises the solutions of p = 0; for a polynomial with a
  factor that has no zeros the search does not end.

`docs/bytenigma/security.md:16` says that the rotor at position n turns every 2^n
bytes on average. `Odometer` states, and the run confirms, what the code does: it
turns every 256^n bytes.

### Bounds

* PaddingOracle: blocks of two bytes, of two bits each: the last byte, for which two
  candidates may pass, the first, and padding bytes of 0, of each valid length and of one
  beyond the block. All keys against one ciphertext suffice because only their
  exclusive-or is used. `QueryCap` 2 lets the client block; `ReplyCap` is the number of
  answers of a round, which is what 256 bytes of answers need at most, far below a
  socket buffer.
* Plaintext: a text of two blocks of three bytes, so that a middle byte exists too, the
  empty one, and lengths that are refused, under two keys. The second block is every later
  one: it has a block of the text before it.
* Communicator: two numbers, of three bytes and of one; `SizeMod` 8 is greater than
  three and lets -1 be large. The wire holds three bytes, so that writes are cut.
* TcpServer: three clients, queue of one plus the one more Linux allows, two
  processes: queue and process table get full. Two addresses, the first IPv6.
* Bytenigma: bytes of two bits, so that all 24 rotors and many pairs are
  tried over 17 bytes, a round of two rotors and one byte; with three rotors the
  second carries into the third within it.
* Encryptor and Ghash: blocks of four bytes, up to five bytes of associated data
  and 17 of text in chunks of up to nine: no block, a part of one, a whole one and
  several at once. Counters are modulo 4, so that the counter wraps. `WordSize` is 64,
  so that a length of eight bytes or more wraps in the hash and in its
  reference alike, which in the code takes 2^61 bytes.
* Arithmetic, blocks: the products of all pairs of monomials at the full width, which
  determine every product because each instruction distributes over exclusive-or, and some
  dense ones; `pow` and the inverse on three fractions, one of them by zero.
* Arithmetic, polynomials: GF(4), all pairs of up to three coefficients, leading zeros
  and the empty one included. Exponents of up to 64 bits with a bit in each lane and at
  the borders of lanes, and one of 65, which JSON does not give as unsigned.
* Factorize and Recovery: GF(4), polynomials up to degree 3; messages of none to two
  blocks, so that two messages differ in length, agree in everything, or differ in a block of
  associated data only; one key and mask, but every tag of the third message. Factorize
  needs a width that is even, as 128 is, for its exponent (2^w - 1) / 3.

### Fairness

Each process is scheduled as long as it is not blocked in a system call: weak
fairness of `ClientNext` and `ServerNext`, of `WriterNext` and `ReaderNext`, of the
parent and of each handler and client. `Accept` has strong fairness, since `accept`
may fail in between, but not forever. That a client that is being served
ends is `BothEnd` of PaddingOracle. Faults, restarts and `Construct` or
`Update` calls are never fair. Of Plaintext the two processes and the loop around the
client are fair in the same way, and faults are not. Arithmetic and Recovery have no
fairness; that `Division` ends is the measure in `RoundsShorten`, and that the search of
`Factorize` can end is `SomeDrawSplits`, since the draws are random and not fair.

## What is proved

For every value of the constants that meets the assumptions of the modules, every safety
property that a run checks except the violations. A theorem of the form `Spec => []P`
follows from `Spec => []I`, for an inductive invariant `I`, and `I => P`; an action property
from `I` and one step.

What the loops of pure functions compute is proved too. Where a function is
defined by recursion over numbers its equations come from `Recursion`, and what holds for all
numbers from the least one for which it does not (`Induction`). Nothing is assumed of
`2 ^ n`: that each power doubles the one before follows from counting subsets (`PowersOfTwo`).

* **PaddingOracle** (`Invariance`, `TypeCorrect`, `ResultsAreRight`,
  `SearchSucceeds`, `NoMutualWait`, `FramesMatch`, `Refinement`). None of the properties is inductive:
  that an answer is right needs that the server's ciphertext and `q` are those the
  client sent, and that the n-th answer belongs to the n-th candidate. `IInv` says
  so in two parts. `InStep` ties `spc`, `count`, `served` and the messages on the wire
  to `cpc` and `candidate` while both ends are connected. `Genuine` says that answers,
  on the wire and received, are among those `ValidatePadding` may give for the
  candidate, as long as the client has not ignored a read error. Which candidate is
  right is arithmetic of `Xor` alone (`PayloadDecrypts`, `RightAnswer`, `WrongAnswer`,
  `RightVerdict`, `WrongVerdict`). `FramesMatch` needs one thing more, `Framed`, which holds
  after a fault too: the messages not yet read are the end of what the client has written
  (`Expected`), counted from the round it is in. The assumptions: a block is shorter than the
  number of bytes, `Xor` is an abelian group of exponent two on them, a round of
  answers fits into the reply buffer.
* **Plaintext** (`TextIsRight`). The step lemmas of PaddingOracle hold for each connection,
  so that `IInv` of PaddingOracle is an invariant of the composition; added to it is that
  the blocks recovered so far are decrypted, and the next one is the one attacked.
* **Communicator** (`Invariance`, `TypeCorrect`, `NumbersArrive`, `NumbersAreWhole`,
  `Refinement`). `IInv` says that the bytes on the wire are those of the numbers sent,
  consecutive (`InOrder`), that the last is where the writer is (`WriterFollows`), the first where
  the reader is (`ReaderPrecedes`), and that the half-read number is a prefix of the number
  sent (`HalfRead`).
* **TcpServer** (`Invariance`, `TypeCorrect`, `NoLeaks`, `RestartIsClean`,
  `NobodyIsHungUpOn`). `IInv` adds to the properties that the port is held exactly by the
  parent (`Listens`) and the living children (`PortIsHeld`), that a connection is queued or
  accepted, never both (`AcceptedOnce`), and what is known of a client that has
  not been accepted (`Unknown`) or has (`Accepted`). A step that leaves a client connected
  to nobody is the parent's close, where no child was forked (`NoRoom`) since one that
  leaves by itself has seen its client end (`Waiting`); or it is the end of the client's own
  handler or of the last holder of the queue, and then the server is down.
* **Bytenigma** (`Invariance`, `NeverFails`, `NoFixedPoint`, `Decryption`). `IInv` follows
  the two bytes: the way back differs from the way there at every rotor,
  which is the argument of security.md, and the decrypting machine's way is the
  encrypting one's reversed. The positions of the two agree up to the rotor
  that `turn_rotor` has got to.
* **Bytenigma, the counting** (`CountsLikeOdometer`). A second invariant ties the turns of
  a rotor to the turns of the one before, with the carry of the turn that has not reached it
  yet. That rotor n turns once in `NumBytes ^ (n - 1)` bytes is division of the number of
  bytes by one more factor for each rotor.
* **Encryptor with Ghash** (`Invariance`, `TypeCorrect`, `CounterMode`, `FreshKeystream`,
  `TagIsRight`, `TagIsLast`; the part of the hash is `GhashInv`). `Stream`
  is all the hash is to absorb, data, zeros and lengths; `Absorbing` says that the
  absorbed blocks and the buffer are a prefix of it, without a gap, whose length `Total`
  follows from `pc`; `Counted` that the lengths, modulo `WordSize`, are right whatever
  the padding adds and takes away. A finalized hash has absorbed the whole stream, and
  that is `as_ghash_polys` block by block (`FinalTag`). `Aligned` and `Encrypted` give every
  byte of the plaintext, the keystream and the ciphertext its place, and `Control` says
  which calls of the hash can run in which call of the Encryptor. `FreshKeystream` then is
  arithmetic: counters less than 2^32 apart are different. The assumptions: a block has an
  even number of bytes, a counter more than one value.
* **The field and its polynomials** (the lemmas of `CzPolynomial_proofs`). A product of
  elements is associative, distributes and has inverses, and so does, inverses apart, the product
  of polynomials; `divmod`, `gcd`, `pow` and `ensure_monic` return what their names say;
  the value of a product is the product of the values. All sums are parities of cardinalities, and
  an element is a sum of powers of x, for which everything is shown first. The one
  assumption that is not about the form of the constants is `FieldInverses`: the power that
  `modular_inverse` computes is the inverse, as it is when the reduction polynomial is
  irreducible. TLC evaluates it for the fields of the runs; for 128 bits it is a fact about one
  polynomial, which the proofs do not show.
* **Arithmetic with Division** (`Invariance`, `DivisionIsAlwaysRight`,
  `RoundsAlwaysShorten`, `ValuesAreAlwaysRight`, `PowerIsAlwaysRight`,
  `GcdIsGreatestOfAllPolynomials`, `GcdIsAlwaysGreatest`). `IInv` is that quotient times
  divisor and remainder are the dividend, coefficient by coefficient, since the
  remainder may lead with zeros; a round cancels the leading coefficient, which the remainder
  therefore loses. The rounds of `gcd` keep the common divisors (`CommonDivisors`), those
  of `pow` the product of what is done and what the rest of the exponent stands for, modulo
  the modulus. `GcdIsGreatest` as the run checks it looks for common divisors among the
  constant `Polynomials`, so that its theorem needs that this set has all shorter
  polynomials (`ShorterOnes`); `GcdIsGreatestOfAllPolynomials` is about all there are and
  needs nothing.
* **Arithmetic on blocks** (`BlocksAreAlwaysRight`, `QuotientsAreAlwaysRight`). The four
  products of halves are the product, the shifts of the four lanes of each register by one
  bit are one shift of 256 bits, and the two reductions fold the upper half into the lower: `operator*=` is the
  product of SP 800-38D, by GF's way of counting exponents, for every pair of blocks. For
  the constants of GCM (`OfGCM`) this is the product of `GF`; the loop of `pow`, whose exponent
  of 2^128 - 2 is a register shifted in its four lanes of 32 bits, then computes
  `modular_inverse` in 128 rounds, of which the first finds its bit clear
  (`RoundsOfInverse`).
* **Recovery** (`Invariance`, `TagIsRight`). That a forged tag is the sender's, or a zero
  other than the key reproduces the third tag, holds for every field, key, mask and
  messages, whatever the zeros are: `IInv` says that candidates are zeros, that the one
  chosen reproduces the third tag, and that the first message is the sender's.
* **Recovery with Factorize** (`FactorsInvariance`, `FactorsAlwaysMultiply`,
  `ZerosAreAlwaysRight`, `SomeDrawAlwaysSplits`, `KeyIsCandidate`,
  `AbortsAlwaysOnForgeryOnly`). `FactorsInv` is that
  the factors of the three lists multiply to the polynomial, that those that wait are monic,
  or empty when the polynomial is, and that final ones are linear; no draw fails an
  assertion (`SplitIs`: a greatest common divisor divides). `KeyInv` follows the key from
  `gen_poly`, where Horner's rule in `ghash` is the value of the polynomial (`KeyIsZero`),
  through `ensure_monic` and the factors into the candidates.
* **The draws of Factorize** (`SomeDrawAlwaysSplits`). No factor that waits is 1 (`UnitsInv`,
  as a draw that gives the factor itself or 1 is no split). A factor of degree 2
  or more of a product of linear polynomials is therefore divided by the product of two of
  them, t and s, equal ones included (`TwoLinearFactors`). There is an h that is 1 modulo t but not
  modulo t * s, and whose odd powers are h itself modulo t * s (`LuckyDraw`); for an even
  width the exponent of `cantor_zassenhaus` is odd (`ExponentIsOdd`), so that the power it
  takes is h modulo t * s (`OddPower`). Then t divides both the factor and the sum of
  the power and 1, the factor does not divide that sum, and the greatest common
  divisor splits it. `PowMod` is followed to that point through congruences (`PowModCongruent`).

### What is only model-checked

Liveness (`RecoversText`, `BothEnd`, `Delivers`, `EveryoneServed`, `NobodyWaitsForever`,
`AllCloses`) and everything with `ENABLED` is out of the prover's reach. The runs that
find a violation are not about what holds. Every safety property of the other runs has a
theorem. `FieldInverses` is the one assumption that only TLC confirms, field by field.

## What is not modelled, and why

* JSON, base64, dispatch and output: one call each, without state. An action is
  modelled from its decoded input on.
* `Noop` returns its input; `external/` (doctest, cppcodec) is vendored; the test driver and the examples are
  inputs.
* AES (Botan): its output is a name for its input.
* A peer that vanishes without a reset. The code has no timeouts and would
  block forever. In the models a broken connection is reported to both ends.
* Signals that interrupt a call: the program installs no handlers.

Further abstractions: PaddingOracle counts capacities in messages and makes `write_raw`
one step, since Communicator shows that numbers arrive whole; a garbage count is
0, 1 or 256. `Sever` of PaddingOracle needs both ends open; that of Communicator also
meets data in flight from a writer that has closed. `bind` may be refused
for no visible reason, as it is for a while after a server has ended.

## Plan

Done, in order of importance: PaddingOracle with BlockRecovery, Plaintext, Communicator
with NumberStream, TcpServer, Bytenigma, Encryptor with Ghash, Arithmetic with Division and
GcmBlock, Recovery with Factorize, and the theorems above. What is left:

`FieldInverses` from the irreducibility of the reduction polynomial: that the power is the
inverse is Fermat's theorem for the field, for which the proofs lack the product of all of its elements.
