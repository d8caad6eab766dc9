# Verification of Buada_BFT

TLA+ models of the asynchronous BFT stack in this repository, the TLC runs that
check them, and TLAPS proofs about them. Line numbers below refer to `src/`.

## 1. The system

A deployment has `N = 3F+1` parties. Every party runs one process with many
goroutines; parties exchange protobuf messages addressed by a pair
(type, instance ID). The layers, top down:

| layer | code | what it promises |
|---|---|---|
| AAB | `internal/aab/buada.go` | one set of decrypted proposals per epoch |
| ACS | `internal/acs/buada_acs.go` | every party returns the same set of at least 2F+1 proposals |
| VDD | `internal/vdd/vdd.go` | parties that miss a chosen proposal get it from the others |
| MVBA | `internal/mvba/mvba.go`, `apdb.go` | agreement on a long value: disperse, agree on a commitment, recast |
| SMVBA | `internal/smvba/*.go` | agreement on a short value, in rounds |
| SPB, PB | `internal/smvba/spb.go`, `internal/pb/pb.go` | (strong) provable broadcast |
| transport | `internal/party/party.go`, `pkg/core/*.go` | channels per (type, ID) |

### Components, state, operations, what makes them correct

* **Provable broadcast** (`pb.Sender`, `pb.Receiver`). State: the `sigs` slice of
  the sender. The sender broadcasts Value and collects 2F+1 Echo shares; a
  receiver answers one Value with one Echo. Both end early when their context is
  cancelled.
* **Strong provable broadcast** (`spbSender`, `spbReceiver`). Two provable
  broadcasts in a row, the second carrying the signature of the first. A receiver
  ends with a *Lock* in `Lr`, the sender with a *Finish*. Correct if a Finish
  rules out 2F+1 parties that will say they hold no lock, whatever the order of
  Echoes, cancellation (`spbCancel`), `Lr.Store`, `wg.Wait` and the read of `Lr`.
* **Leader election** (Finish and Done goroutines of `messageHandler`, goroutine
  `election`, `doneFlagChannel`). State: `Fr`, `FrLength`, `coins`, a channel of
  capacity one written by two goroutines and read once. Correct if the coin is
  not revealed before 2F+1 Finish, no goroutine is stranded on the channel, and
  a leader known to one party becomes known to all, though parties return and
  cancel their goroutines.
* **Round** (short-cut, `preVote`, `vote`, PreVote/Vote/Halt handlers, the second
  `select` of `MainProcess`). State: `PNr`, `VYr`, `VNr`, flags, `haltChannel`.
  Correct if nobody leaves with No a round somebody decides in, a decision ends
  every party, and a round does not hang.
* **SMVBA** (`MainProcess` over rounds). State: `value` carried from round to
  round, `haltChannel` shared by all rounds. Correct if it solves consensus: one
  proposed value returned everywhere.
* **MVBA** (`PDSender`, `PDReceiver`, `Recast`, `MainProcess`). State: `Sr`, the
  collected shards. Correct if every party recasts the same value and does so
  whenever a lock exists.
* **ACS**. State: `Pr`, the collected Finals. Runs PB for its proposal, MVBA on
  the first 2F+1 Finals, then VDD. Correct if all parties return one set of at
  least 2F+1 proposals, though they collect different Finals and a party that is
  done cancels broadcasts others are still in.
* **VDD** (`CallHelp`, `helpListener`, `strongHelp`, `weakHelp`,
  `onlineErrorCorrection`). State per missing proposal: `starShares`, `star`,
  `starWait`, `finishFlag`, `decodeShareChannel` (capacity N). Correct if every
  party ends with every chosen proposal and no goroutine waits for ever.
* **AAB**. State: `decShareMaps`. Encrypt, ACS, exchange decryption shares. Correct
  if every party gets more than F+1 of them, matched to the same proposals.
* **Transport**. One dispatcher per party moves messages from one receive channel
  (capacity 1024) to a channel per (type, ID) (capacity N). Correct if no message is
  lost or copied and neither an unread topic nor a stalled peer holds up the rest.
* **Pure code**: `reedsolomon` (padding over a library, in `Codec`), `vectorcommitment`
  (Merkle tree over a library), `tpke`, `utils`, `config`, generated protobuf.

### Interactions

AAB calls ACS, ACS calls PB, MVBA and VDD; MVBA calls SMVBA once per round of its
own; SMVBA runs N instances of SPB per round. Inside a party goroutines share
`sync.Map`s (`Lr`, `Fr`, `Sr`, `Pr`, `resultSet`) and Go channels; parties share
nothing but messages.

### What is hard to test here

`PROJECT.json` lists the hazards line by line. They are: the order of Echo,
`Lr.Store`, cancellation and the read of `Lr`; two handlers writing a channel of
capacity one that is read once; parties that return and take their goroutines
with them while others still need their messages; Votes of both kinds arriving
in different orders; Halts of an old round; values overwritten between rounds;
recasting and help that wait for more answers than are certain to come; parties
that decide on different Finals and cancel each other's broadcasts; bounded
channels below everything, and processes that end while others are still busy.

## 2. Modules

| module | models | checked by | proved in |
|---|---|---|---|
| `Quorums` | the parties, `F`, `len(...) > 2F` | all | `QuorumLemmas` |
| `SPB` | one sender's strong provable broadcast in one round | `MCSPB` | `SPBProofs` |
| `LeaderLock` | abstract: what a round gets from its leader's SPB | (target of `SPB`, used by `Round`) | `SPBProofs` |
| `Election` | from Finish to the leader in one round | `MCElection` | `ElectionProofs` |
| `Round` | one round after the leader is known | `MCRound` | `RoundProofs` |
| `SMVBA` | the rounds together | `MCSMVBA` | `SMVBAProofs` |
| `Consensus` | abstract: what `MainProcess` promises | (target of `SMVBA`) | `SMVBAProofs` |
| `MVBA` | dispersal, `Sr` and recast around SMVBA | `MCMVBA` | `BuadaProofs`, second part |
| `Codec` | a proposal's suffix and padding, as bytes | `MCMVBA` | `BuadaProofs`, second part |
| `VDD` | calls for missing proposals and the answers to them | `MCVDD` | `VDDProofs` |
| `Buada` | an epoch: `BuadaACS` and the decryption around it | `MCBuada` | `BuadaProofs` |
| `CommonSubset` | abstract: what `BuadaACS` promises | (target of `Buada`) | `BuadaProofs` |
| `Transport` | send, receive and topic channels, the dispatcher | `MCTransport` | `TransportProofs` |
| `Delivery` | abstract: what `Broadcast` and `GetMessage` promise | (target of `Transport`) | `TransportProofs` |

The composition: `SPB` implements `LeaderLock` (with "locked" meaning "has sent
the Echo of PB 2"), `Round` is built on `LeaderLock` and implements the first round of
`SMVBA`, which chains rounds at the grain of their broadcasts and implements
`Consensus`. `Election` explains the two
facts `Round` and `SMVBA` take from the election: every party gets a leader, and
only after 2F+1 parties entered the round. `Buada` puts the parts together at what
their modules say of them: a Final takes 2F+1 Echoes (`SPB`), MVBA returns one
input (`Consensus`, `MVBA`), `CallHelp` returns what F+1 callers hold (`VDD`); in turn
it establishes what `VDD` presumes: that F+1 hold each proposal and at most F+1
lack it. `Transport` is below all of them and implements `Delivery`, a set of messages on
their way that are each read once and in any order, which is how all the others
treat messages. `MVBA` extends `Codec`.

### Correspondence with the code

**SPB.** `value[k]` and `echo[k]` are the Value and Echo channels of phase `k`,
`sigs[k]` the sender's slice, `Lr` who stored the lock, `main` and `receiver` the
program counters of `MainProcess` and of the goroutine around `spbReceiver`.
`ReceiveValue1/2` and `StoreLock` are separate steps because the Echo leaves
before `Lr.Store`. `CancelReceive1` goes on to phase 2, as `spbReceiver` ignores
the first result. `WaitOver` is `wg.Wait()`. A wrong signature leads to the state
"fatal" (`log.Fatalln`). Only this sender's instance is followed; the other N-1
instances `wg.Wait` counts behave alike and only delay the main process.
The `validation` bytes of PB 1 are not checked by the code and not modelled.

**Election.** `Fr`, `coins` are what the two handlers stored; a handler that finds
`doneFlagChannel` full is in `blocked` and takes no message until `election`
reads the flag. `main` is "halted" if `MainProcess` has returned at the first `select`
of the round, "returned" if after it. Both cancel the context; handlers may still
run after it (a `select` with two ready cases takes either), which safety allows and
fairness does not require. A halted party has not waited in `wg.Wait()`, so its Finish may
still be broadcast. `halt` says that the round has been decided somewhere: `Decide` stands for
the short-cut and the yes Votes of `Round`, and `TakeHalt` needs `leader` of the party, as
its Halt handler starts only when `thisRoundLeader` is read. The type says that
`tbls.Recover` of the coin gets its 2F+1 shares, as its error is dropped.

**Round.** `preVote` and `vote` are the broadcasts, `VYr`/`VNr` the slices of the
Vote handler, `voteFlag` what it wrote to `voteFlagChannel`, `outcome` how
`MainProcess` left. `MainProcess` reads one flag per round, so the handler is
followed up to its first flag; likewise `vote` reads one flag of the PreVote
handler, and `CanVote` says which of the two flags can be first. `main = "next"`
is a party in a later round; `OtherRoundReturns` stands for whatever ends it
there, and for a Halt of another round taken at either `select` of this one. When `MainProcess`
returns, `cancel()` ends the Vote handler, and what it has counted goes with it (`EndHandler`).
`RoundStep` is every other step, `AloneSpec` the round on its own.

**SMVBA.** `input[r][p]` is the variable `value` of `p` in round `r`; `Lock`,
`PreVote`, `Vote`, `Result*`, `TakeHalt` are the steps of `Round` with the
counting replaced by the set of broadcasts made so far. The coin of a round is a
fixed unknown (`leader`), as it is for the parties. A party can take a Halt of
any round it has reached. `ResultOther` needs a yes, a no and 2F+1 in all.

**MVBA.** The dispersal followed is the one of `Leader`, the party whose proposal
SMVBA will return (a fixed unknown). `receiver` is the goroutine around
`PDReceiver`: it sends Stored (`ReceiveStore`) before it writes `Sr`
(`SaveStore`). Another party's own dispersal only decides when that party enters
SMVBA, which `EnterSMVBA` leaves open. `ReturnSMVBA` takes from `Consensus` that the
result is one proposed value, and from `Election` that 2F+1 parties have entered; it
includes the one read of `Sr` and the broadcast of Recast. `TakeRecast` of the 2F+1st
shard decodes, encodes again, compares with `vc`, and takes validation and suffix off
what `MainProcess` returns. A party whose recast fails would go to another `r`,
which is not followed: `ReturnedWhole` says that none does, so the loop runs once.

**Codec.** `Pad` and `Unpad` are what `RScoder` adds to its library and takes off again,
`ValueAndValidation` and `ResultValue` the same for `mvba.MainProcess`, on sequences of
bytes, with the conversion of a length to four bytes and back. Of the library it is
taken that any F+1 of its shares give the padded bytes back, and of the Merkle
tree that `vc` tells one sequence of padded bytes from another. `N <= 256` is the limit of
`infectious.NewFEC`. `VDD` uses the same coder (`vdd.go:51`, `221`).

**VDD.** `required` is what `CallHelp` does not find in `Pr`; its possible values are
the constant `Missing`, as they come from ACS. One `TakeStrong` or `TakeWeak` is one
turn of the `select` over a whole message: the decoders a message concerns are
independent, so no order inside the loop over `ShardID` is lost. `shares` counts
what was put into `decodeShareChannel`; the decoder's reads before the 2F+1st
are not followed, so the count is the fullest the channel can be. `helping` holds
the `weakHelp` goroutines by the message they will send; the Strong of the same
Call is sent at once. `Decode` is `resultSet.LoadOrStore`, `Finish` the flag and
`finishWait.Done`: between the two a helper may already answer Strong. `helpListener`
looks up the proposals of a Call one after the other while decoders store them. `Help` is the
end of that loop, and `missed` has the proposals it looked up just before `Decode` stored them: one
may be found and another, stored before it, be put in the list of `weakHelp`. It holds those of one Call
at a time, as the listener does.

**Buada.** `receiver[p][j]` is the goroutine around `pb.Receiver`, which sends the Echo
before `Pr.Store`; `Pr(p)` is read at `ReturnMVBA`, where `CallHelp` begins, and a
`Store` after it is left out as nothing reads `Pr` again. `CollectFinals` is the Final
handler up to its write to `mvbaValueChannel`, as one step: what it does before the
2F+1st Final is seen by nobody, and after it nothing is read. `chosen` is the
result of MVBA, the same at all parties. `ReturnHelp` is the end of `CallHelp`,
`cancel()`, and the broadcast of Dec. A cancelled goroutine may still run, as a
`select` with two ready cases takes either. Three constants say what a run is
about: `Steady` parties never stop, `Reach` says whose Value comes in time, `Slow` whose
goroutine may be held up between Echo and `Pr.Store`; the invariants are proved for
every value of all three.

**Transport.** `to[b]` is the loop variable of a Broadcast, `sendChannels` and
`receiveChannel` the channels of capacity `MAXMESSAGE`, `topicChannels` the double map of
the dispatcher, which `GetMessage` shares. `Deliver` is the goroutine that writes a
connection and the one that reads it, as one step. What the sockets can hold besides is
left out; it only lets senders go on longer. `Stalled` are parties that take nothing from their
connections and keep them open. `End` is the return of `main` after `WaitTime`, which is a
timer and not an agreement, and `Break` the `log.Fatalln` of a goroutine whose
connection has broken: the first process to return from `main` takes the others with it. Nothing in the
code keeps that from coming too early, so `AllArrive` promises nothing once a process has ended. `InTransit` is the refinement mapping to `Delivery`: a message
is on its way while it is in a send, receive or topic channel. `Send` and `Read` are
the steps of the same names there; `Deliver`, `Dispatch`, `End` and `Break` change nothing.

### Common abstractions

* The parties follow this code. Each may stop at any point (a step is never
  forced in the safety runs) and messages take any order and any time. Parties
  that deviate from the code are not modelled: the code's checks against them
  are signature verifications, which succeed for every message modelled here.
* `Broadcast` puts a message in all N channels in one step. Each party sends at
  most one message per (type, ID), so the channels of capacity N never fill. This
  is what `Transport` checks: with that traffic, and no more messages from one sender
  than a send channel holds, no dispatcher blocks and everything arrives at
  every party that takes messages. 1024 messages are far more than an
  epoch of a few rounds sends to one peer; beyond them a stalled peer would
  hold up Broadcasts.
* A threshold signature is the set of parties whose shares it is made of.
  `tbls.Recover` needs 2F+1 of them (`party.SigKeyGen(N, 2F+1)`).

## 3. Runs

All runs but `vdd`, `vdd_stall` and `transport` have `N = 4, F = 1`, the smallest deployment of the repository's own
configuration and the smallest with a faulty party; quorums of 3 of 4 intersect
in 2 and one party can be missing, which is where every property could break.
Deadlock checking is off: each modelled component ends, by design.

| run | bounds | shows |
|---|---|---|
| `spb` | one silent receiver | `FinishExcludesNoQuorum`, `PreVoteMatchesEcho`, `NoFatal`, refinement of `LeaderLock`, `WaitReturns`, `SenderFinishes` |
| `election` | one silent party | `CoinAfterFinishQuorum`, `FlagChannelSuffices`, `LeaderSpreads`, `HaltSpreads`, `LeaderElected` |
| `round_safety` | every set of locks, all parties may act or stop | `DecideExcludesNo`, `NoIsFinal` |
| `round_live` | one silent party, every set of locks | `VotesCast`, `UniformVotesEnd` |
| `round_stall` | all parties up, one lock | finding: the round can hang |
| `smvba` | two rounds, two values, all four parties up; the party with a proposal of its own leads the second round | `Agreement`, `CommitCarries`, refinement of `Consensus` |
| `mvba` | one silent party; two proposals that fill their rows of two bytes and one that does not | `Retrievable`, `ReturnedWhole`, `RecastEnds` |
| `mvba_stall` | all parties up | finding: recast can hang |
| `vdd` | 7 parties, `F = 2`, two silent; two proposals, missing in three ways | `ReturnedComplete`, `ChannelSuffices`, `CallsEnd` |
| `vdd_stall` | 7 parties, `F = 2`, all up; four proposals, each held by three; parties in turn | finding: `CallHelp` can hang |
| `buada` | each proposal reaches three parties, that of `d` other ones than the rest; `d` may stop; two Stores may be late | `CancelHarmless`, `ProvidesHeld`, refinement of `CommonSubset`, `BuadaEnds` |
| `transport` | 3 parties of which only one takes messages, two topics, channels of capacity 2 and 3 | refinement of `Delivery`, `DispatcherFree`, `AllArrive` |

Two rounds are enough for a value to be decided in one and contradicted in the
next, and for a Halt to arrive a round late; the proofs cover any number.
In `MCSMVBA` one party dissents and leads the second round (`OneDissent`,
`OddLeadsLater`): equal proposals cannot disagree, another split differs by which side
the leader is on, and a value decided in the first round is contradicted, if ever,
by the dissenter's in the second. No symmetry is used with a temporal property.
`spb`, `election`, `mvba` and `buada` check invariants and liveness in one run, with one party
that is silent or may stop: the invariants are also proved for any set of
parties. `Round` has a run for each: with three parties up a decision and a
No never occur together, so `round_safety` needs four, and liveness is
most demanding with three.

`vdd` has `F = 2`: with `F = 1` two Strong and the star make up the three shares that
decode, so no Weak is ever needed and `CallsEnd` would say little. With three
holders among five parties each of the others needs one Weak, which waits for
the stars of both proposals. `CallsEnd` presumes `Held`, that F+1 of the parties that
are up found each proposal in `Pr`, and `FewLack`, that at most F+1 did not, without
which it fails (finding 3); the code sends the Echo that makes a party
count as a holder before `Pr.Store` (`pb.go:82`, `buada_acs.go:42`) and reads `Pr` once
(`vdd.go:85`). `ProvidesHeld` of `Buada` says that this race is the only way to lose
either.
In `buada` three Echoes make a Final and three parties are certain to stay, so every
broadcast is short of Echoes as soon as one party cancels its receivers too
early, and a party that stops after its Echo leaves exactly F+1 holders; two late
Stores of one proposal make them too few. In `transport` a stalled party comes
before and one after the reader in the order of Broadcast, nobody has to read any topic, and one
sender fills its send channels to their capacity.

`vdd_stall` is a search among some behaviours of `VDD` only, as all of them are too
many with seven parties and four proposals: `InTurnSpec` of `MCVDD` lets a party go on
while it can, takes answers in the order of their senders, and has the Strong of one
party come late at three others. Each of its behaviours is one of `VDD`, and the
Go scheduler and the network allow it.

### Fairness

Weak fairness on the steps of goroutines of parties that are up: the Go scheduler
runs runnable goroutines, and TCP with blocking channels delivers what was sent.
It is dropped where the code gives no guarantee: goroutines of `Election` and the
`vote` goroutine have it only until their context is cancelled, nothing forces an
election in `SPB`, and in `Round` nothing forces another round to end. In `Election` a Finish is
forced only until somebody has left the first `select`, as spbCancel may then keep the
others from theirs (`SPB`); nothing forces a decision, and a Halt that is there
is read. `HaltSpreads` therefore rests on the leader reaching everybody without the
handlers of whoever decided, and on `doneFlagChannel` not holding up a handler on the way. `smvba`
has no fairness. Liveness runs have exactly 2F+1 parties up, the fewest the code is meant to run
with. The goroutines of `MVBA` and `VDD` have
no context; their fairness is unconditional. In `Buada` the goroutines of the
provable broadcasts have it until `cancel()`, `ReturnHelp` only where `VDD` shows that `CallHelp`
returns (`Held`), and that MVBA returns once 2F+1 parties are in it is
assumed: the findings below say where the code does not ensure it, so `BuadaEnds` is
relative to that. In `Transport` the goroutines of the transport are fair, but no
topic has to be read and no process has to end.

### Findings

1. **A round can hang** (`round_stall`). In the Vote handler the test for a mixed
   quorum is in the yes branch only (`message_handler.go:197`). With two yes and
   two no Votes, taken yes first, the quorum is completed by a no Vote, no flag is
   raised, and `MainProcess` waits for ever at all four parties. The invariant
   `RoundAlive` fails; `UniformVotesEnd` says precisely that rounds whose Votes
   agree do end.
2. **Recast can hang** (`mvba_stall`). `Recast` decodes with F+1 shards but waits for
   2F+1 (`apdb.go:117`), and a party recasts only if its shard is in `Sr` at the moment
   SMVBA returns (`mvba.go:78`), which a sent Stored does not ensure. One late Store and
   one late `Sr.Store` leave two shards and four waiting parties. The same comes without
   that race if one of the 2F+1 parties that sent Stored stops before it recasts.
   `Retrievable` holds all the while: the value could be decoded. `RecastEnds` says that these missing
   shards are the only obstacle.

3. **`CallHelp` can hang** (`vdd_stall`). With `F >= 2` a proposal may be decoded from
   F Strong and F+1 Weak, before its star. `CallHelp` then skips the late Strong
   (`vdd.go:147`), or has returned, so `starWait.Done` is never called, and `weakHelp` waits
   for every star of its list before it sends anything (`vdd.go:238`). Three callers that end that
   way leave a fourth, which lacks what each of them lacks, without a Weak: it has
   three Strong and its star, four shares of the five it needs. All seven parties
   are up and follow the code. The same cannot happen if at most F+1 parties lack
   a proposal: `CallsAliveAlways` proves it for every N. In an epoch at most F
   correct parties lack a chosen proposal, by `ProvidesHeld`, unless a `Pr.Store` was overtaken; `vdd_test.go` has
   20 of its 31 parties lack each.

In the no branch of the Vote handler `message_handler.go:219` passes `VYr`, not `VNr`, to
`tbls.Recover`, so the signature over Unlock is recovered from the wrong shares. The
error is dropped and nothing in the repository verifies the result: no state of the
models depends on it.

Another way to hang has no run of its own, as `BuadaEnds` names it: `Overtaken`. When
`CallHelp` reads `Pr` between a party's Echo (`pb.go:82`) and its `Pr.Store`
(`buada_acs.go:42`), the party is counted among the 2F+1 that hold the proposal but
answers no Strong; with another party stopped, F remain, and every party that
misses the proposal waits for ever. All of MVBA lies between the two, so this
takes a goroutine that does not run for several message delays.

## 4. Proofs

All proofs assume `PartyAssumption` (finitely many parties, `N = 3F+1`) and the
component's own assumption on its constants.

* `QuorumLemmas`: counts are natural numbers, quorums grow, are non-empty, and any
  two intersect (`QuorumsIntersect`).
* `SPBProofs`. The invariant ties the Echo of PB 2 to the receiver: an Echo exists
  exactly if its receiver is between Echo and `Lr.Store` or has stored. As `WaitOver`
  requires the receiver to have returned, the PreVote tells the Echo, and a
  Finish quorum and a no quorum would share a party. From it:
  `PreVoteMatchesEcho`, `FinishExcludesNoQuorum`, `NoFatal`, and the refinement of
  `LeaderLock`. `FinishExcludesNoQuorum` is not inductive alone: it speaks of
  PreVotes already made and not of receivers that have echoed and not stored.
  `RestsFinished`: every Value sent is in its channel or answered (`SenderInv`), and
  only a cancelled receiver is anywhere without having answered (`ReceiverInv`).
* `ElectionProofs`. A flag anywhere goes back to 2F+1 Finish; and a count: each
  handler raises its flag once, every flag raised is in the channel, waiting, or
  read. Gives `CoinAfterFinishQuorum` and `FlagChannelSuffices`.
  The same count gives `RestsElected`: a flag raised at a party whose election goroutine is
  idle has been read, so it has sent its share, and 2F+1 of these elect. A Halt comes from a
party that has the leader (`HaltInv`), so where all rest it has ended everybody.
* `SMVBAProofs`. A committed round (locks or yes Votes of a quorum) cannot have
  2F+1 no Votes; so every value carried out of it is its leader's, and, by
  the invariant `CarryInv` over all later rounds, so is every later value. Halts and
  returned values come from committed rounds. Gives `CommitCarries`, `Agreement`,
  and with `ValidInv` the refinement of `Consensus`, for any number of parties,
  values and rounds.

* `VDDProofs`. For each party and proposal, the shares put into the channel, the
  parties whose share is still owed, and the star still to come are together at
  most N (`CountInv`). A Call makes N-1 parties owe, taking an answer trades an owed
  share for a put one, and the star is put when `starWait` goes down. This needs that
  a helper has one answer per proposal in one place (`AnswerInv`). Gives
  `ChannelSuffices`, that `starWait.Done` is called at most once (`TypeOK`), and
  `ReturnedComplete`.

  The second part is the safety core of `CallsEnd`. For a proposal that is not
  finished the same count is exactly N (`NeedInv`), so no share is lost on the way,
  and each holder's is owed or was a Strong. At most 2F+1 parties can have put a
  share without the star, F with a Strong and the F+1 that lack the proposal, the
  caller among them, so the star comes first (`NoDecodeWithoutStar`, where `FewLack` is
  needed). Hence, where every goroutine of the parties that are up is blocked, all stars
  are there, no party that is up owes a share, and a caller has 2F+1 of them:
  nobody is still calling (`CallsAliveAlways`).

* `RoundProofs`. A No goes back to 2F+1 no Votes, a no Vote to 2F+1 no PreVotes,
  and these come from parties without the lock, for good, as `PreVote` closes the
  leader's broadcast. A decision goes back to a Finish, made of 2F+1 locks, or to
  2F+1 yes Votes. `DecideExcludesNo` is not inductive alone: it speaks of parties that have
  left, and `VoteInv` and `FlagInv` tie the Votes taken and the flags to the Votes
  sent. The same intersection gives `NoIsFinal` for every step.

  `RestsDecided` and `RoundAliveUniform`: PreVotes of all parties that are up are all no, a
  quorum, or one is yes, so each can vote; Votes of one kind are a quorum, and a handler
  that has one has raised a flag (`PlaceInv`).

  `RoundImplementsSMVBA` maps a round of message handlers to the first round of
  `SMVBA`: its Finish, PreVotes and Votes to the broadcasts, what the handlers have
  counted to nothing, a party that has left to its value or its next round. The
  invariants say that whatever a handler has counted was broadcast (`VoteInv`,
  `FlagInv`), that a flag "other" has seen both kinds (`OtherInv`), and that before it
  leaves a party has neither value nor Halt (`InsideInv`). It is about `AloneSpec`, as `OtherRoundReturns` is the
  other rounds' doing, which `SMVBA` has actions for. `Entry` names what
  `SMVBA` would have done until then: all parties have entered with one value each and
  the leader's is known.

* `BuadaProofs`. A Final has 2F+1 Echoes, an input of MVBA is made of Finals, and the
  result is an input. This gives `CancelHarmless`, and the refinement of
  `CommonSubset`. For `ProvidesHeld`: the echoers and the steady parties share more
  than F, and a party that is neither waiting nor overtaken has stored; those that
  lack the proposal are not among its 2F+1 echoers.

  Its second part is about `MVBA`, whose result `ReturnMVBA` presumes. A Stored comes from
  a holder, a lock is 2F+1 Stored, the leader enters SMVBA only when locked, and no
  result comes before that. So whoever comes to Recast does so after 2F+1 parties have answered the
  leader's Store (`AnsweredByQuorumAlways`), each within its call of MVBA: that `ReturnMVBA` waits for
  2F+1 callers asks no more than the dispersal does, whatever SMVBA waits for. Gives
  `Retrievable` for any N: a quorum without F parties has more than F.

  For `ReturnedWhole` the lemmas of the codec come first: `IntToBytes` has four bytes that
  read as the number (`BytesIs`), what precedes a suffix is a prefix again (`PrefixIs`),
  padding comes off as its last byte says (`UnpadIs`), and so does the suffix
  (`ResultValueIs`). `DecodedIs` puts them together for every value and validation, and
  `TakeRecastIs` says what the step then does, so that `WholeInv` is inductive. The theorems
  about `MVBA` are about its instance `D` and take its assumption as `CallAssumption`. Of it
  the codec needs that `N <= 256`, so that the padding's length is one byte, and that the
  validation's length fits in four. No bound is put on the value.

  `RestsEnded` follows the epoch through its stages: idle steady parties have all echoed each
  other's proposals, or somebody has cancelled and `CancelHarmless` gives the Finals;
  2F+1 Finals contain a set to call MVBA with (`QuorumPart`); after MVBA `ProvidesHeld`
  gives what `CallHelp` needs, and the 2F+1 that send a Dec are more than F+1 as
  `F > 0`. `RestsRecast` and `RecastAliveWithShards` do the same for a call of MVBA: each Store
  is in its channel or answered (`SentInv`), so the dispersal locks, all enter, and the
  parties that are up have 2F+1 shards to take unless one came without (`SharesInv`).

* `TransportProofs`. A message of a sender, topic and receiver is in one place: yet to be
  sent, in one of the three channels, or read; channels hold it once (they are
  injective sequences), the loop variable of a Broadcast says what is yet to be sent.
  From it, for any number of parties and topics and any capacities: `OnePlace`; the
  refinement of `Delivery` (`DeliveryImplemented`), where each lemma about an action gives the
  invariant and the abstract step together, as what a channel holds afterwards is
  needed for both; a topic
  channel of capacity N has room for what the dispatcher holds (`DispatcherFree`); a
  Broadcast never blocks while a sender has no more messages than a send channel
  holds (`SenderFreeAlways`), stalled receivers or not; and where nothing can move, every message
  is at every party that takes messages (`SettledArrivedAlways`), the safety core of
  `AllArrive`.

What a liveness property rests on is a fact about states: where no fair action of a
party can be taken, what the property promises has come about. The theorems named `Rests...`,
`CallsAliveAlways` and `SettledArrivedAlways` state it with the guards written out (`Idle`,
`SenderIdle`, `EpochIdle`, `MVBAIdle`; `Settled` in `TransportProofs`), for any number of parties.
So a protocol that does not get there still has something to do; that it is done in the
end is fairness, and TLC's. For the three findings the proofs also say how far they go, with 2F+1
parties up: `RoundAlive` fails only after a yes and a no Vote (`RoundAliveUniform`), `RecastAlive`
only if a party came to Recast without its shard (`RecastAliveWithShards`), `CallsAlive`
only if more than F+1 parties lack a proposal.

Only model-checked: liveness itself (out of TLAPS's reach, as is ENABLED), and what the
findings show. Every
invariant and every step property that a run checks is also proved, for any size.
Induction over data and RECURSIVE operators are not used.

## 5. Plan

Done, in this order: `Quorums`, `SPB` with `LeaderLock`, `Election`, `Round`,
`SMVBA` with `Consensus`, `MVBA`, `VDD`, `Buada` with `CommonSubset`, `Transport` with
`Delivery`, `Codec` within `MVBA`, and the proofs named above. Nothing of the plan is left.

## 6. Not modelled

Cryptography (signatures, coin, threshold encryption, Merkle trees beyond what
they guarantee): its results are taken as ideal. The Reed-Solomon library
(its wrapper's padding is in `Codec`). Protobuf encoding and
`Encapsulation`/`Decapsulation`: a message is its type, sender and what the handler looks
at. How connections are established (`MakeSendChannel` gives up with
`log.Fatalln` if a peer is not listening yet, so all parties are taken to be up
when the protocol starts). Configuration, commands but for the end of `main`,
logging and benchmarks. Parties that deviate from the code; restarts, as
nothing is persisted and a party that ends takes the others down.
