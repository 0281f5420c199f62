# xnetip in TLA+

xnetip is a Go library of IP network values whose masks may be non-contiguous:
a mask may fix any set of bits, not only a leading run. These modules model its
algorithms, TLC checks them on small words, and TLAPS proves the central ones
for words of every width. Line references are to the Go files at the root of
the repository.

    tlc -workers 2 -config MCAggregate.cfg MCAggregate     # a run
    tlapm AggregateProofs.tla                              # the proofs of a module

## The system

The library is sequential: no goroutine, lock, file or clock. What makes it
hard is elsewhere:

- masks of arbitrary shape, for which intuitions about prefixes fail (sets are
  not laminar, numeric mask order is not inclusion);
- algorithms that rewrite one slice in place while reading it;
- lazy sequences (`iter.Seq`): the library's loop and the consumer's body take
  turns, and the consumer may break after any element;
- a cursor with two ends, moved by the caller in any order;
- arithmetic whose carries cross between two 64-bit halves;
- two families in one 128-bit type, told apart by a flag and a stored form that
  no call checks again, and wrappers that trust their class the same way;
- two parsers of one language, which must accept the same texts;
- boundaries: the empty mask, the host route, the whole address space, whose
  size does not fit a word and whose last address has no successor;
- results built "raw", without the masking AND, because operands are trusted
  to be normalized by every call that came before.

| Component | State | Operations | What makes it correct | Module |
|---|---|---|---|---|
| Words (`uint128.go`, `addr4.go`, `addr6.go`) | none | bit operations, shifts, order, wrapping sums, over two 64-bit halves | agree with integers modulo 2^W; two halves are one word | `Words`, `WordsReference`, `WordCalls`, `Uint128`, `Uint128Calls`, `HalvesProofs` |
| Network algebra (`net4.go`, `net6.go`) | a value: address and mask | intersection, merge, adjacency, supernets, order, CIDR constructors | each is exactly the set operation it stands for; values stay normalized | `Networks`, `NetworkCalls` |
| Dual-family values (`net.go`) | a value in the 128-bit space and a family flag | every operation, behind a family check; views of either family | an IPv4 value stays in its stored form; results are the family's own | `DualNetworks`, `DualCalls` |
| Contiguous values (`contiguous.go`) | a value trusted to be a CIDR block | conversion in and out, the kernels that wrap unchecked | the class is kept over any sequence of calls | `DualCalls`, `SubnetWalk`, `DifferenceWalk` |
| Bi-contiguous values (`bicontiguous.go`, the half-wise kernels of `net6.go`) | a value; two host counters | membership, kernels on halves, `Addrs`, `AddrsBackward` | kernels agree with those over words; the class is kept; the order of the general walk | `Halves`, `BiContiguousCalls`, `HalfWalk`, `HalvesProofs` |
| Subnet and address sequences (`net4.go`, `net6.go`, `contiguous.go`) | loop locals of one sequence | `Subnets`, `SubnetsWithPrefix`, `Addrs`, each backward too | the ordered list of what lies inside, each once, and an end | `SubnetWalk` |
| Differences (`net4.go`, `net6.go`, `contiguous.go`, `bicontiguous.go`) | loop locals of one sequence | `Difference`, `DifferenceBackward`, the ladder between CIDR blocks | disjoint, complete, fewest parts, in the operands' class | `DifferenceWalk` |
| Address iterator (`addr_iterator.go`) | two ends, a shared count, a flag | `Next`, `NextBack`, `Nth`, `NthBack`, `SizeHint` | a double-ended queue of the addresses | `AddrCursor` |
| General aggregation (`aggregate.go:8`) | slice, stack top, candidate | `Aggregate4/6` | the union is kept, the result irreducible | `Aggregate` |
| Contiguous aggregation (`aggregate.go:80`) | slice, stack top, candidate | `AggregateContiguous` | the smallest cover | `AggregateContiguous` |
| Bi-contiguous aggregation (`aggregate.go:198`) | slice, level, block | `AggregateBiContiguous6` | the union is kept, the result closed, a second call changes nothing | `AggregateBiContiguous` |
| Intervals (`range.go`) | loop locals of one sequence | `RangeToNetworks4/6` | the maximal blocks, in order | `RangeWalk` |
| Binary split (`binary_split.go`) | slice, window, per-bit counters | `BinarySplit4/6` | the first greatest window supernet; a stable gathering | `BinarySplit` |
| Parsers (`parser_ascii.go`, `errors.go`, the text halves of the value files) | a position in the text | the byte parsers, the string parsers, `UnmarshalText`, `ParseNext` | both kinds accept the same texts with the same values; a stream reader takes the longest network | `StrictParser`, `ASCIIParser`, `TextStream` |
| Formatting (`compact.go`, `AppendTo` of the value files) | none | full and compact text | reads back | `Texts` |
| MAC addresses (`macaddr.go`, `macfmt.go`) | a value | three text forms, octets, integers, EUI-64, `fmt` verbs | reads back; the identifier leads back to its address only | `MacAddr` |
| Package documentation (`doc.go`) | | | not modelled: documentation | |
| `tools/parity` | | comparison with another implementation | not modelled: test tooling | |

Components interact by calls only: aggregation, differences, splitting and the
sequences all call the network algebra, which calls the word operations; the
typed wrappers (`Contiguous`, `BiContiguous`) call the same kernels on operands
their constructors have checked. A dual-family value tests the families, then
calls the 128-bit kernel on the stored forms, or the IPv4 one on its IPv4 view.

## The modules

### Values and calls

`Words` represents a word as the SET of the positions of its one bits, so that
`&`, `|`, `^`, `&^` are set operations and a proof about every width `W` needs no
arithmetic on powers of two. `WordsReference` holds the assumption that these
operations agree with unsigned integers modulo 2^W; `MCAggregate`,
`MCAggregateContiguous`, `MCAggregateBiContiguous`, `MCAddrCursor` and
`MCBinarySplit` extend it, so TLC evaluates it for W = 2, 3 and 4, the widths of
every run over words in one piece but the texts. `Networks` is the algebra; a
Go result `(Network, bool)` is a set of at most one network. `Network` is the set
of normalized pairs (`addr \subseteq mask`); `Addrs(n)` is the set of addresses
named, and `DifferenceParts` the parts of a difference as a set.

`NetworkCalls` holds one network and replaces it by the result of one call after
another: one action per call. It carries the claim that raw construction is
safe over any sequence of calls.

`Uint128` has the two-halves arithmetic with its explicit carries, borrows and
shifts; `Uint128Calls` is a program that applies one operation after another to
a value, and `WordCalls` the same program over a word in one piece, which it
implements. `BiContiguousCalls` holds a bi-contiguous network made of such halves;
each action computes a kernel half by half as `net6.go` does and wraps its result
unchecked where the wrapper does. `MCHalves` runs either program.

`DualNetworks` is the type of both families: a record of a network in the IPv6
space and a flag, an IPv4 network being its image in the mapped range (a constant
`Mapped`) under a full high mask. `DualCalls` is a program that holds one such
value, plain or wrapped as `Contiguous`, and replaces it by the result of one call
after another; `Ask` calls the questions, whose answers change nothing.

### Algorithms

The algorithms are state machines whose variables are the locals of the Go
function and whose actions are its steps between two reads or writes that could
matter: an inner search that only reads the slice is one step with the write
that ends it. `input`, `slice`, `want` and, in `AggregateBiContiguous`, `calls` are
auxiliary: they keep what the caller passed, was promised or did before.

- `Aggregate`: `nets[0..w]` is the stack of survivors, `nets[r..]` the candidates.
  `Push`, `Absorb`, `Cascade`, `Settle` are the outcomes of the searches at
  `aggregate.go:34`, `:47`, `:58`. `Remove` is the `copy` at `:67`.
- `AggregateContiguous`: `Take`, `Cascade`, `Place` are `:105`, `:107`, `:120`.
- `AggregateBiContiguous`: `LowRows` and `HighBuddies` are one level of the sweep
  (`:237`), `ProbeChunk` one chunk of the containment pass (`:486`), `Return` and
  `Repeat` the test at `:220`. Binary searches are modelled as bisections, over
  the slice as it stands, so that a slice out of order misleads them as it would
  the code. A sort may leave any arrangement in order, as `slices.SortFunc` may. `nets`
  is the live prefix only: the code never reads past it again.
  The chunk size is a constant (64 in the code, 2 in the run).
- `DifferenceWalk`, `SubnetWalk`, `RangeWalk`, `HalfWalk`: a step yields one element
  and the consumer answers; `broken` records a break. `want` is what the method
  promises. `MCWalks` starts one of the last three in each behaviour.
- `AddrCursor`: one action per method. `IndexW` is the width of a skip and of
  `SizeHint` (64 in the code).
- `BinarySplit`: `ScanPair`, `SlideWindow`, `Select` follow the two functions.
  `Gather` is the recursive partition with its three reversals.

### Texts

A text is a sequence of one-character strings; the digits, the number base and
the widths of octets and groups are constants. `Texts` holds the grammar of
`netip.ParseAddr` (external), the numbers and the writers. `StrictParser` is the
string parsers with their sentinel errors, `ASCIIParser` the byte parsers that read
octets and groups as they go and hand back what follows, `MacAddr` the MAC address
with its parser, forms and `fmt` output. `TextStream` is a writer and the readers:
it sends bytes one by one, or the text of a network (full or compact), of a MAC
address, or of an address as another program spells it, perhaps with one more byte,
or with one byte lost, added or changed on the way; every entry point is asked about every text that arrives.

### Abstractions

Abstract specifications, each implemented through INSTANCE by what it abstracts:

- `Coalesce`: a bag in which two members are replaced by the one network of the
  class that names exactly their addresses, until no pair can be. It has no order, no array
  and no search. `Aggregate` implements it for all networks,
  `AggregateContiguous` for CIDR blocks.
- `YieldSequence`: a fixed list yielded in order, returned from at its
  end and no sooner unless the consumer breaks. The four walks implement it.
- `AddrDeque`: a queue taken from both ends. `AddrCursor` implements it.
- `WordCalls`: operations on a word in one piece. `Uint128Calls` implements it.

## The runs

| Run | Shows | Bounds |
|---|---|---|
| `network_calls` | `TypeOK`, `IntersectionExact`, `MergeExact`, `CoversLeast`, `ContainsExact` | W = 3: all 27 networks over 8 masks, 4 of them contiguous; single-bit, scattered, empty and full masks; prefix lengths -1 to 4 |
| `dual_calls` | `TypeOK`, `ResultsOfFamily`, `AnswersOfFamily`, `ViewsReadBack` | an IPv4 family of 2 bits in an IPv6 family of 4, mapped range 01xx, so that both values of a pinned bit occur; slices of up to 2 with a probe of either family, first or last |
| `halves` | `TypeOK`, `KernelsAgree`, `Implements` | two 2-bit halves of two bytes each: every value and operand, shifts by 0 to 4, so that every carry, borrow and crossing of the middle occurs; every pair of networks, and every network given to a conversion |
| `aggregate` | `TypeOK`, `UnionPreserved`, `StackBelowCandidates`, `StackClosed`, `ResultIrreducible`, `CandidatesUntouched`, `Implements` | W = 3, every bag of up to 4 of the 27 networks, and every network cut in four (three times over, each cut of any piece at any bit it leaves free) with any fifth network: the five are what two cascades below the grown survivor with a candidate still unread take |
| `aggregate_contiguous` | `OnlyTheTopMatters`, `ResultMinimal`, `Implements` | W = 3, every bag of up to 4 of the 15 blocks: a cascade of three merges up to the whole space |
| `bicontiguous_closure` | `UnionPreserved`, `SearchedInOrder`, `ResultClosed`, `Terminates` | halves of 2 bits; any of 7 high halves with one of three low halves that tile the low word; bags of 1 or 4; chunks of 2: second rounds that merge again, rows that climb two levels, masks with more than one chunk; the call repeated on its result |
| `bicontiguous_pairs` | violates `NoClassPreservingPair` | as above with bags of 3 |
| `difference_walk` | `PartsDisjoint`, `DifferenceComplete`, `PartsStayInClass`, `FewestParts`, `Implements` | W = 3, halves of 1 and 2 bits: every pair of networks, four methods, a break after any part |
| `addr_cursor` | `CountExact`, `Implements` | W = 4, skips of 2 bits: networks of 1 to 16 addresses, so counts below, at and above what a skip or a hint can hold |
| `walks` | `Implements` | W = 4, halves of 2 bits: subnets and addresses of every receiver, every mask and prefix length, out of range ones included; every pair of interval ends; every bi-contiguous network; a break after any element |
| `binary_split` | `CountersExact`, `FirstGreatestWins`, `GatheredInOrder` | W = 2: every sorted slice of up to 5 networks; with 5, a window holds two pairs and slides twice |
| `text_stream` | `FastAgreesWithStrict`, `ReadsBack`, `NextIsLongest` | numbers in base three, octets of 4 bits and up to 3 digits, groups of three digits of 2 bits; IPv4 of three octets, which fill two groups (W = 12), IPv6 of four groups (W = 24), mapped range ::aaa:0:0; any 5 address bytes and 3 suffix bytes out of 9; the texts of IPv4 networks and of IPv6 networks with every pattern of zero groups, under masks of every class; up to four groups with a gap anywhere or none and an embedded IPv4 address or none; `fmt` precisions 0 to 18 and none, widths 0, 14, 17, 18, 20 |

The order of a slice does not matter to the aggregations, which sort first; the
runs give each bag once, in descending order, so that the sort has the most to
do. `Implements` in the walks says that what is yielded is the promised list,
element by element; in the aggregations that each write is a coalescing step or
changes nothing that counts, and that the end is reached in a closed state.

`SearchedInOrder` says that every slice a bisection searches is sorted by the key
it searches for; `ResultClosed` also that a second call returns what it was given.
`FewestParts` and `ResultMinimal` compare with every cover, not with another
algorithm. In `text_stream` the sizes are small but the cases are those of the
real ones: an octet of three digits can exceed its width or have a leading zero,
a group can have a digit too many, `::` can stand for one group or for all and must
stand for one at least, an IPv4 tail takes two groups and fits behind the groups
before it or does not, and a suffix is a length, a mask or neither.

Deadlock is not checked where a function returns or the bound on a text is
reached: the last state has no successor. `NetworkCalls`, `DualCalls`, `AddrCursor`
and the two programs of `MCHalves` never stop, and there it is checked.

### Fairness

`Aggregate`, `AggregateContiguous` and the walks assume WF of the next step: a
sequential function runs on as long as it can, and it waits for nothing (for a
sequence: the consumer's body returns, with or without a break). In
`AggregateBiContiguous` the assumption covers the steps of a running call only;
calling again is up to the caller. `NetworkCalls`, `DualCalls`, `AddrCursor`,
`MCHalves` and `TextStream` assume nothing: a caller or a writer may stop.

### A divergence between comment and code

`aggregate.go:203` says of the result of `AggregateBiContiguous6`: "no
class-preserving pair remains". Two networks whose union is one bi-contiguous
network can remain, namely buddies in the high half with the same low half whose
rows differ by a third network: high buddies merge only as whole rows with equal
low sets. The run `bicontiguous_pairs` exhibits it. The result is closed under
the rewrites the sentence before it names, which `ResultClosed` states, so the
finding concerns the wording.

In the other direction, `net4.go:394` warns that the addresses of a
non-contiguous network may not come in ascending order; in the model they always
do (`WalksYieldTheList` in `CallProofs`).

## The proofs

Everything below holds for every width W (in `SplitProofs` and
`AggregateBiContiguousProofs`, split into halves of any widths; in `HalvesProofs`, for
every width of a half and of a byte that divides it; in `DualProofs`, for every two
widths and every mapped range) and, for the aggregations, for every finite slice of normalized networks or of blocks.
The only assumptions are those the modules state about their constants.

`NetworkTheorems` (about the algebra): a network is determined by its addresses
(`AddrsInjective`), `IntersectionIsExact`, and the two halves of the correctness
of `Merge`: it returns a network naming exactly the union (`MergeIsUnion`), and
it returns one whenever the union is a single network (`MergeIsComplete`). The
argument for the second: if the masks are incomparable, flipping a bit only one
of them fixes leads out of the union; so one contains the other, or they are
equal and differ in one bit.

`CallProofs`, its first part (about `NetworkCalls`): `CallsStayNormalized` is the type
invariant, the claim that raw construction is safe. It is inductive by itself,
with one lemma per kernel that a normalized operand gives a normalized result.
`IntersectionAlwaysExact`, `MergeAlwaysExact`, `CoversAlwaysLeast` and
`ContainsAlwaysExact` follow from it and the theorems about the algebra: what is
recorded of a call is the kernel applied to typed operands (`WhichCall`).
For the covers: a network that covers another keeps only bits of its mask, so
dropping one bit, or every bit on which the slice disagrees, drops no more than
any cover must.

`NetworkTheorems`, its third part (about words as integers): the bits of a word at
the positions of a set S, read as a number (`Value`), order the words over S, hit
every number below 2^|S| once (`ValueOnto`), and step by one with the carry and
the borrow through S (`ValueUp`, `ValueDown`). With S all positions this is
`WordsAreModularIntegers`: what `WordsReference` has TLC evaluate at the widths of
the runs holds at every width. `SumTransfers` carries a sum of whole words over to
S when the carry runs across the positions between. The induction over positions
is by least counterexample (`Upwards`).

`CallProofs`, its second part (about `AddrCursor`, for every network and every two
widths): `CursorCounts` and `CursorIsQueue`, the whole of `CountExact` and of the
refinement of `AddrDeque`. An address's position is the value of its host bits,
and addresses sort by position (`AddrsArePositions`). Each movement of an end is an
addition to its position: by one (`StepsByOne`), by the index as it is where the
host bits are at the bottom (`PlainSkips`), and by the index spread over them
where they are not (`ScatteredSkips`, from `DepositValue` and `SumTransfers`). The
inductive invariant `CursorInv` is one equation: the position of the back is that
of the front plus the count. What is left is then the row of addresses at those
positions (`LeftIsRow`), of which every call cuts a piece (`CursorSteps`).
`OpensWhole`: a new cursor has every address of its network before it.

`DualProofs` (about `DualCalls`):

- `StorageInvariant`: a stored IPv4 network pins every bit above the family's
  width to the mapped range. Each operation computed on stored forms
  (`IntersectionStored`, `MergeStored`, `LadderStored`, ...) keeps the pinned bits,
  or goes through the IPv4 view and back (`FromFamily4`); wrapped values stay blocks
  because a block of the family is stored as a block (`StoredIsContiguous`).
- `FamilyResults`, `FamilyAnswers`: the map from a network of the family to its
  stored form commutes with each kernel (`IntersectionOfImages`, `MergeOfImages`,
  `SupernetForOfImages`, `RungOfImage`, ...). The pinned bits lie above all others and
  agree, so they add nothing to a difference of addresses, to an order or to a
  leading run (`RunBelow`); the lowest bit of a mask is never pinned unless the mask
  is empty (`ClearsBelow`), which is where the code leaves the stored form. That the
  record of the last call is the method applied to the receiver and the arguments
  (`CallsAreRecorded`) is the invariant the two rest on; the wrapper's ladder gives
  the parts of the plain difference (`LadderIsDifference`).
- `ViewsAreFaithful`: from the storage invariant, one lemma per group of views.

`AggregateProofs` (about `Aggregate`):

- `TypeCorrect`, `StackStaysBelow`: the index invariant `0 <= w < r <= Len`, with
  the grown survivor on the stack.
- `UnionIsPreserved`: `Push` copies a candidate that stays live elsewhere,
  `Absorb` and `Cascade` replace two live entries by their merge, and `Remove`
  drops exactly the entry merged away.
- `StackStaysClosed`: outside a rescan no two survivors merge, and during one
  only pairs with the grown survivor may. Neither half is inductive alone:
  `Settle` needs the second to give the first, and `Absorb` of a candidate that
  changes nothing needs the first.
- `ResultIsIrreducible`: from `StackClosed` and `MergeIsComplete`.
- `CandidatesStayUntouched`: from the index invariant.
- `AggregatesByUniting`: the safety half of `Implements`. The bag of the live
  entries is the abstract family. A step either renames entries, which leaves the
  count of every network alone (`CountReindexed`): the sort, `Push`, the gap that
  `Remove` closes; or it replaces two live entries by their merge (`Replaced`),
  which is the network the abstract step unites them to because only one network
  can name the union (`UnionIsHull`). At the end the family is closed: a pair of
  copies in the bag is a pair of entries, and none of those merge (`ClosedFamily`).

`NetworkTheorems`, its second half (about the order and CIDR blocks): the orders of words and of
networks are total, blocks nest or lie apart (`BlocksNest`), a block is an
interval of the order (`BlockIsInterval`), and what lies apart from the later of
two blocks lies apart from the earlier (`ApartFromLater`). `MaximalBlocks`: a set
of blocks in which none contains another and no two merge is the set of maximal
blocks of its union, hence the smallest cover. The argument: if a block inside the
union lay in no member, take a member of the longest mask inside the block; its
sibling would have to be covered by a member, and that is the sibling itself,
which merges with it, or a block that overlaps it.

`AggregateContiguousProofs` (about `AggregateContiguous`): `PassInvariant` is the
inductive invariant `CInv`: `OnlyTheTopMatters`, and what it says nothing of: where
the indices stand, that the candidates still to be read sort after the blocks
kept, which keeps them off those below the last, and that the addresses are the
input's. `LastBlockSuffices` and `ResultIsMinimal` follow, the
first by `ApartFromLater` and `UnmergedWithLater`, the second by `MaximalBlocks`.
`AggregatesByUniting` is the safety half of the refinement, argued as for
`Aggregate` with the candidate as an entry of its own; that the end is closed for
blocks needs that the one-bit merge of blocks misses no union that is a block
(`LowestMergeOfBlocks`).

`SplitProofs`, its first part (about `DifferenceWalk`, all four methods):

- The pending bits index the parts: an address lies in the part of bit b exactly
  when it lies in the receiver, agrees with the argument on the pending bits
  above b and differs from it at b (`InPart`). So parts of different bits are
  apart, every part is in the difference, and each address of the difference is
  in the part of the highest pending bit where it differs.
- A contiguous mask is the mask of its prefix length (`ContiguousMask`), so one
  numeric compare decides nesting (`Nested`), overlapping blocks are nested, and
  each rung of the ladder is the part of one pending bit (`Rungs`).
- `YieldsFollowThePhase` is the inductive invariant `DInv`: the list yielded is
  the parts of a set of pending bits, each once, and the locals determine the
  set. It needs the order of the bits peeled: only because those behind lie
  above those ahead is the grown mask the mask of the next part (and below, when
  peeling from the bottom).
- `PartsStayDisjoint`, `DifferenceIsComplete` and `PartsStayBlocks` follow, the
  first and the last in every state, broken off or not.
- `PartsAreFewest`: an address of the overlap with one pending bit turned is in the
  difference (`WitnessLeft`). A network inside the difference that named two such
  addresses, for different bits, would leave both bits free and so name the overlap
  itself; a cover needs a network for each pending bit, and that is how many parts
  there are.
- `PartsComeInOrder`, the safety half of the refinement of `YieldSequence`: the
  position of a part in the promised list is the number of pending bits up to its
  own in the order peeled (`OInv`), so the next bit the code peels is the next
  position (`YieldNext`).

`CallProofs`, its last part (about `SubnetWalk`, both directions of all three methods):
`WalksYieldTheList` is the safety half of the refinement of `YieldSequence`.
Adding one with the fixed bits set carries across them, so that the result is the
successor in the order of the words over the free bits (`UpIsNext`; `DownIsNext`
for the borrow). The position in the promised list is the number of elements up
to the cursor, so the next element is the one at the next position (`YieldNext`),
and the last one is where the code's end test holds.

`HalvesProofs` (about `Uint128Calls` and `BiContiguousCalls`, for halves of every
width). A word of 2H bits is the low half and, H positions up, the high half
(`Whole`); the theorems on networks are used at both widths.

- `HalvesAreWords` is the refinement of `WordCalls`. The operations that act bit by
  bit commute with `Whole` (`BitwiseIs`), and so do the shifts, whose three ranges of
  counts are told apart (`ShlIsWhole`, `ShrIsWhole`). For sums the integer of the
  whole is the low integer plus 2^H times the high one (`WholeNumber`), the sum of
  two halves is its own remainder and carry (`Add64Is`, `Sub64Is`), so the two
  remainders encode the sum modulo 2^(2H) (`AddIsWhole`, `SubIsWhole`). Counts are
  cardinalities of intervals cut at the middle (`LeadingZerosIsWhole`,
  `TrailingZerosIsWhole`, `CountOfWhole`); the order is decided by the high halves,
  and by the low ones where they are equal (`LtIsWhole`); the big-endian form is the
  bytes of the whole word, the highest first, and reads back (`BytesAreTheWord`).
  This is where H, a number of whole bytes, is needed.
- `HalvesAgree`: the kernels over halves are those of the algebra
  (`ContainsOnWhole`, `IntersectionOnWhole`, `MergeOnWhole`, `SupernetOnWhole`), and
  each of the two peels, which take the highest or the lowest bit that is left,
  makes exactly the parts `DifferenceParts` names, network by network (`PeelIs` and
  `PeelBackwardIs`, by least counterexample on the number of bits left;
  `DifferenceOnWhole`); that those cover the difference is the theorem on networks. The check for the
  class accepts a mask when every one has a one above it or tops a half, which
  is one run of leading ones in each half (`ClassIs`); so the numeric comparison of
  halves decides inclusion within the class (`ContainsIsExact`), and the widening is
  the least one (`WideningIs`).
- `WrappedStayInClass`: a kernel given networks of the class returns networks of
  the class, asked or not (`ClassIsKept`): the masks it makes are the union of two
  such masks, one without its lowest bit, or one with the bits of another from some
  bit upwards (`StepsStay`).
- `ClassInv` is the inductive invariant of both: the class, what the answers agree
  with, and that between calls the receiver is the network held.

`SplitProofs`, its second part (about `BinarySplit`):

- `SplitCountsExactly`: a pair that enters the window adds one to the count of
  every bit it kills, the pair that leaves takes one off (`PairEnters`,
  `PairLeaves`), so the counters are the window's and its word holds the bits
  with a positive count.
- `SplitTakesFirstGreatest`: a bit no pair of neighbours kills is alike in the
  whole window (`FixedByPairs`), so what is left of the last mask is the mask of
  the window's common supernet (`WindowMask`, `SupernetOf`); the candidate kept is
  the first of the greatest so far because the order of words is total.
- `SplitGathersInOrder`: `Gather`'s recursion has one solution on the sequences of
  each length, hence one on all (`GatherUnfolds`); rotating by three reversals
  swaps two parts (`RotateSwaps`); and by least counterexample on the length, an
  ascending sequence becomes the contained entries and then the others, both
  ascending (`GatherIsStable`). The candidate contains its own window, so at least
  half of the entries.
- The inductive invariant is `BInv`: the three above, and what each phase has
  counted and kept so far.

`AggregateBiContiguousProofs` (about `AggregateBiContiguous`, for halves of every two
widths and every bag of the class): `CoverIsKept`, the whole of `UnionPreserved`,
`BisectionsAreSound`, the whole of `SearchedInOrder`, and `ResultIsClosed`, the whole of
`ResultClosed`.

- The functions of the model that ask themselves about something smaller (`SearchFirst`,
  `AddressAt`, `Place`, `CanonicalRow`, `AggregateLowRows`, `MergeHighBuddies`, `Runs`)
  have their recursion equations by one lemma of `NetworkTheorems` (`RecursionExists`:
  approximations up to each size agree; `BisectionExists` for the searches), and what
  each returns follows by least counterexample on the size (`InductOnSize`,
  `InductOnBounds`).
- A bisection ends where a prefix of the slice ends, if that prefix holds what the
  search passes by (`SearchIsExact`); in a slice ascending by high mask the two bounds
  are therefore the ends of a level (`LevelIsParted`).
- A row and its reduction name the same addresses (`LowRowsAre`). A row whose upper
  buddy equals it, with the high mask one bit shorter, names what both rows did
  (`BuddiesUnite`), and is still normalized because its bit is clear (`HighBuddiesAre`).
- A candidate dropped is contained in a survivor: the run found for an ancestor mask
  holds networks of that mask only (`RunsAre`), so the address found is that of a
  network around the candidate (`ContainedIsCovered`).
- `UInv` is the inductive invariant. The addresses alone are not inductive: the block
  merged at a level must be the whole of the level, no more, or `HighMask(level - 1)`
  would be given to networks of another mask; so the high masks ascend throughout
  a sweep, which the sort after a merge has to restore (`HighBuddiesKeep`: what moved
  a level down and what was there already lie side by side), and the masks ascend
  throughout the probe.
- `SInv` is the inductive invariant of the order, and the order alone is not inductive
  either. That no candidate repeats after the sort by mask, and that of two networks
  with one high mask neither contains the other (the probe looks at other high masks
  only), both come from the sweep: the levels already swept hold no containment among
  themselves. Within a row, a stack whose neighbours do not merge has no containment
  and stays ascending, because a network that does not merge with the top lies wholly
  above it (`RowGap`, `CanonicalRowAscends`); rows differ in the high address
  (`RowApart`, `LowRowsTidy`); merged buddy rows hold what one of them held
  (`HighBuddiesSeparate`) and move to a level not yet swept, into which they are sorted
  (`HighBuddiesNeat`). A sort moves no position to two places (`RearrangedApart`).
- In the probe, a survivor around a candidate is found: its mask is an ancestor's,
  the run found for a mask is the whole of its survivors, for each search starts where
  lesser masks end (`RunsComplete`), and the bisection of the run by address misses
  none, because under one mask the survivors ascend by address (`AddressAtIs`,
  `RunIsSearched`, `ContainedIsFound`). So what is left of a chunk
  joins the survivors without containment (`ProbeFrees`).
- `RInv` is the inductive invariant of the result; `SInv` says of a finished call only
  that the addresses are kept. It adds what a round has achieved so far: no two buddy
  rows are equal at the levels already swept (`SweptTo`), and still none when the probe
  has dropped nothing. A merge leaves no equal buddies at its level: a row merged goes a
  level up, and a row passed by has its buddy, if any, right behind it
  (`HighBuddiesUnmatch`). The levels below are rewritten without touching
  those above (`LowRowsUnmatched`, `HighBuddiesUnmatched`). With no containment left,
  nothing merges by its lowest mask bit either (`ApartIsLoose`): buddies share their row,
  which the sweep has excluded, or have empty low masks; then each contains its whole
  row, so the two rows are these two alone, and equal (`BuddiesOf`, `HostRow`,
  `NoHostBuddies`).
- The second call is part of the same invariant (`Rearranges`): what the first returned
  is closed, and the second has the same networks before it, in some order, none of
  which merge. So no row shrinks (`LowRowsStay`), no buddy row merges, nothing is dropped
  (`NoneDropped`), and sequences of the same networks in (mask, address) order are equal
  (`SameOrder`).

Only model-checked: termination and every other liveness property, and everything
about `RangeWalk`, `HalfWalk` and the texts. That the rounds of `AggregateBiContiguous`
come to an end is among it: `ResultIsClosed` says what is returned, `Terminates` that
something is. Liveness is out of the prover's reach. What a
recursive function over data computes (the numbers and loops of the parsers) needs an
induction that the provers cannot instantiate; each takes a proof by least
counterexample of its own, as the ones above have, and those are not written.

## Not modelled

- Of `macaddr.go`: the fixed maps from multicast groups and to link-local
  addresses, and the group bit. They are constants and masks with nothing
  between them that could go wrong over several steps.
- The wording of errors, `doc.go`, `tools/parity`.
- Conversions to and from `netip` types other than the family they select. The
  grammar and the text of a `netip.Addr` are modelled from how they are used.
- The name of a zone: only whether an address has one.

Worth adding to the proofs: the two counters of `HalfWalk`, over `WholeNumber`.
