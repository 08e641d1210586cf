# Verification of bintail

bintail tailors an executable that was built with function multiverse: it reads
the descriptors the compiler left in the `__multiverse_*` sections (variables,
functions, their variants, call sites), sets variables, *applies* variables
(removes their variance by patching call sites and function entries to the one
variant that fits, and optionally filling the unused bodies with `0xcc`), and
writes the executable again without the descriptors that are no longer needed.

This directory holds TLA+ modules that model it, TLC configurations, and proofs
for TLAPS. Paths below are relative to the repository, mostly `src/*.cc`.

## The system

| part | source | state | operations |
|---|---|---|---|
| variability engine | `mvelem.cc`, `mvelem.h`, `bintail.cc` | value and frozen flag of each variable; frozen flag and patch points of each function; probed symbol sizes; the bytes of `.text` and `.data` | `Bintail::Bintail`, `change`, `apply`, `apply_all` |
| command | `main.cc` | options, position in `main` | `-s`, `-a`, `-A`, `-g`, display options |
| output layout | `mvscn.cc` (`InfoArea`, `MV*Section::generate`, `BssSection`), `bintail.cc` (`write`, `update_relocs_sym`) | section headers and data, `relocs` of each section, segment header, start/stop pointers in `.data`, relocation table, `DT_RELACOUNT` | `init_write`, `write` |
| section filter | `bintail.cc` (`init_write`), `mvscn.cc` (`is_needed`) | `removed_scns`, `scn_out`, `sh_link`, `e_shnum`, `e_shstrndx` | `init_write`, `write` |
| patch encodings | `mvelem.cc` | instruction bytes | `MVmvfn` decoder, `decode_callsite`, `patchpoint_apply` |
| life cycle | `main.cc`, `bintail.cc` | file descriptors, `Elf` handles, the output file, the exit status | option loop, constructor, `init_write`, `write`, destructor |
| ELF reader/writer | `elf.cc`, `elf.h` | sections, ELF header | `ElfExe::write` (tests only) |
| display | `bintail.cc`, `mvelem.cc` | none | `print*` |

Interaction: `main` calls the library in a fixed order - `init_write`, all
`change`s, all `apply`s, `apply_all`, `write`. The engine patches the section
buffers that `init_write` handed to the output. `write` reads the flags the
engine left on the descriptors. There is one thread; nothing is persisted
before the final `elf_update`.

What is hard here is not concurrency but *order and overlap*: the functions of
a variable are applied in the order of their heap addresses (a `std::set` of
pointers); a function is applied once per variable and per `-a`/`-A`, with
different sets of frozen variables; a guard fill of one function meets the patch
points of another, inside bodies that are dead or still in use; sizes are
probed when the values are those of the input and used after they changed; and
`write` has to make addresses, offsets, pointers, relocations and headers
agree for every set of descriptors that survives. The list of hazards, with the
line where each one bites, is in `PROJECT.json`.

What makes each part correct:

* engine and command - a function is bound exactly when its variables are
  committed, to the variant the final values select, for ever; every call site
  and the entry reach it; guards hit all dead code and only dead code; what can
  still vary stays tunable; every run ends.
* output layout - reading the output back finds the surviving descriptors,
  relocations are those of the pointers, the loader maps what the headers say,
  nothing in the file overlaps.
* section filter - links and indices name the sections they named before,
  whatever `write` does to headers after `init_write`.
* patch encodings - running the patch does what calling the variant does, and
  nothing behind the patch point changes.
* life cycle - status 0 means a complete output, or one that lacks only what a
  refusal the code does not look at kept out; what was opened is ended once.

## Modules

```
Session           the process: options, constructor, output, destructor   Session_proofs
   the step Tailored stands for
Tailor            one run of main            Tailor_proofs   its theorems
   | EXTENDS      \ implements (refinement mapping C)
Multiverse         Commitment                abstract: configure, commit, bind once
   change / apply / apply_all on descriptors and bytes; that a patched byte
   "reaches" a variant is the subject of
PatchCodec        instructions, encoded and executed   PatchCodec_proofs, PatchEffect_proofs

SectionFilter     init_write: which sections  SectionFilter_proofs
InfoArea          init_write and write: layout of the output   InfoArea_proofs
   implements (refinement mapping L)
AreaLayout        abstract: pack, grow .bss, move the tail   AreaLayout_proofs

Induction         induction over numbers and sequences, for the proofs
Executables, MCTailor, MCInfoArea, MCPatchCodec    instances for TLC
```

The modules meet in values, not in steps: what `Tailor` leaves (`frozen`,
`fixed`, `all`) is what `InfoArea` starts from, for every such state (a bound
function has all its variables committed, the theorem `BoundOnlyWhenCommitted`,
and the sections may be removed with or without `-A`'s applies); what `InfoArea`
keeps is `Retained` in `Tailor`, and `ReadsBack` says that reading the file
yields exactly that; what `SectionFilter` calls `outOf[s] = 0` is `Absent` in
`InfoArea`; an exception in any of them is a step of `Session`.

### Multiverse

The executable is a set of constants: for every function its body and its
vector of variants, for every variant its guards, decoded type and body, for
every call site callee, address and length, and the symbol table. `.text` is a
function from addresses to cells, one per byte; a cell is untouched `code`, a
`trap` (`0xcc`), or a byte of an entry jump, a call or an inlined body, with the
variant it reaches. Encodings are abstracted, addresses and lengths are not,
because the faults to be found are overlaps.

| definition | code |
|---|---|
| `Init`, `ProbeSyms`, `CheckSym` | `Bintail::Bintail`, `probe_sym`, `check_sym`: sizes come from the last symbol that matches the *current* values; without a match they are `Garbage`, i.e. uninitialized |
| `Change` | `Bintail::change` and `MVVar::set_value`, with its assertion on 4 bytes (the build type of the repository is Debug) |
| `Apply`, `ApplyAll`, `ApplyVar` | the loops of `Bintail::apply`, `apply_all` and `MVVar::apply`; one step per variable and per linked function, in any order |
| `ApplyFn`, `Bind` | `MVFn::apply`: `find_if`, guard, patch points, flag |
| `GuardArea`, `Guarded`, `Patched` | the fills and `patchpoint_apply`, in the code's order: guards first, then the entry jump, then the call sites |

### Tailor

`main` with an output file. `stage` is the position in `main`; `-s` and `-a`
options may come in any number, since a loop over an option list of unknown
content is a nondeterministic choice of the next one. `ChangeThrows` is
`std::stoi` without a number, `ChangeFails` the assertion; nobody catches
either. `kept` is the result of `write`: the descriptors that survive.
`WriteThrows` stands for `write_ptr`, `update_relocs_sym` and libelf refusing.
`KeptFnsResolve` is about a second run on the output: an assignment the
constructor links to a variable by address has to find it, because `var` is
uninitialized otherwise. A call site always finds its function: whether it stays
is decided by the flag of that function.

### Commitment

What tailoring promises, without bytes, loops and symbols: values are
configured while nothing is committed, variables are committed one by one, a
function may be bound once, to a variant whose guards the committed values
satisfy. `Tailor` implements it with `cfg <- value`, `committed` the frozen
variables and `binding[f]` the variant that the *byte at the entry of f*
reaches - so the refinement is a statement about the patched code, not about
the flag.

### PatchCodec

A variant's body as instructions, its bytes, the decoder of the constructor
(`DecodeMvfn`), the call site and its decoder (`Decoded`, which refuses a tail
call as the code throws "Invalid patchpoint"), and one action per branch of
`patchpoint_apply`. Then a processor executes what is there: the properties
are about what happens, not about which bytes were written. Opcodes are bytes;
the four bytes of a 32 bit operand are kept together as a value and reduced at
that width (`Truncate`, `Signed`), so an operand that is cut off or overwritten
by half is seen. The processor, the compiler's code and their encodings are
external. The word width is a constant.

### SectionFilter

A section is its number. The loop of `init_write` is `DropScn` and `CopyScn`;
`Write` is what `write` does to numbers of sections, in its order: generate of
the multiverse sections and of `.bss`, and `Dynamic::write`, make the header of
the output from that of the *input* (`Rewritten`), so what the loop had put into
`sh_link` is lost; `update_relocs_sym` puts the symbols back as they were read;
then the ELF header is adjusted (`Adjusted`). `link` is any `sh_link` of any
section, so the properties carry the condition under which the code's arithmetic
is right: `LinkFits`, the sections the link of a copy was reduced by
(`Subtracted`: those passed by then, none for a header made anew) are those
dropped in front of the section it names. It holds of the pairs the linker
makes - a symbol table and its strings behind the area, `.dynamic` and a
`.dynstr` in front of it - and not of a `.rela.text` of `--emit-relocs` in front
of the area.

### Session

The process, with every point at which it may end: `errx`, an exception
nobody catches, a failed assertion, `exit(0)` in the constructor, a return
from `main`. What the operating system or libelf refuses is a choice. A refusal
the code looks at ends the process (`InputFails`, `OutputFails`, `WriteThrows`,
`WriteFails`); a null result it uses without looking is a crash (`NullData`); one
it only prints, or drops, is remembered in `ignored` and the process goes on
(`Ignored`, `CloseFails`), after which the output is written without what was
refused. `handle`
is the state of the members the destructor gives back. A display run never
initializes two of them; ending one is undefined behaviour, and `EndUnset`
is the choice between nothing, a crash, and closing a descriptor in use.

### InfoArea

`init_write`'s search for the area (`TryPhdr`, `PhdrsDone`), `InfoArea::generate`,
`update_relocs_sym` and the end of `write`, one action per program header,
section and phase, in units of 8 bytes. A descriptor is the sequence of
its pointers, as `make_info` relocates them; other fields are copied. `Init` is
the state when `init_write` looks for the area, for every order of the sections
in the input, every set of committed variables, every set of functions bound by
them, with and without the removal of the sections, for position independent
executables and others. The flags are set later in the code, by the applies
between `init_write` and `write`; the search does not read them. `removed` is
independent of what was applied, since the test in `bintail_test.cc` removes the
sections and applies nothing.
A section may be missing (no call sites); then its header and its `max_size`
are uninitialized, and `TryPhdr` chooses whether the segment is accepted and
what header `FindStart` comes across first.
`MVSection::generate` of functions, variables and call sites are the same code
three times in `mvscn.cc`; they are one operator with three instances.
`UpdateRelocsThrows` is libelf's refusal of an entry beyond the copied section.
`relaOther` is what no section claims of the program's other relocations.
`mvdata` compares them with boundary pointers nobody set, so `Init` lets it claim
up to two of them (`Unclaimed`); these are dropped with its own.
The input is assumed to have a `DT_RELACOUNT` and a `__multiverse_data_`
(`DataAssumption`): without it the first header `find_start_of_area` reads would
be uninitialized.

### AreaLayout

What the layout promises, without descriptors, pointers and relocations: four
sections of any sizes shrink in place, `.bss` takes the memory, the file part
ends with the last of them, the tail moves. `InfoArea` implements it; the steps
that look for the area and write relocations stutter. It is small enough to be
proved about for sections of every size.

## Runs

| run | shows |
|---|---|
| `tailor` (pass, 23 766 states) | type invariant, `TrapOnlyDeadCode`, `LiveTextExact`, `GuardComplete`, `BoundMatchesConfig`, `DecidedIsBound`, `KeptLiveSitesAreCalls`, `StillTunable`, the action properties `BoundForever` and `VarianceRemoved`, `Termination`, and that the run implements `Commitment` with its fairness |
| `tailor_uneven` (violation) | the guard overruns a short variant |
| `tailor_kept` (violation) | listed call sites hold fill bytes |
| `tailor_memory` (violation) | `-s` of a `.bss` variable does not reach memory |
| `tailor_again` (violation) | a listed function has assignments whose variable is gone |
| `info_area` (pass, 19 148 states) | `AreaExact`, `ReadsBack`, `RelocsMatchPointers`, `RelativeFirst`, `MemoryCovered`, `SegmentLoads`, `FileDisjoint`, and that it implements `AreaLayout` |
| `info_area_pad` (violation) | with padding before `.bss` later sections overlap the area |
| `info_area_relocs` (violation) | the relocation table outgrows its section |
| `section_filter` (pass, 1 882 384 states) | `FilterExact`, `LinksPreserved`, `HeaderExact`, `HandlersFollow` |
| `section_filter_syms` (violation) | symbols name the wrong sections after `-A` |
| `session` (pass, 33 536 states) | `DisplayOnlyReads`, `SuccessIsComplete`, `HandlesBalanced` |
| `patch_codec` (pass, 26 088 states) | `SameEffect`, `PatchFits`, `RedecodesOrRefuses`, `RunsThrough` |

Every property of a passing run has a mutant in `PROJECT.json`: a definition
changed the way a plausible bug would change it, which makes TLC report that
property. The mutated forms stand before the definition they replace, each with
a comment that begins with "Mutant".

### Bounds

The executable of `tailor` is the smallest in which the cases meet: `f` over
`{a}` with a constant-returning variant; `g` over `{a, b}` with three variants,
one of which merges `b` and starts with an indirect call of `f`; `f` calls `g`
from its generic body and from a variant, and `g` calls `f`, so that guards and
patch points of one lie in bodies of the other, dead or selected; `k` over `c`,
where `b` and `c` are two static variables with one name, so that one option
hits both; `h` without variants; `d` one byte wide, which `-s` cannot set;
`x`, a name no variable has; value 2, for which `a` has no variant. `b` and `c`
lie in `.bss`. Addresses are as small as the bodies allow. All input values,
all orders and numbers of options are explored; nothing else is bounded.

`tailor_uneven` uses the same functions with a variant of two bytes in front of
live code; `tailor_kept` and `tailor_memory` use the executable of `tailor`.

`info_area` has three functions (2, 0 and 3 variants), two variables, four call
sites in an order that interleaves the callees, two following sections and three
other relocations, one of them not relative; and a second executable without
call sites, whose section is missing. The four sections come in four orders:
the one of `generate`, its reverse, and two mixed ones. All reachable
combinations of frozen and bound are initial states; each then has one
execution but for the uninitialized headers, as `write` is deterministic. Of the
three other relocations any one or two may be claimed by `mvdata`.
`info_area_pad` differs in `bssPad` only; with it, all properties but
`FileDisjoint` still hold. `info_area_relocs` differs from `info_area` in
nothing but the property.

`section_filter` has six sections: `.rela.dyn`, `.dynamic`, two multiverse
sections that `-A` removes, `.bss` and the section of names; so there are headers
that are made anew on both sides of the removed ones and, without `-A`, those of
the multiverse sections themselves. All 7^6 assignments of links are initial
states; the width of `sh_link` is 32 values, enough for an unsigned result
below zero to show. The theorems hold for any number of sections.

`patch_codec` has a word of 16 values, bodies of up to two instructions and
either form of `ret`, three constants, and distances on both sides of the reach
of a signed word. One instruction more would only repeat what follows the first.

`session` has no bound: the options are the ones of the switch, and any number
of operands but one and two is refused alike.

### Fairness

`main` is sequential and `argv` finite. `TSpec` has weak fairness of the steps
that leave a loop (`ChangesDone`, `ApplyStep`, `AllDone`, `Write`): each stays
enabled until taken. `AppliesDone` is enabled only between two `-a` options, and
has strong fairness: the option list ends. No fairness is assumed of options
themselves. `WriteEnds` is one step that either writes or throws. `AFairness` of `Commitment` (what can be bound is bound) is checked
from that.

In `PatchCodec` the processor keeps running. The other modules state safety only.

## Proofs

`Tailor_proofs` proves for every executable - any number of variables,
functions, variants, sizes, any values - with TLAPS:

* `TypeCorrect`: `TSafeSpec => []TTypeOK`, without hypotheses beyond the typing
  assumptions on the constants.
* `CommittedForEver`: `VarianceRemoved`, from the order of `main`.
* `BoundCorrectly`, `BoundOnlyWhenCommitted`, `NothingMissed`, `BindingsAreForEver`, `LiveCodeExact`,
  `NoLiveTrap`, `AllDeadCodeGuarded`, `KeptSitesIntact`, `FreeStaysTunable`:
  the properties of the run `tailor`, and the flags `InfoArea` starts from.
* `TailorImplementsCommitment`: the safety half of the refinement.

Hypotheses, stated in `Tailor` and true of the executable of the run:

* `WellFormed` - all variants of a function guard the same variables and at
  least one (`Uniform`, how the compiler specializes), a variant descriptor
  belongs to one function (`Owned`), an entry has room for a jump
  (`EntryInBody`), bodies do not overlap (`BodiesDisjoint`), patch points do not
  overlap (`SitesDisjoint`).
* `ProbeFits` - no probed size exceeds the body it stands for; and for
  `AllDeadCodeGuarded` also `ProbeCovers`, none falls short of it. They are
  hypotheses on the first state because of the size defect that `tailor_uneven`
  shows: the theorems say that it is the only way a guard can hit live code.

The argument. The inductive invariant is `IInv == TTypeOK /\ StageInv /\
ProbeFits /\ BindInv`. `StageInv`: nothing is frozen, bound or being applied while
main is still changing values - so no value changes after the first
commitment - and no apply is running once it writes. `ProbeFits` is kept since sizes are never written again, and
puts every fill inside a body. `BindInv`: a bound function has a first
candidate, its entry jumps to it, and a function with candidates that is not
bound is still to be visited. Neither `DecidedIsBound` nor `BoundForever` is
inductive without it: the set of candidates of a function changes with every
freeze, and it is `Uniform` that makes it jump from empty to its final value at
once (`FreezingKeepsChoice`, `FreezingGivesChoice`), whence binding again
selects the same variant (`RebindSame`). `LiveTextExact` is inductive
relative to `IInv`: `BindEffect` computes every byte after a bind, `DeadStays`
shows that code once dead stays dead, and a fill touches bytes only inside dead
code or below the patch point that overwrites them. The refinement follows step
by step, a second bind being a stutter.

`SectionFilter_proofs` proves all properties of the run `section_filter` for any
number of sections, any removable, handled and linked ones, from the typing
assumptions alone. The invariant of the loop (`LoopInvariant`) says that
`removed` is the number of dropped sections in front of the current one, that
the output so far is the kept ones in order, each at its number less the
dropped ones in front of it (so `Len(out) + removed` is the position of the
loop), and that links were computed with the count of that moment or, once
`Write` has made a header anew, are those of the input (`LinkOf`). That `Write`
reaches exactly the copies of `Regenerated` needs that two handled sections never
have one copy (`RewriteOne`). `FilterExact` and `HandlersFollow` follow by
counting; `LinksPreserved` is the observation that under `LinkFits` the amount a
link was reduced by is the count of the target.

`AreaLayout_proofs` proves, for sections of any sizes, any amounts kept, any gap
and any tail, that the layout covers the same memory (`LayoutCovers`), loads each
section at its address (`LayoutLoads`), and moves the tail in order to `bssPad`
words below the end of the segment (`TailFollows`) - with no gap right behind it,
and with a gap into it, which is the defect `info_area_pad` shows. The invariant:
packed sections stay below their own input end (`pos <= RoomOf(step)`), in order,
with one distance between address and offset; an absent section takes no
room. These reach the code by the refinement, the theorem `ImplementsAreaLayout`.

`PatchCodec_proofs` proves, for any width of an operand, any bodies, any
addresses and every kind of call site, that a patch fills its place to the byte
(`FillsItsPlace`) and that a patched call site read again is refused or taken
for a call of its variant (`NeverMisread`). The invariant `PInv` follows the
place: its length and first opcode as compiled, its length once decoded, and,
once patched, either the five bytes of a call of the variant or an opcode that
is no call. The lemmas under it are about concatenations of bytes, whose lengths
have to add up to 5 or 6 with the filler of each case, and about arithmetic
modulo the word: what `Offset` cuts off, `Signed` puts back (`BranchReaches`).
They assume nothing but `CodecAssumption`; `Reachable` is the condition that
the distance fits in 32 bits, part of the property.

`PatchEffect_proofs` goes on from there to what a processor does: for a body of
any length, executing what was put in place of the call has the effect of
calling the variant, once, and leaves right behind the call
(`TrivialBodiesInPlace`); `CodecTypes` is the type invariant. The invariant
`RInv` adds to `PInv` what the decoder's verdict stands for (`StandsFor`: a body
taken for a constant is one `mov` of it or an `xor`, ...) and, while the
processor runs, that it is at a byte where an instruction of the patch begins and
that what it has done so far is what the variant does. `Recognized` is the heart:
`MVmvfn::MVmvfn` looks at fixed offsets of the body, and only a body of one
trivial instruction (or none) before the `ret` has these bytes there. The effect
of a body is a fold, unfolded for bodies of no and of one instruction
(`EffectOfNone`, `EffectOfOne`); of longer ones only the type is needed.

`Session_proofs` proves the safety properties of the run `session`. The invariant
`SInv` names for every place in `main`, the constructor and `init_write` the
handles open there and the state of the output file, and for every step of the
destructor the members it has been through. What may be refused on the way is any
choice, so the theorems hold for every failure in every order. `SuccessMeansComplete`
says exactly which: with an output and status 0 the file is complete unless a
refusal was ignored, and then it is written without what was refused.

`InfoArea_proofs` proves all safety properties of the run `info_area`, and its
refinement, for every executable: any number of variables, functions, variants,
assignments and call sites, any order of the four sections, any set of committed
variables and of bound functions.

* `AreaIsExact`. `SearchInv`: no area is found before the data segment is looked
  at, one that is found is the right one, and none is only missed if a section is
  missing or `.bss` is empty. `LooksOn` and `StartFound` show that
  `find_start_of_area` ends at the first section whatever the headers of missing
  sections hold: `mvdata` is looked at first and exists, and from then on a stale
  header is one of a section seen before.
* `ImplementsAreaLayout`, and with it `MemoryIsCovered`, `SegmentIsLoaded` and
  `FileIsDisjoint` from the theorems of `AreaLayout_proofs`; `AreaTypes`. `FillInv`
  adds to `SearchInv` that `pos` never exceeds the room of the sections
  done (`Rooms`), and where `.bss`, the end of the file part and the tail are.
* `KeptIsReadBack`, `RelocsArePointers`, `RelativeAreFirst`. `ContentsInv`: a
  section that is done holds its kept blocks packed from its address on
  (`PartDone`), its boundary pointers enclose them (`BoundDone`), its relocations
  are its pointers, and once `mvdata` is generated every kept function knows where
  its variants are (`Told`) - without `Told` the pointers of `mvfn` could not be
  shown to lead anywhere. `ListsFrom` and `KeptInOrder` turn packed blocks into a
  list without holes; `VariantsRead` follows the pointers of a function to its
  variants and assignments. A sequence of pointers is `Tidy` if no two are
  at one address and all lie in a given range; packing keeps that (`BlocksTidy`),
  the ranges of the sections and of `.data` are apart (`PlacesApart`, which uses
  `MemoryIsCovered`), so the relocation table covers every pointer once
  (`FrontCovered`).

What they assume. Of the constants: `LayoutAssumption`,
`VectorAssumption` (vectors hold each descriptor once), `PtrAssumption` (the
boundary pointers are different words of `.data`, as `write_ptr` demands) and
`DataAssumption` (`__multiverse_data_` exists). As hypotheses of single theorems:
`RelocsArePointers` needs the type of `others` (that the unclaimed ones among
them stay as the constructor left them is the invariant `RestInv`); `FileIsDisjoint` needs
`bssPad = 0`, the condition `info_area_pad` shows to be necessary; `AreaTypes` only
`bssPad <= areaOff`, since the tail moves that much too far. `RelativeAreFirst`
needs `OthersSorted`, that the linker put the relative ones of the remaining
relocations first (`-z combreloc`): the code appends them in the input's order.
`AreaExact` leaves the refusal open for an empty `.bss` (`bssSize = 0`), which
`in_segment` does not find behind the file part of its segment.

`Starts`, `FlattenSeq` and folds are recursive functions over vectors. The
library's induction theorems take an operator as a parameter and cannot be used;
`Induction` derives induction over the numbers up to `n` from the
well-foundedness of the naturals, with a set in place of the predicate
(`InductionUpTo`), shows that the recursive function exists (`StagesExist`,
`StartsExist`, `FoldingExists`) and from that what it is at each index.
`Positions` says where in a flattened sequence each element comes from.

Only model-checked: liveness (`Termination` of `Tailor`, `BindsWhatItCan`,
`RunsThrough`), the fairness half of the refinement of `Commitment`, and the ends
of the violation runs, which are counterexamples. Every other property of a
passing run is stated by a theorem.

## What the checks found

1. Guard sizes (`mvelem.cc:56`, `191`): symbols are matched by current values,
   so every variant over the same variables gets the size of the variant active
   in the input; `tailor_uneven`.
2. Listed call sites in filled bodies (`mvelem.cc:191`, `mvscn.cc:254`): the
   output of a partial tailoring cannot be read by bintail again; `tailor_kept`.
3. `-s` on a variable in `.bss` (`mvelem.cc:342`): variants are selected for a
   value the program never has; `tailor_memory`.
4. The shift by memory growth (`bintail.cc:374`); `info_area_pad`.
5. The relocation of a null `mv_functions` (`mvelem.cc:212`); `info_area_relocs`.
   It presumes that the compiler emits no relocation for the null pointer.
6. Symbols under `-A` keep the section numbers of the input (`bintail.cc:269`);
   `section_filter_syms`.
7. A partial tailoring drops the descriptor of an applied variable while
   functions over it and another one stay (`mvscn.cc:195`): bintail reads an
   uninitialized pointer when it is run on its output (`mvelem.cc:57`);
   `tailor_again`.

`mvdata` has no boundary pointers but compares relocations with the uninitialized
members for them (`mvscn.cc:98`): one at that address is claimed, so it does not
get into `rela_other` (`bintail.cc:202`), and is dropped when `mvdata` is
generated. No run of its own shows this; it is in the model as `Unclaimed`, and
the properties of `info_area` hold whatever was claimed.

Status 0 does not mean that libelf took everything. A failed `gelf_update_sym`
or `gelf_update_dyn` is printed (`bintail.cc:273`, `mvscn.cc:390`); the results of
the updates of headers (`bintail.cc:358`, `383`, `394`, `mvscn.cc:91`, `336`, `399`)
and of `close` (`bintail.cc:37`) are dropped; then `main` returns 0.
`SuccessIsComplete` says that this is all. The header of `.dynamic` is made from
the input's (`mvscn.cc:395`), so under `-A` its link to `.dynstr` stays right only
because linkers put `.dynstr` in front of the multiverse sections; the links
`init_write` computes are right only where the removed sections passed are those
in front of the target (`bintail.cc:357`).

The comment of `apply` says the guard writes `0xc3` (`bintail.cc:217`); the code
writes `0xcc`. The usage text lists `-w`, which the option switch sends to the
usage text (`main.cc:52`). Without the boundary pointers of libmultiverse the
process ends with status 0 and no output (`bintail.cc:175`), which
`SuccessIsComplete` has to name as an exception. A run that only displays ends
two members nobody initialized (`bintail.cc:36`).

The proofs also show what the code relies on without checking it: bodies of two
variants that were merged by the linker break `BodiesDisjoint`, and
`mvelem.cc:190` compares descriptors, not bodies.

## Not modelled

* What the constructor does with call sites and assignments that match nothing
  in the input: it leaves pointers uninitialized. That bintail's own output may
  have such assignments is `KeptFnsResolve`; other inputs of this kind do not
  come from the compiler.
* An executable without `__multiverse_data_`, and what `Section::inside` reads of
  a missing section (`mvscn.cc:532`): both depend on what the stack held.
* In `InfoArea`: relocations that are not `R_X86_64_RELATIVE` inside the
  multiverse sections, and segments behind the one of the area.
* `ElfExe::write` and its accessors (used by the tests only), the print
  functions, samples and scripts: no state of the tailoring.
* The runtime library libmultiverse and libelf, beyond the bound of
  `gelf_update_rela` and the numbering of `elf_newscn`.
* Variable names that are suffixes of each other, and variants whose bodies were
  merged by the linker: both are in the hypotheses of the theorems (`ProbeFits`,
  `BodiesDisjoint`), and no executable of the runs has them. With either the
  guard can fill live code.
