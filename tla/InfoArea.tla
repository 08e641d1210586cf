------------------------------ MODULE InfoArea ------------------------------
(***************************************************************************)
(* What Bintail::init_write and Bintail::write do to the layout.           *)
(* init_write looks for the segment that holds the multiverse sections,    *)
(* and for where they start in it.  write packs the descriptors that are   *)
(* still needed into the area these sections had,                          *)
(*     [ mvdata | mvfn | mvvar | mvcs | .bss ]                             *)
(* gives the freed memory to .bss, closes up the freed space of the file,  *)
(* and makes pointers, relocations and headers agree.                      *)
(*                                                                         *)
(* Addresses, offsets and sizes count words of 8 bytes.  A descriptor is   *)
(* the pointers it holds; its other fields are copied unchanged.           *)
(***************************************************************************)
EXTENDS Integers, Sequences, FiniteSets, SequencesExt

CONSTANTS
  Exes,              \* executables: [vars, fns, sites, order], the vectors
                     \* vars and fns, the call sites of pps, and the order of
                     \* the multiverse sections in the file
  nAssigns,          \* per function: the number of assignments of each variant
  dependsOn,         \* per function: the variables it is specialized for
  callee,            \* per call site: its function
  areaOff, areaAt,   \* file offset and address of the multiverse sections
  dataSize,          \* size of .data, in front of them in the segment
  bssPad, bssSize,   \* alignment gap before .bss, size of .bss in the input
  tail,              \* sizes of the sections that follow in the file
  ptrAt,             \* address of __start_/__stop___multiverse_<part>_ptr
  others,            \* relocations of the rest of the program, in file order:
                     \* is it R_X86_64_RELATIVE?
  Uninit             \* what an uninitialized section header may hold

Part == {"mvdata", "mvfn", "mvvar", "mvcs"}
Bounded == {"mvfn", "mvvar", "mvcs"}

VarSize == 4     \* sizeof(mv_info_var), in words
FnSize == 6      \* sizeof(mv_info_fn)
SiteSize == 2    \* sizeof(mv_info_callsite)
MvfnSize == 4    \* sizeof(mv_info_mvfn)
AssignSize == 2  \* sizeof(mv_info_assignment)

ASSUME LayoutAssumption ==
  /\ dataSize \in Nat
  /\ areaOff \in Nat /\ areaOff >= dataSize
  /\ areaAt \in Nat /\ areaAt >= dataSize
  /\ bssPad \in Nat /\ bssSize \in Nat
  /\ tail \in Seq(Nat)

(* The vectors hold every descriptor once. *)
ASSUME VectorAssumption ==
  \A e \in Exes :
    /\ e.vars \in Seq(Range(e.vars)) /\ IsInjective(e.vars)
    /\ e.fns \in Seq(Range(e.fns)) /\ IsInjective(e.fns)
    /\ e.sites \in Seq(Range(e.sites)) /\ IsInjective(e.sites)
    /\ \A f \in Range(e.fns) : nAssigns[f] \in Seq(Nat)

(* The start and stop pointers are words of .data, and no two are the same *)
(* (write_ptr refuses an address outside of the section it is given).      *)
ASSUME PtrAssumption ==
  \A p, q \in Bounded :
    /\ {ptrAt[p].start, ptrAt[p].stop} \subseteq areaAt - dataSize .. areaAt - 1
    /\ ptrAt[p].start # ptrAt[q].stop
    /\ ptrAt[p].start = ptrAt[q].start \/ ptrAt[p].stop = ptrAt[q].stop => p = q

(* __multiverse_data_ exists: some function has variants. *)
ASSUME DataAssumption ==
  \A e \in Exes :
    /\ \E i \in DOMAIN e.fns : nAssigns[e.fns[i]] # <<>>
    /\ DOMAIN e.order = 1 .. 4 /\ Range(e.order) = Part

VARIABLES
  exe,       \* the executable
  fpic,      \* is the executable position independent (ET_DYN)?
  frozen,    \* variables committed by then
  fixed,     \* functions bound by then
  removed,   \* did init_write drop the multiverse sections (-A)?
  relaOther, \* rela_other, as indices of others
  pc,        \* the step that comes next
  ndx,       \* the program header init_write looks at
  area,      \* Area: found, and its start and end in the file and in memory
  pos,       \* area_pos: words of the area used so far
  out,       \* per section of the area: offset, address, size, pointers in it
  relocs,    \* per section: Section::relocs
  mvfnAt,    \* MVFn::mvfn_vaddr
  ptrs,      \* the start and stop pointers in .data
  rela,      \* the relocation table of the output
  filesz,    \* p_filesz of the segment, counted from the start of the area
  tailOff,   \* offsets of the following sections, and of the section table
  relaCount  \* DT_RELACOUNT

vars == <<exe, fpic, frozen, fixed, removed, relaOther, pc, ndx, area, pos, out, relocs, mvfnAt,
          ptrs, rela, filesz, tailOff, relaCount>>
input == <<exe, fpic, frozen, fixed, removed, relaOther>>
found == <<ndx, area>>

Vars == exe.vars
Fns == exe.fns
Sites == exe.sites
-----------------------------------------------------------------------------
(* Positions. *)

(* Prefix sums: where the i-th of a vector of blocks starts. *)
Starts(sizes) ==
  LET at[i \in 1 .. Len(sizes) + 1] ==
        IF i = 1 THEN 0 ELSE at[i - 1] + sizes[i - 1]
  IN at
Total(sizes) == Starts(sizes)[Len(sizes) + 1]

DataSize(f) ==
  Total([k \in DOMAIN nAssigns[f] |-> MvfnSize + AssignSize * nAssigns[f][k]])

Sizes(vec, Keep(_), Size(_)) ==
  [i \in DOMAIN vec |-> IF Keep(vec[i]) THEN Size(vec[i]) ELSE 0]

(* What one word points to: a word of the area, or something outside it.   *)
At(a) == <<"area", a>>
Thing(kind, x) == <<kind, x>>
Field(a, to) == [at |-> a, to |-> to]

(* The pointers of a block placed at p, in the order their relocations are *)
(* added.                                                                  *)
VarFields(v, p) ==
  <<Field(p, Thing("name", v)), Field(p + 1, Thing("location", v))>>
SiteFields(c, p) ==
  <<Field(p, Thing("body", callee[c])), Field(p + 1, Thing("label", c))>>
FnFields(f, p, mv) ==
  <<Field(p, Thing("name", f)), Field(p + 1, Thing("body", f)), Field(p + 3, mv)>>
DataFields(f, p) ==
  LET n == Len(nAssigns[f])
      ass == Starts([k \in 1 .. n |-> AssignSize * nAssigns[f][k]])
      Mvfn(k) == p + MvfnSize * (k - 1)
      Assigns(k) == p + MvfnSize * n + ass[k]
  IN FlattenSeq(
       [k \in 1 .. n |->
          <<Field(Mvfn(k), Thing("mvbody", <<f, k>>)),
            Field(Mvfn(k) + 2, At(Assigns(k)))>>
          \o [i \in 1 .. nAssigns[f][k] |->
                Field(Assigns(k) + AssignSize * (i - 1), Thing("assign", <<f, k, i>>))]])

(* All kept blocks of a vector, packed from p on. *)
Pack(vec, Keep(_), Size(_), Fields(_, _), p) ==
  LET at == Starts(Sizes(vec, Keep, Size))
  IN FlattenSeq([i \in DOMAIN vec |->
                   IF Keep(vec[i]) THEN Fields(vec[i], p + at[i]) ELSE <<>>])

FnBlock(f) == FnSize
VarBlock(v) == VarSize
SiteBlock(c) == SiteSize
Always(x) == TRUE

(* The input: everything is there, packed in the same order; a function    *)
(* without variants has a null pointer in place of the third field.        *)
SizeIn(part) ==
  CASE part = "mvdata" -> Total(Sizes(Fns, Always, DataSize))
    [] part = "mvfn"   -> FnSize * Len(Fns)
    [] part = "mvvar"  -> VarSize * Len(Vars)
    [] part = "mvcs"   -> SiteSize * Len(Sites)
OffIn(part) ==
  LET i == CHOOSE j \in DOMAIN exe.order : exe.order[j] = part
  IN Total([j \in 1 .. i - 1 |-> SizeIn(exe.order[j])])
AreaSize == Total([j \in DOMAIN exe.order |-> SizeIn(exe.order[j])])

(* The linker makes no section out of nothing. *)
Missing(part) == SizeIn(part) = 0

FieldsIn(part) ==
  LET p == areaAt + OffIn(part)
      data == Starts(Sizes(Fns, Always, DataSize))
      FnIn(f, q) ==
        LET i == CHOOSE j \in DOMAIN Fns : Fns[j] = f
        IN IF nAssigns[f] = <<>>
             THEN SubSeq(FnFields(f, q, At(0)), 1, 2)
             ELSE FnFields(f, q, At(areaAt + OffIn("mvdata") + data[i]))
  IN CASE part = "mvdata" -> Pack(Fns, Always, DataSize, DataFields, p)
       [] part = "mvfn"   -> Pack(Fns, Always, FnBlock, FnIn, p)
       [] part = "mvvar"  -> Pack(Vars, Always, VarBlock, VarFields, p)
       [] part = "mvcs"   -> Pack(Sites, Always, SiteBlock, SiteFields, p)

AreaEnd == areaOff + AreaSize        \* also the offset of .bss
BssAt == areaAt + AreaSize + bssPad  \* .bss in memory
VaddrEnd == BssAt + bssSize

Header(part) ==
  IF part = "bss" THEN [off |-> AreaEnd, at |-> BssAt, size |-> bssSize]
  ELSE [off |-> areaOff + OffIn(part), at |-> areaAt + OffIn(part), size |-> SizeIn(part)]

(* The program headers: code, data, and one that is not loaded. *)
Phdrs ==
  LET start == areaOff - dataSize
  IN <<[load |-> TRUE, off |-> 0, filesz |-> start, at |-> 0, memsz |-> start],
       [load |-> TRUE, off |-> start, filesz |-> dataSize + AreaSize,
        at |-> areaAt - dataSize, memsz |-> VaddrEnd - (areaAt - dataSize)],
       [load |-> FALSE, off |-> 0, filesz |-> AreaEnd, at |-> 0, memsz |-> 0]>>

(* The relocation section of the input has room for its own entries: those *)
(* of the rest of the program, of the descriptors, and of the boundary     *)
(* pointers.                                                               *)
Capacity ==
  Len(others) + (IF fpic THEN Len(FieldsIn("mvdata")) + Len(FieldsIn("mvfn"))
                              + Len(FieldsIn("mvvar")) + Len(FieldsIn("mvcs"))
                              + 2 * Cardinality(Bounded)
                         ELSE 0)
-----------------------------------------------------------------------------
(* The constructor leaves to rela_other what no section claims, in the     *)
(* order of the file.  mvdata has no boundary pointers, but compares with  *)
(* the members for them, which nobody set: by chance it claims one or two  *)
(* relocations that are none of its own.                                   *)
Unclaimed ==
  {r \in UNION {[1 .. n -> DOMAIN others] : n \in 0 .. Len(others)} :
     /\ Len(r) >= Len(others) - 2
     /\ \A i, j \in DOMAIN r : i < j => r[i] < r[j]}

(* Sections, headers and relocations are copies of the                     *)
(* input.  A function is only bound once its variables are committed; the  *)
(* sections may be removed although nothing was applied (bintail_test.cc). *)
Empty == [off |-> 0, at |-> 0, size |-> 0, fields |-> {}]

(* A section without a scn_out: removed, or missing in the input. *)
Absent(part) == part # "bss" /\ (removed \/ Missing(part))

NoArea == [found |-> FALSE]

Init ==
  /\ exe \in Exes
  /\ fpic \in BOOLEAN
  /\ removed \in BOOLEAN
  /\ relaOther \in Unclaimed
  /\ frozen \in SUBSET Range(Vars)
  /\ fixed \in SUBSET {f \in Range(Fns) : dependsOn[f] # {} /\ dependsOn[f] \subseteq frozen}
  /\ pc = "phdrs"
  /\ ndx = 1
  /\ area = NoArea
  /\ pos = 0
  /\ out = [p \in Part \cup {"bss"} |->
              IF Absent(p) THEN Empty
              ELSE [off |-> Header(p).off, at |-> Header(p).at, size |-> Header(p).size,
                    fields |-> IF p = "bss" THEN {} ELSE Range(FieldsIn(p))]]
  /\ relocs = [p \in Part \cup {"data"} |->
                 IF fpic /\ p # "data" THEN FieldsIn(p) ELSE <<>>]
  /\ mvfnAt = [f \in Range(Fns) |-> Thing("garbage", f)]
  /\ ptrs = [p \in Bounded |-> [start |-> areaAt + OffIn(p),
                                stop |-> areaAt + OffIn(p) + SizeIn(p)]]
  /\ rela = <<>>
  /\ filesz = AreaSize
  /\ tailOff = [i \in 1 .. Len(tail) + 1 |-> AreaEnd + Starts(tail)[i]]
  /\ relaCount = 0

KeepFn(f) == f \notin fixed
KeepVar(v) == v \notin frozen
KeepSite(c) == callee[c] \notin fixed

(* Section::in_segment, for a header. *)
InSegment(shdr, seg, nobits) ==
  \/ seg.off <= shdr.off /\ shdr.off < seg.off + seg.filesz
  \/ nobits /\ shdr.size > 0 /\ shdr.off = seg.off + seg.filesz

(* InfoArea::test_phdr.  Of a missing section both the header and max_size *)
(* are uninitialized.                                                      *)
TestPhdr(seg) ==
  /\ InSegment(Header("bss"), seg, TRUE)
  /\ \A p \in Part : InSegment(Header(p), seg, FALSE) \/ Missing(p)

(* Mutant: mvdata is taken to be the first section. *)
FindStartOfData(offEnd, shdr) ==
  [shdr |-> shdr, off |-> Header("mvdata").off, at |-> Header("mvdata").at]

(* InfoArea::find_start_of_area.  A missing section leaves shdr as it is.  *)
Look(acc, p) ==
  LET h == IF Missing(p) THEN acc.shdr ELSE Header(p)
  IN IF acc.off > h.off THEN [shdr |-> h, off |-> h.off, at |-> h.at]
     ELSE [acc EXCEPT !.shdr = h]
FindStart(offEnd, shdr) ==
  LET none == [shdr |-> shdr, off |-> offEnd, at |-> shdr.at]
  IN Look(Look(Look(Look(none, "mvdata"), "mvvar"), "mvfn"), "mvcs")

(* Area::set_phdr. *)
SetPhdr(seg, shdr) ==
  LET offEnd == seg.off + seg.filesz
      start == FindStart(offEnd, shdr)
  IN area' = [found |-> TRUE, off |-> start.off, at |-> start.at,
              offEnd |-> offEnd, atEnd |-> seg.at + seg.memsz]

Rest == <<pos, out, relocs, mvfnAt, ptrs, rela, filesz, tailOff, relaCount>>

TryPhdr ==
  /\ pc = "phdrs" /\ ndx \in DOMAIN Phdrs
  /\ ndx' = ndx + 1
  /\ LET seg == Phdrs[ndx]
     IN \/ /\ seg.load /\ TestPhdr(seg)
           /\ \E shdr \in Uninit : SetPhdr(seg, shdr)
        \/ /\ seg.load /\ TestPhdr(seg) => \E p \in Part : Missing(p)
           /\ UNCHANGED area
  /\ UNCHANGED <<input, pc, Rest>>

(* "Could not find info area segment" is thrown if none was. *)
PhdrsDone ==
  /\ pc = "phdrs" /\ ndx \notin DOMAIN Phdrs
  /\ pc' = IF area.found THEN "mvdata" ELSE "refused"
  /\ UNCHANGED <<input, found, Rest>>

(* What generate of every section does: pack, set the section header, and  *)
(* replace the section's relocations by those of the pointers it holds.    *)
Generate(part, size, fields) ==
  /\ out' = IF Absent(part) THEN out
            ELSE [out EXCEPT ![part] = [off |-> area.off + pos, at |-> area.at + pos,
                                        size |-> size, fields |-> Range(fields)]]
  /\ pos' = IF Absent(part) THEN pos ELSE pos + size

(* Mutant: the relocations of the input are not cleared. *)
RelocsAppended(part, fields) ==
  [relocs EXCEPT ![part] = IF fpic /\ ~Absent(part) THEN @ \o fields ELSE @]

Relocs(part, fields) ==
  [relocs EXCEPT ![part] = IF fpic /\ ~Absent(part) THEN fields ELSE <<>>]

(* Data.write_ptr for both ends of the section. *)
BoundRelocs(part, size) ==
  IF fpic THEN <<Field(ptrAt[part].start, At(area.at + pos)),
                 Field(ptrAt[part].stop, At(area.at + pos + size))>>
          ELSE <<>>
WriteBounds(part, size) ==
  ptrs' = [ptrs EXCEPT ![part] = [start |-> area.at + pos, stop |-> area.at + pos + size]]

(* MVDataSection::generate; it also tells every kept function where its    *)
(* variants are now.                                                       *)
GenerateData ==
  /\ pc = "mvdata" /\ pc' = "mvfn"
  /\ LET sizes == Sizes(Fns, KeepFn, DataSize)
         fields == Pack(Fns, KeepFn, DataSize, DataFields, area.at + pos)
     IN /\ Generate("mvdata", Total(sizes), fields)
        /\ relocs' = Relocs("mvdata", fields)
        /\ mvfnAt' = [f \in Range(Fns) |->
                        IF KeepFn(f) /\ ~removed
                          THEN LET i == CHOOSE j \in DOMAIN Fns : Fns[j] = f
                               IN At(area.at + pos + Starts(sizes)[i])
                          ELSE mvfnAt[f]]
  /\ UNCHANGED <<input, found, ptrs, rela, filesz, tailOff, relaCount>>

(* generate of the sections that have start and stop pointers. *)
GenerateBounded(part, next, vec, Keep(_), Size(_), Fields(_, _)) ==
  /\ pc = part /\ pc' = next
  /\ LET size == IF Absent(part) THEN 0 ELSE Total(Sizes(vec, Keep, Size))
         fields == Pack(vec, Keep, Size, Fields, area.at + pos)
     IN /\ Generate(part, size, fields)
        /\ relocs' = [Relocs(part, fields) EXCEPT !["data"] = @ \o BoundRelocs(part, size)]
        /\ WriteBounds(part, size)
  /\ UNCHANGED <<input, found, mvfnAt, rela, filesz, tailOff, relaCount>>

(* Mutant: a function keeps the pointer to its variants it had in the input. *)
FnFieldsBefore(f, p) ==
  LET i == CHOOSE j \in DOMAIN Fns : Fns[j] = f
  IN FnFields(f, p, At(area.at + OffIn("mvdata") + Starts(Sizes(Fns, Always, DataSize))[i]))

FnFieldsNow(f, p) == FnFields(f, p, mvfnAt[f])
GenerateFn == GenerateBounded("mvfn", "mvvar", Fns, KeepFn, FnBlock, FnFieldsNow)
GenerateVar == GenerateBounded("mvvar", "mvcs", Vars, KeepVar, VarBlock, VarFields)
GenerateCs == GenerateBounded("mvcs", "bss", Sites, KeepSite, SiteBlock, SiteFields)

(* Mutants: .bss keeps its size; the file part of the segment keeps its     *)
(* size; it grows instead of shrinking.                                    *)
MoveBss(size, sz) ==
  /\ pc = "bss" /\ pc' = "relocs"
  /\ out' = [out EXCEPT !["bss"] =
               [off |-> area.off + pos, at |-> area.at + pos, size |-> size, fields |-> {}]]
  /\ filesz' = sz
  /\ UNCHANGED <<input, found, pos, relocs, mvfnAt, ptrs, rela, tailOff, relaCount>>
GenerateBssOldSize == MoveBss(bssSize, filesz - (Header("bss").off - (area.off + pos)))
GenerateBssOldFilesz == MoveBss(area.atEnd - (area.at + pos), filesz)
GenerateBssGrows == MoveBss(area.atEnd - (area.at + pos), filesz + (Header("bss").off - (area.off + pos)))

(* BssSection::generate and the end of InfoArea::generate. *)
GenerateBss ==
  /\ pc = "bss" /\ pc' = "relocs"
  /\ out' = [out EXCEPT !["bss"] =
               [off |-> area.off + pos, at |-> area.at + pos,
                size |-> area.atEnd - (area.at + pos), fields |-> {}]]
  /\ filesz' = filesz - (Header("bss").off - (area.off + pos))
  /\ UNCHANGED <<input, found, pos, relocs, mvfnAt, ptrs, rela, tailOff, relaCount>>

(* update_relocs_sym.  libelf refuses an entry beyond the end of the       *)
(* copied section data: main does not catch the exception.                 *)
Relative(fields) ==
  [i \in DOMAIN fields |-> [at |-> fields[i].at, to |-> fields[i].to, rel |-> TRUE]]
RelaOther ==
  [i \in DOMAIN relaOther |->
     [at |-> 0 - relaOther[i], to |-> Thing("other", relaOther[i]),
      rel |-> others[relaOther[i]]]]

(* Mutant: the other relocations stay in front. *)
TableOthersFirst ==
  RelaOther \o Relative(relocs["data"]) \o Relative(relocs["mvvar"])
  \o Relative(relocs["mvdata"]) \o Relative(relocs["mvfn"]) \o Relative(relocs["mvcs"])

Table ==
  Relative(relocs["data"]) \o Relative(relocs["mvvar"]) \o Relative(relocs["mvdata"])
  \o Relative(relocs["mvfn"]) \o Relative(relocs["mvcs"]) \o RelaOther

UpdateRelocs ==
  /\ pc = "relocs"
  /\ Len(Table) <= Capacity
  /\ pc' = "shift"
  /\ rela' = Table
  /\ relaCount' = Cardinality({i \in DOMAIN Table : Table[i].rel})
  /\ UNCHANGED <<input, found, pos, out, relocs, mvfnAt, ptrs, filesz, tailOff>>

UpdateRelocsThrows ==
  /\ pc = "relocs"
  /\ Len(Table) > Capacity
  /\ pc' = "aborted"
  /\ UNCHANGED <<input, found, pos, out, relocs, mvfnAt, ptrs, rela,
                 filesz, tailOff, relaCount>>

(* The rest of write: sections behind the area, and the section table,     *)
(* move down by as much as .bss grew in memory.                            *)
BssGrowth == out["bss"].size - bssSize

(* Mutant: the section right behind the area is not moved. *)
ShiftedStrictly(off) == IF off <= area.offEnd THEN off ELSE off - BssGrowth

Shifted(off) == IF off < area.offEnd THEN off ELSE off - BssGrowth

ShiftSections ==
  /\ pc = "shift" /\ pc' = "done"
  /\ tailOff' = [i \in DOMAIN tailOff |-> Shifted(tailOff[i])]
  /\ out' = [p \in DOMAIN out |->
               IF p = "bss" \/ Absent(p) THEN out[p]
               ELSE [out[p] EXCEPT !.off = Shifted(out[p].off)]]
  /\ UNCHANGED <<input, found, pos, relocs, mvfnAt, ptrs, rela, filesz, relaCount>>

Exited == pc \in {"done", "aborted", "refused"} /\ UNCHANGED vars

Next ==
  \/ TryPhdr \/ PhdrsDone
  \/ GenerateData \/ GenerateFn \/ GenerateVar \/ GenerateCs \/ GenerateBss
  \/ UpdateRelocs \/ UpdateRelocsThrows \/ ShiftSections \/ Exited

Spec == Init /\ [][Next]_vars
-----------------------------------------------------------------------------
(* Properties. *)

TypeOK ==
  /\ exe \in Exes /\ fpic \in BOOLEAN /\ removed \in BOOLEAN
  /\ ndx \in 1 .. Len(Phdrs) + 1
  /\ frozen \subseteq Range(Vars) /\ fixed \subseteq Range(Fns)
  /\ pos \in 0 .. AreaSize
  /\ \A p \in Part \cup {"bss"} :
       out[p].off \in Nat /\ out[p].at \in Nat /\ out[p].size \in Nat
  /\ filesz \in 0 .. AreaSize
  /\ \A i \in DOMAIN tailOff : tailOff[i] \in Nat

(* "Copy & find area segments" (bintail.cc:312): the area write fills is   *)
(* the one the multiverse sections had, whatever order the linker gave     *)
(* them, from the first of them to .bss and the end of the segment.  No    *)
(* executable is refused but for a section that is missing, or a .bss with *)
(* nothing in it, which no segment is found to hold.                       *)
AreaExact ==
  /\ pc \notin {"phdrs", "refused"} =>
       area = [found |-> TRUE, off |-> areaOff, at |-> areaAt,
               offEnd |-> AreaEnd, atEnd |-> VaddrEnd]
  /\ pc = "refused" => bssSize = 0 \/ \E p \in Part : Missing(p)

Kept(vec, Keep(_)) ==
  FlattenSeq([i \in DOMAIN vec |-> IF ~removed /\ Keep(vec[i]) THEN <<vec[i]>> ELSE <<>>])

Holds(part, a, to) == Field(a, to) \in out[part].fields

(* Reading the output back, as Bintail's constructor or the runtime does,  *)
(* finds between the start and stop pointers exactly the descriptors that  *)
(* were not dropped, in order and none cut off; from each function its     *)
(* variants; from each variant its assignments.                            *)
Lists(part, size, skip, kind, kept) ==
  /\ ptrs[part].stop - ptrs[part].start = size * Len(kept)
  /\ \A i \in DOMAIN kept :
       Holds(part, ptrs[part].start + size * (i - 1) + skip, Thing(kind, kept[i]))

VariantsFound(f, a) ==
  \E d \in areaAt .. VaddrEnd :
    /\ Holds("mvfn", a + 3, At(d))
    /\ \A k \in DOMAIN nAssigns[f] :
         /\ Holds("mvdata", d + MvfnSize * (k - 1), Thing("mvbody", <<f, k>>))
         /\ \E q \in areaAt .. VaddrEnd :
              /\ Holds("mvdata", d + MvfnSize * (k - 1) + 2, At(q))
              /\ \A i \in 1 .. nAssigns[f][k] :
                   Holds("mvdata", q + AssignSize * (i - 1), Thing("assign", <<f, k, i>>))

ReadsBack ==
  pc = "done" =>
    /\ Lists("mvvar", VarSize, 0, "name", Kept(Vars, KeepVar))
    /\ Lists("mvcs", SiteSize, 1, "label", Kept(Sites, KeepSite))
    /\ Lists("mvfn", FnSize, 0, "name", Kept(Fns, KeepFn))
    /\ \A i \in DOMAIN Kept(Fns, KeepFn) :
         VariantsFound(Kept(Fns, KeepFn)[i], ptrs["mvfn"].start + FnSize * (i - 1))

(* A position independent output relocates every pointer of a descriptor   *)
(* and every boundary pointer once, to what it points to, and nothing      *)
(* else: no entry of a dropped descriptor is left to be applied over .bss. *)
Pointers ==
  (UNION {out[p].fields : p \in Part})
  \cup {Field(ptrAt[p].start, At(ptrs[p].start)) : p \in Bounded}
  \cup {Field(ptrAt[p].stop, At(ptrs[p].stop)) : p \in Bounded}

RelocsMatchPointers ==
  pc = "done" =>
    LET mine == {i \in DOMAIN rela : rela[i].at >= 0}
    IN /\ {Field(rela[i].at, rela[i].to) : i \in mine} = IF fpic THEN Pointers ELSE {}
       /\ \A i, j \in mine : rela[i].at = rela[j].at => i = j

(* DT_RELACOUNT promises the loader that the relative relocations are the  *)
(* first ones of the table.                                                *)
RelativeFirst ==
  pc \in {"shift", "done"} =>
    \A i \in DOMAIN rela : rela[i].rel <=> i <= relaCount

(* The memory of the segment stays covered: .bss starts where the kept     *)
(* descriptors end, still holds every variable it held, and ends where it  *)
(* ended.                                                                  *)
MemoryCovered ==
  pc \in {"relocs", "shift", "done"} =>
    /\ out["bss"].at <= BssAt
    /\ out["bss"].at + out["bss"].size = VaddrEnd
    /\ \A p \in Part : out[p].at + out[p].size <= out["bss"].at
    /\ \A p, q \in Part : p # q => \/ out[p].at + out[p].size <= out[q].at
                                  \/ out[q].at + out[q].size <= out[p].at

(* What the loader maps at the address of a section is that section: the   *)
(* file part of the segment ends with the last descriptor, what follows is *)
(* zero.                                                                   *)
SegmentLoads ==
  pc = "done" =>
    /\ \A p \in Part : out[p].size > 0 =>
         /\ out[p].at - out[p].off = areaAt - areaOff
         /\ out[p].off + out[p].size <= areaOff + filesz
    /\ out["bss"].at >= areaAt + filesz

(* "shift sections after area" (bintail.cc:376): nothing in the file       *)
(* overlaps; the sections behind the area stay behind what is left of it,  *)
(* in order, and the section table behind them.                            *)
FileDisjoint ==
  pc = "done" =>
    /\ tailOff[1] >= areaOff + filesz
    /\ \A i \in DOMAIN tail : tailOff[i] + tail[i] <= tailOff[i + 1]

(* The abstract promise.  Looking for the area, and the relocations, do    *)
(* not show in it.                                                         *)
PartSeq == <<"mvdata", "mvfn", "mvvar", "mvcs">>
Where(p) == [off |-> out[p].off, at |-> out[p].at, size |-> out[p].size]
LayoutStep ==
  IF pc \in Range(PartSeq)
    THEN CHOOSE i \in 0 .. 3 : PartSeq[i + 1] = pc
    ELSE CASE pc \in {"phdrs", "refused"} -> 0
           [] pc = "bss" -> 4
           [] pc \in {"relocs", "aborted", "shift"} -> 5
           [] pc = "done" -> 6
L == INSTANCE AreaLayout WITH
       room <- [i \in 1 .. 4 |-> SizeIn(PartSeq[i])],
       step <- LayoutStep,
       place <- [i \in 1 .. 4 |-> Where(PartSeq[i])],
       bss <- Where("bss")

RefinesAreaLayout == L!LSpec

(* The promise of the usage lines of the README: an output is written.     *)
(* Violated: a function without variants has two relocations in the input  *)
(* and three in the output.                                                *)
WriteSucceeds == pc # "aborted"
=============================================================================
