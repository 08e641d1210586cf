---------------------------- MODULE SectionFilter ----------------------------
(***************************************************************************)
(* The loop of Bintail::init_write over the sections of the input, and     *)
(* what write does to the numbers in headers afterwards.  Under -A the     *)
(* multiverse sections are not copied, so every section behind them gets a *)
(* smaller number, and what names a section by its number has to follow.   *)
(*                                                                         *)
(* A section is its number, 1 .. NScn; number 0 is "no section".           *)
(***************************************************************************)
EXTENDS Integers, Sequences, FiniteSets

CONSTANTS
  NScn,       \* sections of the input
  Removable,  \* the multiverse sections: is_needed returns its argument
  Handled,    \* the sections scn_handler has an entry for
  bssScn,     \* .bss
  dynScn,     \* .dynamic
  relocScn,   \* .rela.dyn
  shstrndx,   \* e_shstrndx of the input
  symScns,    \* st_shndx of the symbols: the sections that define one
  Word, Half  \* 2^32 and 2^16: sh_link is an Elf64_Word, the fields of the
              \* header are Elf64_Halfs

Scn == 1 .. NScn

ASSUME SectionAssumption ==
  /\ NScn \in Nat
  /\ Handled \subseteq Scn
  /\ Removable \subseteq Handled
  /\ {bssScn, dynScn} \subseteq Handled \ Removable
  /\ relocScn \in Scn \ Removable
  /\ shstrndx \in Scn \ Removable
  /\ symScns \subseteq Scn

ASSUME WidthAssumption ==
  /\ Half \in Nat /\ Word \in Nat
  /\ NScn + 1 < Half /\ Half <= Word

VARIABLES
  all,       \* the argument apply_all of init_write
  link,      \* sh_link of every section of the input
  scn,       \* the section the loop comes to next
  removed,   \* removed_scns
  out,       \* the sections of the output: copied from, sh_link
  outOf,     \* Section::scn_out of the handled sections, 0 for nullptr
  relocOut,  \* reloc_scn_out
  ehdr,      \* ehdr_out
  syms       \* st_shndx of the symbols of the output

vars == <<all, link, scn, removed, out, outOf, relocOut, ehdr, syms>>
-----------------------------------------------------------------------------
(* Mutant: is_needed is asked about apply_all, not its negation.            *)
NeededInverted(s) == s \in Removable => all

Needed(s) == s \in Removable => ~all

(* Mutant: the difference is signed. *)
MinusSigned(a, b, w) == a - b

(* Unsigned subtraction at a width. *)
Minus(a, b, w) == IF a >= b THEN a - b ELSE a - b + w

(* Mutant: the links are copied as they are. *)
OutLinkSame(l) == l

OutLink(l) == IF removed # 0 /\ l > 0 THEN Minus(l, removed, Word) ELSE l

Init ==
  /\ all \in BOOLEAN
  /\ link \in [Scn -> 0 .. NScn]
  /\ scn = 1
  /\ removed = 0
  /\ out = <<>>
  /\ outOf = [s \in Handled |-> 0]
  /\ relocOut = 0
  /\ ehdr = [shnum |-> NScn + 1, shstrndx |-> shstrndx]
  /\ syms = {}

DropScn ==
  /\ scn \in Scn
  /\ ~Needed(scn)
  /\ removed' = removed + 1
  /\ scn' = scn + 1
  /\ UNCHANGED <<all, link, out, outOf, relocOut, ehdr, syms>>

(* Mutant: the output section is taken to have the number of the input's.  *)
CopyScnSameNumber ==
  /\ scn \in Scn
  /\ Needed(scn)
  /\ out' = Append(out, [from |-> scn, link |-> OutLink(link[scn])])
  /\ outOf' = [s \in Handled |-> IF s = scn THEN scn ELSE outOf[s]]
  /\ relocOut' = IF scn = relocScn THEN scn ELSE relocOut
  /\ scn' = scn + 1
  /\ UNCHANGED <<all, link, removed, ehdr, syms>>

(* elf_newscn numbers the sections of the output in the order it is called. *)
CopyScn ==
  /\ scn \in Scn
  /\ Needed(scn)
  /\ out' = Append(out, [from |-> scn, link |-> OutLink(link[scn])])
  /\ outOf' = [s \in Handled |-> IF s = scn THEN Len(out) + 1 ELSE outOf[s]]
  /\ relocOut' = IF scn = relocScn THEN Len(out) + 1 ELSE relocOut
  /\ scn' = scn + 1
  /\ UNCHANGED <<all, link, removed, ehdr, syms>>

(* The sections whose header write makes anew, from that of the input:     *)
(* generate of the multiverse sections and of .bss, and Dynamic::write.    *)
Regenerated == Removable \cup {bssScn, dynScn}

CopyOf(i) == {s \in Regenerated : outOf[s] = i}

(* Whatever init_write had made of sh_link is lost with the old header.    *)
Rewritten ==
  [i \in DOMAIN out |->
     IF CopyOf(i) = {} THEN out[i]
     ELSE [out[i] EXCEPT !.link = link[CHOOSE s \in CopyOf(i) : TRUE]]]

(* Mutant: only the number of sections is adjusted. *)
AdjustedShnum == [ehdr EXCEPT !.shnum = Minus(@, removed, Half)]

Adjusted ==
  [shnum |-> Minus(ehdr.shnum, removed, Half),
   shstrndx |-> Minus(ehdr.shstrndx, removed, Half)]

(* Bintail::write: the headers are made anew, update_relocs_sym puts the   *)
(* symbols back as they were read, then the ELF header is adjusted.        *)
Write ==
  /\ scn = NScn + 1
  /\ out' = Rewritten
  /\ syms' = symScns
  /\ ehdr' = Adjusted
  /\ scn' = NScn + 2
  /\ UNCHANGED <<all, link, removed, outOf, relocOut>>

Written == scn = NScn + 2
Exited == Written /\ UNCHANGED vars

Next == DropScn \/ CopyScn \/ Write \/ Exited

Spec == Init /\ [][Next]_vars
-----------------------------------------------------------------------------
TypeOK ==
  /\ all \in BOOLEAN
  /\ link \in [Scn -> 0 .. NScn]
  /\ scn \in 1 .. NScn + 2
  /\ removed \in 0 .. NScn
  /\ out \in Seq([from : Scn, link : Nat])
  /\ outOf \in [Handled -> 0 .. NScn]
  /\ relocOut \in 0 .. NScn
  /\ ehdr \in [shnum : Nat, shstrndx : Nat]
  /\ syms \subseteq Scn

Dropped == IF all THEN Removable ELSE {}
Kept == Scn \ Dropped
Before(s) == {d \in Dropped : d < s}

(* The filter of init_write loses no section but the ones it means to, and *)
(* keeps the order of the others: no number changes but by the sections    *)
(* dropped in front.                                                       *)
FilterExact ==
  Written =>
    /\ {out[i].from : i \in DOMAIN out} = Kept
    /\ \A i, j \in DOMAIN out : i < j => out[i].from < out[j].from

(* The dropped sections that the link of the copy of s is reduced by:      *)
(* those passed so far (bintail.cc:356), but for a header made anew none.  *)
Subtracted(s) == IF s \in Regenerated THEN {} ELSE Before(s)

(* The reduction is right if it is by what was dropped in front of the     *)
(* section the link names.  A symbol table and its strings, both on the    *)
(* same side of the area, are such a pair; a .rela.text of --emit-relocs   *)
(* in front of the area is not, since .symtab is behind it; .dynamic is    *)
(* while .dynstr is in front of the area.                                  *)
LinkFits(s) == link[s] \in Kept /\ Before(link[s]) = Subtracted(s)

(* Where it is right, the link of the copy names the copy of what the link *)
(* of the original named, and "none" stays "none": nothing that write does *)
(* to headers after the loop of init_write undoes that.                    *)
LinksPreserved ==
  Written =>
    \A i \in DOMAIN out :
      LET s == out[i].from
      IN /\ link[s] = 0 => out[i].link = 0
         /\ LinkFits(s) =>
              /\ out[i].link \in DOMAIN out
              /\ out[out[i].link].from = link[s]

(* The header of the output counts its sections, and names the section of  *)
(* their names if nothing is dropped behind that one (bintail.cc:389).     *)
HeaderExact ==
  Written =>
    /\ ehdr.shnum = Len(out) + 1
    /\ Before(shstrndx) = Dropped =>
         /\ ehdr.shstrndx \in DOMAIN out
         /\ out[ehdr.shstrndx].from = shstrndx

(* generate and write_ptr work on scn_out: of a kept section it is its own *)
(* copy, of a dropped one nullptr, by which generate knows (mvscn.cc:127,  *)
(* 189, 248, 286); likewise for reloc_scn_out.                             *)
HandlersFollow ==
  Written =>
    /\ \A s \in Handled :
         IF s \in Kept
           THEN outOf[s] \in DOMAIN out /\ out[outOf[s]].from = s
           ELSE outOf[s] = 0
    /\ relocOut \in DOMAIN out
    /\ out[relocOut].from = relocScn

(* "Regenerate rela & sym table" (bintail.cc:232): the symbols of the      *)
(* output are defined in the sections they were defined in.  Violated      *)
(* under -A by every symbol of .bss and what follows.                      *)
SymbolsNameTheirSections ==
  Written =>
    \A s \in syms \cap Kept : s \in DOMAIN out /\ out[s].from = s
=============================================================================
