----------------------------- MODULE AreaLayout -----------------------------
(***************************************************************************)
(* What rewriting the multiverse sections promises about the layout,       *)
(* without descriptors, pointers or relocations: the four sections shrink  *)
(* in place, one after the other, .bss takes over the memory that is freed,*)
(* the file part of the segment ends with the last of them, and what       *)
(* follows in the file is moved down.                                      *)
(***************************************************************************)
EXTENDS Integers, Sequences

CONSTANTS
  areaOff, areaAt,  \* file offset and address of the area
  bssPad, bssSize,  \* alignment gap before .bss, size of .bss in the input
  tail              \* sizes of the sections behind the area in the file

(* Hypothesis of the theorems. *)
AreaSizes ==
  /\ areaOff \in Nat /\ areaAt \in Nat
  /\ bssPad \in Nat /\ bssSize \in Nat
  /\ tail \in Seq(Nat)

VARIABLES
  room,     \* sizes of the four sections in the input
  step,     \* how many are placed; 5: .bss as well; 6: and the tail is moved
  pos,      \* what they take
  place,    \* where they are
  bss,      \* where .bss is
  filesz,   \* file part of the segment, from areaOff on
  tailOff   \* offsets of the tail, and of the section table behind it

lvars == <<room, step, pos, place, bss, filesz, tailOff>>

Slot == 1 .. 4
Nowhere == [off |-> 0, at |-> 0, size |-> 0]
Room == room[1] + room[2] + room[3] + room[4]
AreaEnd == areaOff + Room
BssAt == areaAt + Room + bssPad
VaddrEnd == BssAt + bssSize

Ordered(offs) ==
  \A i \in DOMAIN tail : offs[i] + tail[i] <= offs[i + 1]

LInit ==
  /\ room \in [Slot -> Nat]
  /\ step = 0
  /\ pos = 0
  /\ place \in [Slot -> [off : Nat, at : Nat, size : Nat]]
  /\ bss = [off |-> AreaEnd, at |-> BssAt, size |-> bssSize]
  /\ filesz = Room
  /\ tailOff \in [1 .. Len(tail) + 1 -> Nat]
  /\ tailOff[1] = AreaEnd
  /\ Ordered(tailOff)

(* A section is packed behind the one before, or does not exist. *)
Pack(n) ==
  /\ step < 4
  /\ n <= room[step + 1]
  /\ place' = [place EXCEPT ![step + 1] =
                 [off |-> areaOff + pos, at |-> areaAt + pos, size |-> n]]
  /\ pos' = pos + n
  /\ step' = step + 1
  /\ UNCHANGED <<room, bss, filesz, tailOff>>

Skip ==
  /\ step < 4
  /\ place[step + 1] = Nowhere
  /\ step' = step + 1
  /\ UNCHANGED <<room, pos, place, bss, filesz, tailOff>>

GrowBss ==
  /\ step = 4
  /\ bss' = [off |-> areaOff + pos, at |-> areaAt + pos,
             size |-> VaddrEnd - (areaAt + pos)]
  /\ filesz' = pos
  /\ step' = 5
  /\ UNCHANGED <<room, pos, place, tailOff>>

(* The tail moves by what .bss grew. *)
MoveTail ==
  /\ step = 5
  /\ tailOff' = [i \in DOMAIN tailOff |-> tailOff[i] - (bss.size - bssSize)]
  /\ step' = 6
  /\ UNCHANGED <<room, pos, place, bss, filesz>>

LNext == (\E n \in 0 .. Room : Pack(n)) \/ Skip \/ GrowBss \/ MoveTail

LSpec == LInit /\ [][LNext]_lvars
-----------------------------------------------------------------------------
(* Memory stays covered: the sections do not overlap, .bss starts behind   *)
(* them, no later than before, and ends where it ended (mvscn.cc:333).     *)
LCovered ==
  step >= 5 =>
    /\ bss.at <= BssAt
    /\ bss.at + bss.size = VaddrEnd
    /\ \A i \in Slot : place[i].at + place[i].size <= bss.at
    /\ \A i, j \in Slot : i < j => \/ place[i].at + place[i].size <= place[j].at
                                  \/ place[j] = Nowhere

(* What is mapped at the address of a section is that section, and behind  *)
(* the last one there is nothing but zeros (mvscn.cc:87-91).               *)
LLoads ==
  step >= 5 =>
    /\ \A i \in Slot : place[i].size > 0 =>
         /\ place[i].at - place[i].off = areaAt - areaOff
         /\ place[i].off + place[i].size <= areaOff + filesz
    /\ bss.at >= areaAt + filesz

(* The tail keeps its order, and ends up bssPad words below the end of the *)
(* segment: right behind it exactly when .bss had no gap in front of it    *)
(* (bintail.cc:374-384).                                                   *)
LTail ==
  step = 6 =>
    /\ tailOff[1] = areaOff + filesz - bssPad
    /\ Ordered(tailOff)
=============================================================================
