-------------------------- MODULE AreaLayout_proofs --------------------------
(***************************************************************************)
(* The layout of AreaLayout, and with it of every output that refines it,  *)
(* is sound whatever the sizes: proofs of LCovered, LLoads and LTail.      *)
(*                                                                         *)
(* The invariant says of the sections placed so far that they lie, in      *)
(* order, in the pos words that are used, and that these are no more than  *)
(* the sections had.                                                       *)
(***************************************************************************)
EXTENDS AreaLayout, TLAPS

Placed == {i \in Slot : i <= step}

(* Room of the first n sections. *)
RoomOf(n) ==
  (IF n >= 1 THEN room[1] ELSE 0) + (IF n >= 2 THEN room[2] ELSE 0)
  + (IF n >= 3 THEN room[3] ELSE 0) + (IF n >= 4 THEN room[4] ELSE 0)

TypeInv ==
  /\ room \in [Slot -> Nat]
  /\ step \in 0 .. 6
  /\ pos \in Nat
  /\ place \in [Slot -> [off : Nat, at : Nat, size : Nat]]
  /\ bss \in [off : Nat, at : Nat, size : Int]
  /\ filesz \in Nat
  /\ tailOff \in [1 .. Len(tail) + 1 -> Int]

(* The slots are packed one behind the other into what they had. *)
PackInv ==
  /\ pos <= RoomOf(step)
  /\ \A i \in Placed :
       \/ place[i] = Nowhere
       \/ /\ place[i].at >= areaAt
          /\ place[i].at + place[i].size <= areaAt + pos
          /\ place[i].at - place[i].off = areaAt - areaOff
  /\ \A i, j \in Placed : i < j =>
       \/ place[i].at + place[i].size <= place[j].at
       \/ place[j] = Nowhere

BssInv ==
  IF step <= 4 THEN bss = [off |-> AreaEnd, at |-> BssAt, size |-> bssSize]
  ELSE /\ bss = [off |-> areaOff + pos, at |-> areaAt + pos,
                 size |-> VaddrEnd - (areaAt + pos)]
       /\ filesz = pos

TailInv ==
  /\ Ordered(tailOff)
  /\ tailOff[1] = IF step = 6 THEN AreaEnd - (Room - pos) - bssPad ELSE AreaEnd

LInv == TypeInv /\ PackInv /\ BssInv /\ TailInv

LEMMA RoomTypes ==
  ASSUME AreaSizes, room \in [Slot -> Nat]
  PROVE  Room \in Nat /\ AreaEnd \in Nat /\ BssAt \in Nat /\ VaddrEnd \in Nat
<1>1. room[1] \in Nat /\ room[2] \in Nat /\ room[3] \in Nat /\ room[4] \in Nat
  BY DEF Slot
<1>2. Room \in Nat
  BY <1>1 DEF Room
<1>3. areaOff \in Nat /\ areaAt \in Nat /\ bssPad \in Nat /\ bssSize \in Nat
  BY DEF AreaSizes
<1> HIDE DEF Room
<1>4. AreaEnd \in Nat /\ BssAt \in Nat
  BY <1>2, <1>3 DEF AreaEnd, BssAt
<1> QED BY <1>2, <1>3, <1>4 DEF VaddrEnd

LEMMA PlacedGrows ==
  ASSUME step \in 0 .. 3, step' = step + 1
  PROVE  /\ Placed' = Placed \cup {step + 1}
         /\ \A i \in Placed : i \in Slot /\ i < step + 1
<1>1. ASSUME NEW i PROVE i \in Placed' <=> i \in Slot /\ i <= step + 1
  BY DEF Placed, Slot
<1>2. ASSUME NEW i PROVE i \in Placed <=> i \in Slot /\ i <= step
  BY DEF Placed
<1>3. step + 1 \in Slot /\ \A i \in Slot : i <= step + 1 <=> i <= step \/ i = step + 1
  BY DEF Slot
<1>4. \A i \in Slot : i <= step => i < step + 1
  BY DEF Slot
<1> QED BY <1>1, <1>2, <1>3, <1>4

LEMMA InitInv == ASSUME AreaSizes PROVE LInit => LInv
<1> SUFFICES ASSUME LInit PROVE LInv
  OBVIOUS
<1>1. Room \in Nat /\ AreaEnd \in Nat /\ BssAt \in Nat /\ bssSize \in Nat
  BY RoomTypes DEF LInit, AreaSizes
<1>2. TypeInv
  <2>1. tailOff \in [1 .. Len(tail) + 1 -> Int]
    BY DEF LInit
  <2>2. bss \in [off : Nat, at : Nat, size : Int]
    BY <1>1 DEF LInit
  <2> QED BY <1>1, <2>1, <2>2 DEF LInit, TypeInv
<1>3. Placed = {}
  <2>1. step = 0
    BY DEF LInit
  <2> QED BY <2>1 DEF Placed, Slot
<1>4. PackInv
  <2>1. step = 0 /\ pos = 0
    BY DEF LInit
  <2>2. RoomOf(step) = 0
    BY <2>1 DEF RoomOf
  <2> QED BY <1>3, <2>1, <2>2 DEF PackInv
<1>5. BssInv /\ TailInv
  BY DEF LInit, BssInv, TailInv
<1> QED BY <1>2, <1>4, <1>5 DEF LInv

(* Room of a section more. *)
LEMMA RoomGrows ==
  ASSUME TypeInv, step < 4
  PROVE  /\ RoomOf(step) \in Nat /\ RoomOf(step + 1) = RoomOf(step) + room[step + 1]
         /\ step + 1 \in Slot
<1>1. step \in 0 .. 3
  BY DEF TypeInv
<1>2. room[1] \in Nat /\ room[2] \in Nat /\ room[3] \in Nat /\ room[4] \in Nat
  BY DEF TypeInv, Slot
<1> QED BY <1>1, <1>2 DEF RoomOf, Slot

LEMMA NextInv == ASSUME AreaSizes PROVE LInv /\ [LNext]_lvars => LInv'
<1> SUFFICES ASSUME LInv, [LNext]_lvars PROVE LInv'
  OBVIOUS
<1> USE DEF LInv
<1>0. areaOff \in Nat /\ areaAt \in Nat /\ bssPad \in Nat /\ bssSize \in Nat
  BY DEF AreaSizes
<1>1. ASSUME NEW n \in 0 .. Room, Pack(n) PROVE LInv'
  <2> DEFINE k == step + 1
             new == [off |-> areaOff + pos, at |-> areaAt + pos, size |-> n]
  <2>1. k \in Slot /\ RoomOf(k) = RoomOf(step) + room[k] /\ RoomOf(step) \in Nat /\ room[k] \in Nat
    BY <1>1, RoomGrows DEF Pack, TypeInv
  <2>2. n \in Nat /\ n <= room[k]
    BY <1>1, <2>1 DEF Pack, TypeInv, Room, Slot
  <2>3. step' = k /\ pos' = pos + n /\ place' = [place EXCEPT ![k] = new]
        /\ UNCHANGED <<room, bss, filesz, tailOff>>
    BY <1>1 DEF Pack
  <2>4. new \in [off : Nat, at : Nat, size : Nat]
    BY <1>0, <2>2 DEF TypeInv
  <2>5. TypeInv'
    <3>1. step' \in 0 .. 6 /\ pos' \in Nat
      BY <2>1, <2>2, <2>3 DEF TypeInv, Slot
    <3>2. place' \in [Slot -> [off : Nat, at : Nat, size : Nat]]
      BY <2>3, <2>4 DEF TypeInv
    <3> QED BY <2>3, <3>1, <3>2 DEF TypeInv
  <2>6. (RoomOf(step))' = RoomOf(k)
    BY <2>3 DEF RoomOf
  <2>7. /\ Placed' = Placed \cup {k}
        /\ \A i \in Placed : i \in Slot /\ i < k
    <3>1. step \in 0 .. 3
      BY <1>1 DEF Pack, TypeInv
    <3> QED BY <2>3, <3>1, PlacedGrows
  <2>8. place'[k] = new /\ \A i \in Placed : place'[i] = place[i]
    <3>1. \A i \in Placed : i # k
      BY <2>1, <2>7 DEF Slot
    <3> QED BY <2>1, <2>3, <2>7, <3>1 DEF TypeInv
  <2>9. \A i \in Slot : place[i].off \in Nat /\ place[i].at \in Nat /\ place[i].size \in Nat
    BY DEF TypeInv
  <2>10. PackInv'
    <3>1. pos' <= (RoomOf(step))'
      BY <2>1, <2>2, <2>3, <2>6 DEF PackInv, TypeInv
    <3>2. ASSUME NEW i \in Placed' 
          PROVE  \/ place'[i] = Nowhere
                 \/ /\ place'[i].at >= areaAt
                    /\ place'[i].at + place'[i].size <= areaAt + pos'
                    /\ place'[i].at - place'[i].off = areaAt - areaOff
      <4>1. CASE i = k
        <5>1. /\ place'[i].off = areaOff + pos /\ place'[i].at = areaAt + pos
              /\ place'[i].size = n /\ pos' = pos + n
          BY <2>3, <2>8, <4>1
        <5>2. pos \in Nat
          BY DEF TypeInv
        <5> HIDE DEF k, new
        <5> QED BY <1>0, <2>2, <5>1, <5>2
      <4>2. CASE i \in Placed
        <5>1. /\ place'[i] = place[i] /\ pos' = pos + n
              /\ place[i].off \in Nat /\ place[i].at \in Nat /\ place[i].size \in Nat
          BY <2>3, <2>7, <2>8, <2>9, <4>2
        <5>2. \/ place[i] = Nowhere
              \/ /\ place[i].at >= areaAt
                 /\ place[i].at + place[i].size <= areaAt + pos
                 /\ place[i].at - place[i].off = areaAt - areaOff
          BY <4>2 DEF PackInv
        <5>3. pos \in Nat
          BY DEF TypeInv
        <5>4. CASE place[i] = Nowhere
          BY <5>1, <5>4
        <5>5. CASE place[i] # Nowhere
          BY <1>0, <2>2, <5>1, <5>2, <5>3, <5>5
        <5> QED BY <5>4, <5>5
      <4> QED BY <2>7, <4>1, <4>2
    <3>3. ASSUME NEW i \in Placed', NEW j \in Placed', i < j
          PROVE  \/ place'[i].at + place'[i].size <= place'[j].at
                 \/ place'[j] = Nowhere
      <4>1. i \in Placed
        <5>1. j <= k
          BY <2>1, <2>7, <3>3 DEF Slot
        <5>2. i # k
          BY <2>1, <2>7, <3>3, <5>1 DEF Slot
        <5> QED BY <2>7, <3>3, <5>2
      <4>2. CASE j = k
        <5>1. place'[j].at = areaAt + pos
          BY <2>8, <4>2
        <5>2. place'[i] = place[i]
          BY <2>8, <4>1
        <5>3. CASE place[i] = Nowhere
          BY <1>0, <5>1, <5>2, <5>3 DEF Nowhere, TypeInv
        <5>4. CASE place[i] # Nowhere
          BY <4>1, <5>1, <5>2, <5>4 DEF PackInv
        <5> QED BY <5>3, <5>4
      <4>3. CASE j \in Placed
        BY <2>8, <3>3, <4>1, <4>3 DEF PackInv
      <4> QED BY <2>7, <4>2, <4>3
    <3> QED BY <3>1, <3>2, <3>3 DEF PackInv
  <2>11. BssInv'
    BY <1>1, <2>1, <2>3 DEF BssInv, Pack, TypeInv, AreaEnd, BssAt, Room
  <2>12. TailInv'
    BY <1>1, <2>1, <2>3 DEF TailInv, Pack, TypeInv, AreaEnd, Room, Ordered
  <2> QED BY <2>5, <2>10, <2>11, <2>12
<1>2. CASE Skip
  <2>1. step + 1 \in Slot /\ RoomOf(step + 1) = RoomOf(step) + room[step + 1]
        /\ RoomOf(step) \in Nat /\ room[step + 1] \in Nat
    BY <1>2, RoomGrows DEF Skip, TypeInv
  <2>2. TypeInv'
    <3>1. step' \in 0 .. 6
      BY <1>2 DEF Skip, TypeInv
    <3> QED BY <1>2, <3>1 DEF Skip, TypeInv
  <2>3. (RoomOf(step))' = RoomOf(step + 1)
    BY <1>2 DEF Skip, RoomOf
  <2>4. /\ Placed' = Placed \cup {step + 1}
        /\ \A i \in Placed : i \in Slot /\ i < step + 1
    <3>1. step \in 0 .. 3 /\ step' = step + 1
      BY <1>2 DEF Skip, TypeInv
    <3> QED BY <3>1, PlacedGrows
  <2>6. PackInv'
    <3>1. pos' <= (RoomOf(step))'
      BY <1>2, <2>1, <2>3 DEF Skip, PackInv, TypeInv
    <3>2. ASSUME NEW i \in Placed', NEW j \in Placed', i < j
          PROVE  \/ place'[i].at + place'[i].size <= place'[j].at
                 \/ place'[j] = Nowhere
      <4>1. CASE j = step + 1
        BY <1>2, <4>1 DEF Skip
      <4>2. CASE j \in Placed
        <5>1. i \in Placed
          BY <2>1, <2>4, <3>2, <4>2 DEF Slot
        <5> QED BY <1>2, <3>2, <4>2, <5>1 DEF Skip, PackInv
      <4> QED BY <2>4, <4>1, <4>2
    <3> QED BY <1>2, <2>4, <3>1, <3>2 DEF Skip, PackInv
  <2>7. BssInv' /\ TailInv'
    BY <1>2 DEF Skip, BssInv, TailInv, TypeInv, AreaEnd, BssAt, Room, Ordered
  <2> QED BY <2>2, <2>6, <2>7
<1>3. CASE GrowBss
  <2>1. Room \in Nat /\ VaddrEnd \in Nat
    BY RoomTypes DEF TypeInv
  <2>2. TypeInv'
    BY <1>0, <1>3, <2>1 DEF GrowBss, TypeInv
  <2>3. Placed' = Placed /\ (RoomOf(step))' = RoomOf(step)
    BY <1>3 DEF GrowBss, Placed, RoomOf, Slot
  <2>4. PackInv'
    BY <1>3, <2>3 DEF GrowBss, PackInv
  <2>5. BssInv' /\ TailInv'
    BY <1>3 DEF GrowBss, BssInv, TailInv, VaddrEnd, AreaEnd, BssAt, Room, Ordered
  <2> QED BY <2>2, <2>4, <2>5
<1>4. CASE MoveTail
  <2>1. Room \in Nat /\ bss.size = Room + bssPad + bssSize - pos
    <3>1. Room \in Nat
      BY RoomTypes DEF TypeInv
    <3>2. step = 5 /\ pos \in Nat
      BY <1>4 DEF MoveTail, TypeInv
    <3>3. bss.size = VaddrEnd - (areaAt + pos)
      BY <3>2 DEF BssInv
    <3> HIDE DEF LInv
    <3> QED BY <1>0, <3>1, <3>2, <3>3 DEF VaddrEnd, BssAt
  <2> DEFINE d == bss.size - bssSize
  <2>2. d \in Int /\ d = Room + bssPad - pos
    BY <1>0, <2>1 DEF TypeInv
  <2> HIDE DEF d
  <2>3. tailOff' = [i \in 1 .. Len(tail) + 1 |-> tailOff[i] - d]
    BY <1>4 DEF MoveTail, TypeInv, d
  <2>4. Len(tail) \in Nat /\ DOMAIN tail = 1 .. Len(tail) /\ \A i \in DOMAIN tail : tail[i] \in Nat
    BY DEF AreaSizes
  <2>5. TypeInv'
    BY <1>4, <2>2, <2>3 DEF MoveTail, TypeInv
  <2>6. Placed' = Placed /\ (RoomOf(step))' = RoomOf(step)
    BY <1>4 DEF MoveTail, Placed, RoomOf, Slot
  <2>7. PackInv' /\ BssInv'
    BY <1>4, <2>6 DEF MoveTail, PackInv, BssInv, VaddrEnd, AreaEnd, BssAt, Room
  <2>8. Ordered(tailOff')
    <3> SUFFICES ASSUME NEW i \in DOMAIN tail
                 PROVE  tailOff'[i] + tail[i] <= tailOff'[i + 1]
      BY DEF Ordered
    <3>1. i \in 1 .. Len(tail) + 1 /\ i + 1 \in 1 .. Len(tail) + 1
      BY <2>4
    <3>2. tailOff[i] + tail[i] <= tailOff[i + 1]
      BY DEF TailInv, Ordered
    <3>3. tailOff[i] \in Int /\ tailOff[i + 1] \in Int /\ tail[i] \in Nat
      BY <2>4, <3>1 DEF TypeInv
    <3> QED BY <2>2, <2>3, <3>1, <3>2, <3>3
  <2>9. tailOff'[1] = AreaEnd - (Room - pos) - bssPad
    <3>1. tailOff[1] = AreaEnd
      BY <1>4 DEF TailInv, MoveTail
    <3> QED BY <1>0, <2>1, <2>2, <2>3, <2>4, <3>1 DEF AreaEnd, TypeInv
  <2>10. TailInv'
    BY <1>4, <2>8, <2>9 DEF TailInv, MoveTail, AreaEnd, Room, Ordered
  <2> QED BY <2>5, <2>7, <2>10
<1>5. CASE UNCHANGED lvars
  BY <1>5 DEF lvars, TypeInv, PackInv, BssInv, TailInv, Placed, RoomOf, AreaEnd, BssAt,
              VaddrEnd, Room, Ordered
<1> QED BY <1>1, <1>2, <1>3, <1>4, <1>5 DEF LNext

LEMMA LayoutInvariant == ASSUME AreaSizes PROVE LSpec => []LInv
  BY InitInv, NextInv, PTL DEF LSpec

(* With all four placed, they take no more than they had. *)
LEMMA PackedFits ==
  ASSUME LInv, step >= 5
  PROVE  Placed = Slot /\ pos <= Room /\ Room \in Nat /\ pos \in Nat
<1>1. room[1] \in Nat /\ room[2] \in Nat /\ room[3] \in Nat /\ room[4] \in Nat /\ step \in 0 .. 6
  BY DEF LInv, TypeInv, Slot
<1>2. RoomOf(step) = Room
  BY <1>1 DEF RoomOf, Room
<1>3. Room \in Nat
  BY <1>1 DEF Room
<1>4. Placed = Slot
  BY <1>1 DEF Placed, Slot
<1> QED BY <1>2, <1>3, <1>4 DEF LInv, PackInv, TypeInv

(* The sections and .bss share the memory they had without overlap, and    *)
(* .bss starts no later than before (BssSection::generate).                *)
THEOREM LayoutCovers == ASSUME AreaSizes PROVE LSpec => []LCovered
<1>1. LInv => LCovered
  <2> SUFFICES ASSUME LInv, step >= 5
               PROVE  /\ bss.at <= BssAt
                      /\ bss.at + bss.size = VaddrEnd
                      /\ \A i \in Slot : place[i].at + place[i].size <= bss.at
                      /\ \A i, j \in Slot : i < j =>
                           \/ place[i].at + place[i].size <= place[j].at
                           \/ place[j] = Nowhere
    BY DEF LCovered
  <2>1. areaOff \in Nat /\ areaAt \in Nat /\ bssPad \in Nat /\ bssSize \in Nat
    BY DEF AreaSizes
  <2>2. bss.at = areaAt + pos /\ bss.size = VaddrEnd - (areaAt + pos)
    BY DEF LInv, BssInv, TypeInv
  <2>3. bss.at <= BssAt /\ bss.at + bss.size = VaddrEnd
    BY <2>1, <2>2, PackedFits DEF BssAt, VaddrEnd
  <2>4. ASSUME NEW i \in Slot PROVE place[i].at + place[i].size <= bss.at
    BY <2>1, <2>2, PackedFits DEF LInv, PackInv, Nowhere
  <2> QED BY <2>3, <2>4, PackedFits DEF LInv, PackInv
<1> QED BY <1>1, LayoutInvariant, PTL

(* Offsets and addresses stay in step, and the file part of the segment    *)
(* ends with the last section (InfoArea::generate).                        *)
THEOREM LayoutLoads == ASSUME AreaSizes PROVE LSpec => []LLoads
<1>1. LInv => LLoads
  <2> SUFFICES ASSUME LInv, step >= 5
               PROVE  /\ \A i \in Slot : place[i].size > 0 =>
                           /\ place[i].at - place[i].off = areaAt - areaOff
                           /\ place[i].off + place[i].size <= areaOff + filesz
                      /\ bss.at >= areaAt + filesz
    BY DEF LLoads
  <2>1. areaOff \in Nat /\ areaAt \in Nat
    BY DEF AreaSizes
  <2>2. bss.at = areaAt + pos /\ filesz = pos
    BY DEF LInv, BssInv, TypeInv
  <2>3. ASSUME NEW i \in Slot, place[i].size > 0
        PROVE  /\ place[i].at - place[i].off = areaAt - areaOff
               /\ place[i].off + place[i].size <= areaOff + filesz
    <3>1. place[i] # Nowhere
      BY <2>3 DEF Nowhere
    <3>2. place[i].off \in Nat /\ place[i].at \in Nat /\ place[i].size \in Nat
      BY DEF LInv, TypeInv
    <3> QED BY <2>1, <2>2, <3>1, <3>2, PackedFits DEF LInv, PackInv
  <2> QED BY <2>1, <2>2, <2>3, PackedFits
<1> QED BY <1>1, LayoutInvariant, PTL

(* The tail moves as a whole, bssPad words too far. *)
THEOREM TailFollows == ASSUME AreaSizes PROVE LSpec => []LTail
<1>1. LInv => LTail
  <2> SUFFICES ASSUME LInv, step = 6 PROVE tailOff[1] = areaOff + filesz - bssPad
    BY DEF LTail, LInv, TailInv
  <2>1. areaOff \in Nat /\ bssPad \in Nat
    BY DEF AreaSizes
  <2>2. filesz = pos /\ tailOff[1] = AreaEnd - (Room - pos) - bssPad
    BY DEF LInv, BssInv, TailInv
  <2> QED BY <2>1, <2>2, PackedFits DEF AreaEnd
<1> QED BY <1>1, LayoutInvariant, PTL
=============================================================================
