--------------------------- MODULE PatchCodec_proofs ---------------------------
(***************************************************************************)
(* What patchpoint_apply writes, for every width of an operand, every body *)
(* and every distance: it fills the patch point and nothing else, and read *)
(* again is taken for a call of the variant or refused.                    *)
(***************************************************************************)
EXTENDS PatchCodec, SequenceTheorems, TLAPS

(* Numbers.  The operand of a branch that can reach its target leads there:*)
(* what patchpoint_apply cuts off, decode_callsite adds again.             *)
(* % on the two ranges of a displacement that 32 bits can express.         *)
LEMMA ModSmall ==
  ASSUME NEW x \in Int, NEW w \in Nat \ {0}, 0 <= x, x < w
  PROVE  x % w = x
  OBVIOUS

LEMMA ModNegative ==
  ASSUME NEW x \in Int, NEW w \in Nat \ {0}, 0 - w <= x, x < 0
  PROVE  x % w = x + w
  OBVIOUS

(* The operand leads to the target, forwards and backwards.                *)
LEMMA BranchReaches ==
  ASSUME NEW target \in Nat, NEW at \in Nat,
         0 - HalfWord <= target - (at + 5), target - (at + 5) < HalfWord
  PROVE  at + Signed(Offset(target, at)) + 5 = target
<1> DEFINE d == target - (at + 5)
<1>1. HalfWord \in Nat /\ HalfWord > 0 /\ Word = 2 * HalfWord /\ Word \in Nat \ {0}
  BY CodecAssumption DEF Word
<1>2. d \in Int /\ Offset(target, at) = d % Word
  BY DEF Offset, Truncate
<1>3. CASE d >= 0
  <2>1. d % Word = d
    <3>1. 0 <= d /\ d < Word
      BY <1>1, <1>2, <1>3
    <3> HIDE DEF d
    <3> QED BY <1>1, <1>2, <3>1, ModSmall
  <2>2. Signed(d) = d
    BY <1>1, <1>3 DEF Signed
  <2> QED BY <1>2, <2>1, <2>2
<1>4. CASE d < 0
  <2>1. d % Word = d + Word
    <3>1. 0 - Word <= d /\ d < 0
      BY <1>1, <1>2, <1>4
    <3> HIDE DEF d
    <3> QED BY <1>1, <1>2, <3>1, ModNegative
  <2>2. Signed(d + Word) = d
    BY <1>1, <1>2, <1>4 DEF Signed
  <2> QED BY <1>2, <2>1, <2>2
<1> QED BY <1>2, <1>3, <1>4
-----------------------------------------------------------------------------
(* Bytes. *)
Sequence(s) == \E S : s \in Seq(S)

(* Concatenation, of sequences over different sets.                        *)
LEMMA Concatenated ==
  ASSUME NEW s, NEW t, Sequence(s), Sequence(t)
  PROVE  /\ Sequence(s \o t)
         /\ Len(s \o t) = Len(s) + Len(t)
         /\ Len(s) \in Nat /\ Len(t) \in Nat
         /\ \A i \in 1 .. Len(s) : (s \o t)[i] = s[i]
         /\ \A i \in 1 .. Len(t) : (s \o t)[Len(s) + i] = t[i]
<1>1. PICK S : s \in Seq(S)
  BY DEF Sequence
<1>2. PICK T : t \in Seq(T)
  BY DEF Sequence
<1>3. s \in Seq(S \cup T) /\ t \in Seq(S \cup T)
  BY <1>1, <1>2, SeqMonotonic
<1>4. Len(s) \in Nat /\ Len(t) \in Nat
  BY <1>1, <1>2, LenProperties
<1> QED BY <1>3, <1>4, ConcatProperties DEF Sequence

(* What is written over the first bytes of a place, and what stays.        *)
Written(s, code) == code \o SubSeq(s, Len(code) + 1, Len(s))

LEMMA Overwritten ==
  ASSUME NEW s, NEW code, Sequence(s), Sequence(code), Len(s) = Len(code) + 1
  PROVE  /\ Sequence(Written(s, code))
         /\ Len(Written(s, code)) = Len(s)
         /\ Written(s, code)[Len(s)] = s[Len(s)]
         /\ \A i \in 1 .. Len(code) : Written(s, code)[i] = code[i]
<1> DEFINE n == Len(code)
           last == SubSeq(s, n + 1, n + 1)
<1>1. PICK S : s \in Seq(S)
  BY DEF Sequence
<1>2. n \in Nat /\ Len(s) = n + 1
  BY LenProperties DEF Sequence
<1>3. last \in Seq(S) /\ Len(last) = 1 /\ last[1] = s[n + 1]
  BY <1>1, <1>2, SubSeqProperties
<1>4. Sequence(last)
  BY <1>3 DEF Sequence
<1>5. n = Len(code) /\ last = SubSeq(s, Len(code) + 1, Len(s))
  BY <1>2
<1> HIDE DEF last, n
<1>6. /\ Sequence(code \o last)
      /\ Len(code \o last) = Len(code) + Len(last)
      /\ \A i \in 1 .. Len(code) : (code \o last)[i] = code[i]
      /\ \A i \in 1 .. Len(last) : (code \o last)[Len(code) + i] = last[i]
  BY <1>4, Concatenated
<1>7. /\ Sequence(code \o last) /\ Len(code \o last) = n + 1
      /\ \A i \in 1 .. n : (code \o last)[i] = code[i]
      /\ (code \o last)[n + 1] = last[1]
  BY <1>3, <1>5, <1>6
<1>8. Written(s, code) = code \o last
  BY <1>5 DEF Written
<1> QED BY <1>2, <1>3, <1>7, <1>8 DEF n

(* The pieces code is put together from.                                   *)
LEMMA Immediate ==
  ASSUME NEW v
  PROVE  /\ Sequence(Imm(v)) /\ Len(Imm(v)) = 4
         /\ \A k \in 0 .. 3 : Imm(v)[1 + k] = <<"imm", v, k>>
<1>1. Imm(v) \in Seq({<<"imm", v, 0>>, <<"imm", v, 1>>, <<"imm", v, 2>>, <<"imm", v, 3>>})
  BY DEF Imm
<1>2. Sequence(Imm(v))
  BY <1>1 DEF Sequence
<1>3. Len(Imm(v)) = 4
  BY DEF Imm
<1>4. ASSUME NEW k \in 0 .. 3
      PROVE  Imm(v)[1 + k] = <<"imm", v, k>>
  <2>1. k = 0 \/ k = 1 \/ k = 2 \/ k = 3
    OBVIOUS
  <2> QED BY <2>1 DEF Imm
<1> QED BY <1>2, <1>3, <1>4

LEMMA OneByte ==
  ASSUME NEW b
  PROVE  Sequence(Byte(b)) /\ Len(Byte(b)) = 1 /\ Byte(b)[1] = <<b>>
<1>1. Byte(b) \in Seq({<<b>>})
  BY DEF Byte
<1> QED BY <1>1 DEF Sequence, Byte

LEMMA NoByte == Sequence(<<>>) /\ Len(<<>>) = 0
<1>1. <<>> \in Seq({})
  OBVIOUS
<1> QED BY <1>1 DEF Sequence

(* A run of opcodes, one byte each.                                        *)
LEMMA SomeBytes ==
  ASSUME NEW bs, Sequence(bs)
  PROVE  Sequence(Bytes(bs)) /\ Len(Bytes(bs)) = Len(bs)
         /\ \A i \in 1 .. Len(bs) : Bytes(bs)[i] = <<bs[i]>>
<1>1. PICK S : bs \in Seq(S)
  BY DEF Sequence
<1>2. Len(bs) \in Nat /\ DOMAIN bs = 1 .. Len(bs) /\ \A i \in 1 .. Len(bs) : bs[i] \in S
  BY <1>1, LenProperties, ElementOfSeq
<1>3. Bytes(bs) \in Seq({<<b>> : b \in S})
  BY <1>2 DEF Bytes
<1>4. Sequence(Bytes(bs))
  BY <1>3 DEF Sequence
<1>5. DOMAIN Bytes(bs) = 1 .. Len(bs) /\ \A i \in 1 .. Len(bs) : Bytes(bs)[i] = <<bs[i]>>
  BY <1>2 DEF Bytes
<1>6. Len(Bytes(bs)) = Len(bs)
  BY <1>2, <1>3, <1>5, LenProperties
<1> QED BY <1>4, <1>5, <1>6

(* The instructions bintail writes. *)
LEMMA OpcodeFirst ==
  ASSUME NEW op, NEW t, Sequence(t)
  PROVE  LET c == Byte(op) \o t
         IN /\ Sequence(c) /\ Len(c) = 1 + Len(t) /\ c[1] = <<op>>
            /\ \A i \in 1 .. Len(t) : c[1 + i] = t[i]
<1> DEFINE o == Byte(op)
<1>1. Sequence(o) /\ Len(o) = 1 /\ o[1] = <<op>>
  BY OneByte
<1> HIDE DEF o
<1>2. /\ Sequence(o \o t) /\ Len(o \o t) = Len(o) + Len(t)
      /\ \A i \in 1 .. Len(o) : (o \o t)[i] = o[i]
      /\ \A i \in 1 .. Len(t) : (o \o t)[Len(o) + i] = t[i]
  <2>1. Sequence(o)
    BY <1>1
  <2> QED BY ONLY <2>1, Sequence(t), Concatenated
<1>3. /\ Sequence(o \o t) /\ Len(o \o t) = 1 + Len(t) /\ (o \o t)[1] = <<op>>
      /\ \A i \in 1 .. Len(t) : (o \o t)[1 + i] = t[i]
  BY <1>1, <1>2
<1> QED BY <1>3 DEF o

(* An instruction of an opcode and a number.                               *)
LEMMA OpcodeAndOperand ==
  ASSUME NEW op, NEW v
  PROVE  LET c == Byte(op) \o Imm(v)
         IN /\ Sequence(c) /\ Len(c) = 5 /\ c[1] = <<op>>
            /\ \A k \in 0 .. 3 : c[2 + k] = <<"imm", v, k>>
<1> DEFINE c == Byte(op) \o Imm(v)
<1>1. Sequence(Imm(v)) /\ Len(Imm(v)) = 4
  BY Immediate
<1>2. /\ Sequence(c) /\ Len(c) = 1 + Len(Imm(v)) /\ c[1] = <<op>>
      /\ \A i \in 1 .. Len(Imm(v)) : c[1 + i] = Imm(v)[i]
  <2>1. Sequence(Imm(v))
    BY <1>1
  <2> QED BY ONLY <2>1, OpcodeFirst
<1> HIDE DEF c
<1>3. ASSUME NEW k \in 0 .. 3
      PROVE  c[2 + k] = <<"imm", v, k>>
  <2>1. 1 + k \in 1 .. Len(Imm(v)) /\ 1 + (1 + k) = 2 + k
    BY <1>1
  <2>2. Imm(v)[1 + k] = <<"imm", v, k>>
    BY Immediate
  <2> QED BY <1>2, <2>1, <2>2
<1> QED BY <1>1, <1>2, <1>3 DEF c

(* A call site and the instruction behind it.                              *)
LEMMA Followed ==
  ASSUME NEW c, Sequence(c), Len(c) > 0
  PROVE  LET r == c \o Byte("next")
         IN /\ Sequence(r) /\ Len(r) = Len(c) + 1
            /\ r[Len(r)] = <<"next">> /\ r[1] = c[1]
<1> DEFINE n == Byte("next")
<1>1. Sequence(n) /\ Len(n) = 1 /\ n[1] = <<"next">>
  BY OneByte
<1> HIDE DEF n
<1>2. /\ Sequence(c \o n) /\ Len(c \o n) = Len(c) + Len(n) /\ Len(c) \in Nat
      /\ \A i \in 1 .. Len(c) : (c \o n)[i] = c[i]
      /\ \A i \in 1 .. Len(n) : (c \o n)[Len(c) + i] = n[i]
  <2>1. Sequence(n)
    BY <1>1
  <2> QED BY ONLY <2>1, Sequence(c), Concatenated
<1>3. /\ Sequence(c \o n) /\ Len(c \o n) = Len(c) + 1
      /\ (c \o n)[Len(c) + 1] = <<"next">> /\ (c \o n)[1] = c[1]
  BY <1>1, <1>2
<1> QED BY <1>3 DEF n

(* The lengths of the nops, which the code gives as literals.              *)
LEMMA Nops ==
  /\ Sequence(Nop6) /\ Len(Nop6) = 6 /\ Nop6[1] = <<"66">>
  /\ Sequence(Nop5) /\ Len(Nop5) = 5 /\ Nop5[1] = <<"0f">> /\ Nop5[3] = <<"44">>
  /\ Sequence(Nop4) /\ Len(Nop4) = 4 /\ Nop4[1] = <<"0f">> /\ Nop4[3] = <<"40">>
<1> DEFINE n6 == <<"66", "0f", "1f", "44", "00", "00">>
           n5 == <<"0f", "1f", "44", "00", "00">>
           n4 == <<"0f", "1f", "40", "00">>
<1> DEFINE B == {"66", "0f", "1f", "44", "40", "00"}
<1>1. n6 \in Seq(B) /\ Len(n6) = 6 /\ n6[1] = "66"
  OBVIOUS
<1>2. n5 \in Seq(B) /\ Len(n5) = 5 /\ n5[1] = "0f" /\ n5[3] = "44"
  OBVIOUS
<1>3. n4 \in Seq(B) /\ Len(n4) = 4 /\ n4[1] = "0f" /\ n4[3] = "40"
  OBVIOUS
<1>4. Nop6 = Bytes(n6) /\ Nop5 = Bytes(n5) /\ Nop4 = Bytes(n4)
  BY DEF Nop6, Nop5, Nop4
<1> HIDE DEF n6, n5, n4
<1>5. Sequence(n6) /\ Sequence(n5) /\ Sequence(n4)
  BY <1>1, <1>2, <1>3 DEF Sequence
<1> QED BY <1>1, <1>2, <1>3, <1>4, <1>5, SomeBytes

(* The filler behind the code, which depends on the kind of call.          *)
LEMMA Padded ==
  ASSUME NEW c, NEW direct, NEW indirect,
         Sequence(c), Sequence(direct), Sequence(indirect)
  PROVE  LET r == c \o Trailing(direct, indirect)
         IN /\ Sequence(r)
            /\ Len(r) = Len(c) + IF pp = "indirect" THEN Len(indirect) ELSE Len(direct)
            /\ \A i \in 1 .. Len(c) : r[i] = c[i]
            /\ \A i \in 1 .. Len(Trailing(direct, indirect)) :
                 r[Len(c) + i] = Trailing(direct, indirect)[i]
<1>1. Sequence(Trailing(direct, indirect))
  BY DEF Trailing
<1>2. Len(Trailing(direct, indirect)) = IF pp = "indirect" THEN Len(indirect) ELSE Len(direct)
  BY DEF Trailing
<1> QED BY <1>1, <1>2, Concatenated
-----------------------------------------------------------------------------
(* The inductive invariant: what is at the place before it is decoded, and *)
(* what patchpoint_apply turned it into.                                   *)
CallBytes(s, v) == s[1] = <<"e8">> /\ \A k \in 0 .. 3 : s[2 + k] = <<"imm", v, k>>

Compiled ==
  /\ pp = "call" => Len(site) = 6 /\ site[1] = <<"e8">>
  /\ pp = "indirect" => Len(site) = 7 /\ site[1] = <<"ff">>
  /\ pp = "jump" => Len(site) = 6
  /\ pp = "tail" => Len(site) \in Nat \ {0} /\ site[1] = <<"e9">>

Filled == pp \in PPType /\ Len(site) = PPSize[pp] + 1

Recognizable ==
  pp # "jump" => CallBytes(site, Offset(to, loc)) \/ site[1] \notin {<<"e8">>, <<"ff">>}

PInv ==
  /\ loc \in Nat /\ to \in Nat
  /\ pc \in {"body", "site", "patch", "run", "done", "lost", "refused"}
  /\ Sequence(site) /\ site[Len(site)] = <<"next">>
  /\ pc \in {"body", "site"} => pp \in PPType \cup {"tail"} /\ Compiled
  /\ pc \in {"patch", "run", "done"} => Filled
  /\ pc \in {"run", "done"} => Recognizable

(* What the compiler left at a patch point, by its length and opcode.      *)
LEMMA OriginalShape ==
  ASSUME NEW t \in PPType \cup {"tail"}, NEW v
  PROVE  LET o == Original(t, v)
         IN /\ Sequence(o)
            /\ t = "call" => Len(o) = 5 /\ o[1] = <<"e8">>
            /\ t = "indirect" => Len(o) = 6 /\ o[1] = <<"ff">>
            /\ t = "jump" => Len(o) = 5
            /\ t = "tail" => Len(o) = 5 /\ o[1] = <<"e9">>
<1>1. CASE t = "call"
  BY <1>1, OpcodeAndOperand DEF Original
<1>2. CASE t = "indirect"
  <2> DEFINE b == <<"ff", "15">>
             p == Bytes(b)
  <2>1. Sequence(b) /\ Len(b) = 2 /\ b[1] = "ff"
    <3>1. b \in Seq({"ff", "15"})
      OBVIOUS
    <3> QED BY <3>1 DEF Sequence
  <2> HIDE DEF b
  <2>2. Sequence(p) /\ Len(p) = 2 /\ p[1] = <<"ff">>
    BY <2>1, SomeBytes
  <2>3. Sequence(Imm(v)) /\ Len(Imm(v)) = 4
    BY Immediate
  <2> HIDE DEF p
  <2>4. Sequence(p \o Imm(v)) /\ Len(p \o Imm(v)) = 6 /\ (p \o Imm(v))[1] = <<"ff">>
    <3>1. Sequence(p) /\ Sequence(Imm(v))
      BY <2>2, <2>3
    <3>2. /\ Sequence(p \o Imm(v)) /\ Len(p \o Imm(v)) = Len(p) + Len(Imm(v))
          /\ \A i \in 1 .. Len(p) : (p \o Imm(v))[i] = p[i]
      BY ONLY <3>1, Concatenated
    <3> QED BY <2>2, <2>3, <3>2
  <2> QED BY <1>2, <2>4 DEF Original, p, b
<1>3. CASE t = "jump"
  <2> DEFINE b == <<"work", "work", "work", "work", "work">>
  <2>1. Sequence(b) /\ Len(b) = 5
    <3>1. b \in Seq({"work"})
      OBVIOUS
    <3> QED BY <3>1 DEF Sequence
  <2> HIDE DEF b
  <2>2. Sequence(Bytes(b)) /\ Len(Bytes(b)) = 5
    BY <2>1, SomeBytes
  <2> QED BY <1>3, <2>2 DEF Original, b
<1>4. CASE t = "tail"
  BY <1>4, OpcodeAndOperand DEF Original
<1> QED BY <1>1, <1>2, <1>3, <1>4 DEF PPType
-----------------------------------------------------------------------------
(* Before decoding the place has the shape of its kind.                    *)
LEMMA InitPInv == Init => PInv
<1> SUFFICES ASSUME Init PROVE PInv
  OBVIOUS
<1>1. pc = "body" /\ loc \in Nat /\ to \in Nat /\ pp \in PPType \cup {"tail"}
  BY CodecAssumption DEF Init
<1>2. PICK v \in Immediates : site = Original(pp, v) \o Byte("next")
  BY DEF Init
<1> DEFINE o == Original(pp, v)
<1>3. /\ Sequence(o) /\ Len(o) > 0
      /\ pp = "call" => Len(o) = 5 /\ o[1] = <<"e8">>
      /\ pp = "indirect" => Len(o) = 6 /\ o[1] = <<"ff">>
      /\ pp = "jump" => Len(o) = 5
      /\ pp = "tail" => Len(o) = 5 /\ o[1] = <<"e9">>
  BY <1>1, OriginalShape DEF PPType
<1>4. site = o \o Byte("next")
  BY <1>2
<1> HIDE DEF o
<1>5. /\ Sequence(site) /\ Len(site) = Len(o) + 1
      /\ site[Len(site)] = <<"next">> /\ site[1] = o[1]
  BY <1>3, <1>4, Followed
<1>6. Compiled
  <2>1. CASE pp = "call"
    <3>1. Len(o) = 5 /\ o[1] = <<"e8">>
      BY <1>3, <2>1
    <3>2. Len(site) = 6 /\ site[1] = <<"e8">>
      BY <1>5, <3>1
    <3> QED BY <2>1, <3>2 DEF Compiled
  <2>2. CASE pp = "indirect"
    <3>1. Len(o) = 6 /\ o[1] = <<"ff">>
      BY <1>3, <2>2
    <3>2. Len(site) = 7 /\ site[1] = <<"ff">>
      BY <1>5, <3>1
    <3> QED BY <2>2, <3>2 DEF Compiled
  <2>3. CASE pp = "jump"
    <3>1. Len(o) = 5
      BY <1>3, <2>3
    <3>2. Len(site) = 6
      BY <1>5, <3>1
    <3> QED BY <2>3, <3>2 DEF Compiled
  <2>4. CASE pp = "tail"
    BY <1>3, <1>5, <2>4 DEF Compiled
  <2> QED BY <1>1, <2>1, <2>2, <2>3, <2>4 DEF PPType
<1> QED BY <1>1, <1>5, <1>6 DEF PInv

(* Code of five bytes, with the filler of an indirect call, fills a call.  *)
LEMMA PaddedCall ==
  ASSUME NEW c, Sequence(c), Len(c) = 5, pp \in PPType, pp # "jump"
  PROVE  LET code == c \o Trailing(<<>>, Byte("90"))
         IN /\ Sequence(code) /\ Len(code) = PPSize[pp]
            /\ code[1] = c[1] /\ \A i \in 1 .. Len(c) : code[i] = c[i]
            /\ pp = "indirect" => code[6] = <<"90">>
<1> DEFINE code == c \o Trailing(<<>>, Byte("90"))
<1>1. Sequence(<<>>) /\ Sequence(Byte("90"))
  BY NoByte, OneByte
<1>2. /\ Sequence(code)
      /\ Len(code) = Len(c) + IF pp = "indirect" THEN Len(Byte("90")) ELSE Len(<<>>)
      /\ \A i \in 1 .. Len(c) : code[i] = c[i]
      /\ \A i \in 1 .. Len(Trailing(<<>>, Byte("90"))) :
           code[Len(c) + i] = Trailing(<<>>, Byte("90"))[i]
  <2> DEFINE e == <<>>
             n == Byte("90")
  <2>1. Sequence(e) /\ Sequence(n)
    BY <1>1
  <2> HIDE DEF e, n
  <2>2. LET r == c \o Trailing(e, n)
        IN /\ Sequence(r)
           /\ Len(r) = Len(c) + IF pp = "indirect" THEN Len(n) ELSE Len(e)
           /\ \A i \in 1 .. Len(c) : r[i] = c[i]
           /\ \A i \in 1 .. Len(Trailing(e, n)) : r[Len(c) + i] = Trailing(e, n)[i]
    BY ONLY <2>1, Sequence(c), Padded
  <2> QED BY <2>2 DEF e, n
<1>3. Len(<<>>) = 0 /\ Len(Byte("90")) = 1 /\ Byte("90")[1] = <<"90">>
  BY NoByte, OneByte
<1>6. pp = "indirect" => code[6] = <<"90">>
  <2> SUFFICES ASSUME pp = "indirect" PROVE code[6] = <<"90">>
    OBVIOUS
  <2>1. Trailing(<<>>, Byte("90")) = Byte("90")
    BY DEF Trailing
  <2>2. 1 \in 1 .. Len(Trailing(<<>>, Byte("90"))) /\ Len(c) + 1 = 6
    BY <1>3, <2>1
  <2> HIDE DEF code
  <2>3. code[Len(c) + 1] = Trailing(<<>>, Byte("90"))[1]
    BY <1>2, <2>2
  <2> QED BY <1>3, <2>1, <2>2, <2>3
<1> HIDE DEF code
<1>4. Len(code) = PPSize[pp]
  <2>1. CASE pp = "indirect"
    <3>1. Len(code) = 5 + 1
      BY <1>2, <1>3, <2>1
    <3> QED BY <2>1, <3>1 DEF PPSize
  <2>2. CASE pp = "call"
    <3>1. Len(code) = 5 + 0
      BY <1>2, <1>3, <2>2
    <3> QED BY <2>2, <3>1 DEF PPSize
  <2> QED BY <2>1, <2>2 DEF PPType
<1>5. code[1] = c[1]
  BY <1>2
<1> QED BY <1>2, <1>4, <1>5, <1>6 DEF code

(* What a patch leaves, whichever code patchpoint_apply chose.             *)
LEMMA PatchPInv ==
  ASSUME PInv, NEW code, pc = "patch", Patch(code),
         Sequence(code), Len(code) = PPSize[pp],
         pp # "jump" => CallBytes(code, Offset(to, loc)) \/ code[1] \notin {<<"e8">>, <<"ff">>}
  PROVE  PInv'
<1>1. /\ Sequence(site) /\ Filled /\ site[Len(site)] = <<"next">>
      /\ loc \in Nat /\ to \in Nat
  BY DEF PInv
<1>2. Len(site) = Len(code) + 1 /\ Len(code) \in {5, 6}
  BY <1>1 DEF Filled, PPSize, PPType
<1>3. /\ Sequence(site') /\ Len(site') = Len(site) /\ site'[Len(site')] = site[Len(site)]
      /\ \A i \in 1 .. Len(code) : site'[i] = code[i]
  <2>1. Sequence(site) /\ Len(site) = Len(code) + 1
    BY <1>1, <1>2
  <2>2. /\ Sequence(Written(site, code)) /\ Len(Written(site, code)) = Len(site)
        /\ Written(site, code)[Len(site)] = site[Len(site)]
        /\ \A i \in 1 .. Len(code) : Written(site, code)[i] = code[i]
    BY ONLY <2>1, Sequence(code), Overwritten
  <2>3. site' = Written(site, code)
    BY DEF Patch, Overwrite, Written
  <2> QED BY <2>2, <2>3
<1>4. Filled'
  BY <1>1, <1>3 DEF Filled, Patch
<1>5. Recognizable'
  <2>1. site'[1] = code[1] /\ \A k \in 0 .. 3 : site'[2 + k] = code[2 + k]
    BY <1>2, <1>3
  <2>2. pp' = pp /\ loc' = loc /\ to' = to
    BY DEF Patch
  <2> QED BY <2>1, <2>2 DEF Recognizable, CallBytes, Offset, Truncate
<1> QED BY <1>1, <1>3, <1>4, <1>5 DEF PInv, Patch

(* Every step keeps the invariant; each patch by the lengths of its code.  *)
LEMMA NextPInv == PInv /\ [Next]_vars => PInv'
<1> SUFFICES ASSUME PInv, [Next]_vars PROVE PInv'
  OBVIOUS
<1> USE DEF PInv
<1>1. CASE DecodeBody
  BY <1>1 DEF DecodeBody, Compiled
<1>2. CASE DecodeSite
  <2>1. pp \in PPType \cup {"tail"} /\ Compiled /\ site' = site /\ loc' = loc /\ to' = to
    BY <1>2 DEF DecodeSite
  <2>2. Decoded(site, loc).type \in {"call", "indirect", "refused"}
    BY DEF Decoded, Callee
  <2>3. Decoded(site, loc).type = "call" => site[1] = <<"e8">>
    BY DEF Decoded, Callee, HasByte
  <2>4. Decoded(site, loc).type = "indirect" => site[1] = <<"ff">>
    BY DEF Decoded, Callee, HasByte
  <2>5. CASE pp = "jump"
    BY <1>2, <2>1, <2>5 DEF DecodeSite, Compiled, Filled, PPType, PPSize
  <2>6. CASE pp # "jump"
    <3>1. pp' = Decoded(site, loc).type
      BY <1>2, <2>6 DEF DecodeSite
    <3>2. CASE pp' = "call"
      <4>1. pp = "call"
        BY <2>1, <2>3, <2>6, <3>1, <3>2 DEF Compiled, PPType
      <4> QED BY <1>2, <2>1, <3>2, <4>1 DEF DecodeSite, Compiled, Filled, PPType, PPSize
    <3>3. CASE pp' = "indirect"
      <4>1. pp = "indirect"
        BY <2>1, <2>4, <2>6, <3>1, <3>3 DEF Compiled, PPType
      <4> QED BY <1>2, <2>1, <3>3, <4>1 DEF DecodeSite, Compiled, Filled, PPType, PPSize
    <3>4. CASE pp' = "refused"
      BY <1>2, <2>1, <3>4 DEF DecodeSite
    <3> QED BY <2>2, <3>1, <3>2, <3>3, <3>4
  <2> QED BY <2>5, <2>6
<1>3. CASE PatchJump
  <2> DEFINE code == Byte("e9") \o Imm(Offset(to, loc))
  <2>1. Sequence(code) /\ Len(code) = 5
    BY OpcodeAndOperand
  <2>2. pp = "jump" /\ pc = "patch" /\ Patch(code)
    BY <1>3 DEF PatchJump
  <2> HIDE DEF code
  <2>3. Len(code) = PPSize[pp]
    BY <2>1, <2>2 DEF PPSize
  <2> QED BY <2>1, <2>2, <2>3, PatchPInv
<1>4. CASE PatchNop
  <2> DEFINE code == Trailing(Nop5, Nop6)
  <2>1. pc = "patch" /\ pp # "jump" /\ Patch(code) /\ pp \in PPType
    BY <1>4 DEF PatchNop, AtCall, Filled
  <2>2. Sequence(code) /\ Len(code) = PPSize[pp] /\ code[1] \notin {<<"e8">>, <<"ff">>}
    <3>1. CASE pp = "indirect"
      <4>1. code = Nop6
        BY <3>1 DEF Trailing
      <4> QED BY <3>1, <4>1, Nops DEF PPSize
    <3>2. CASE pp = "call"
      <4>1. code = Nop5
        BY <3>2 DEF Trailing
      <4> QED BY <3>2, <4>1, Nops DEF PPSize
    <3> QED BY <2>1, <3>1, <3>2 DEF PPType
  <2> HIDE DEF code
  <2> QED BY <2>1, <2>2, PatchPInv
<1>5. CASE PatchConstant
  <2> DEFINE c == Byte("b8") \o Imm(mvfn.constant)
             code == c \o Trailing(<<>>, Byte("90"))
  <2>1. pc = "patch" /\ pp # "jump" /\ Patch(code) /\ pp \in PPType
    BY <1>5 DEF PatchConstant, AtCall, Filled
  <2>2. Sequence(c) /\ Len(c) = 5 /\ c[1] = <<"b8">>
    BY OpcodeAndOperand
  <2>3. /\ Sequence(code) /\ Len(code) = PPSize[pp] /\ code[1] = c[1]
    BY <2>1, <2>2, PaddedCall
  <2> HIDE DEF code, c
  <2> QED BY <2>1, <2>2, <2>3, PatchPInv
<1>6. CASE PatchIrq
  <2> DEFINE op == IF mvfn.type = "cli" THEN "fa" ELSE "fb"
             code == Byte(op) \o Trailing(Nop4, Nop5)
  <2>1. pc = "patch" /\ pp # "jump" /\ Patch(code) /\ pp \in PPType
    BY <1>6 DEF PatchIrq, AtCall, Filled
  <2>2. /\ Sequence(Trailing(Nop4, Nop5))
        /\ 1 + Len(Trailing(Nop4, Nop5)) = PPSize[pp]
    <3>1. CASE pp = "indirect"
      <4>1. Trailing(Nop4, Nop5) = Nop5
        BY <3>1 DEF Trailing
      <4> QED BY <3>1, <4>1, Nops DEF PPSize
    <3>2. CASE pp = "call"
      <4>1. Trailing(Nop4, Nop5) = Nop4
        BY <3>2 DEF Trailing
      <4> QED BY <3>2, <4>1, Nops DEF PPSize
    <3> QED BY <2>1, <3>1, <3>2 DEF PPType
  <2>3. Sequence(code) /\ Len(code) = PPSize[pp] /\ code[1] = <<op>>
    BY <2>2, OpcodeFirst
  <2> HIDE DEF code
  <2> QED BY <2>1, <2>3, PatchPInv
<1>7. CASE PatchCall
  <2> DEFINE v == Offset(to, loc)
             c == Byte("e8") \o Imm(v)
             code == c \o Trailing(<<>>, Byte("90"))
  <2>1. pc = "patch" /\ pp # "jump" /\ Patch(code) /\ pp \in PPType
    BY <1>7 DEF PatchCall, AtCall, Filled
  <2>2. Sequence(c) /\ Len(c) = 5 /\ c[1] = <<"e8">> /\ \A k \in 0 .. 3 : c[2 + k] = <<"imm", v, k>>
    BY OpcodeAndOperand
  <2>3. /\ Sequence(code) /\ Len(code) = PPSize[pp]
        /\ \A i \in 1 .. Len(c) : code[i] = c[i]
    BY <2>1, <2>2, PaddedCall
  <2> HIDE DEF code, c, v
  <2>4. CallBytes(code, v)
    BY <2>2, <2>3 DEF CallBytes
  <2> QED BY <2>1, <2>3, <2>4, PatchPInv DEF v
<1>8. CASE Exec
  <2>1. UNCHANGED <<loc, to, pp, site>> /\ (pc' = pc \/ pc' \in {"done", "lost"}) /\ pc = "run"
    BY <1>8 DEF Exec, ExecNop, ExecMov, ExecIrq, ExecCall, ExecJump, Lost, Leave,
       Reaches, Fits, Then
  <2> QED BY <2>1 DEF Filled, Recognizable, CallBytes, Offset, Truncate
<1>9. CASE Stopped \/ UNCHANGED vars
  BY <1>9 DEF Stopped, vars, Compiled, Filled, Recognizable, CallBytes, Offset, Truncate
<1> QED BY <1>1, <1>2, <1>3, <1>4, <1>5, <1>6, <1>7, <1>8, <1>9 DEF Next

(* What patchpoint_apply writes fills its place, to the byte, and leaves   *)
(* the instruction behind the call alone: for every body of a variant and  *)
(* every kind of call site, the entry of a function included.              *)
THEOREM FillsItsPlace == Spec => []PatchFits
<1>1. PInv => PatchFits
  BY DEF PInv, Filled, PatchFits
<1> QED BY <1>1, InitPInv, NextPInv, PTL DEF Spec

(* A patched call site that bintail reads again is refused, or taken for a *)
(* call of the variant whose call was written, whatever its distance.      *)
THEOREM NeverMisread == Spec => []RedecodesOrRefuses
<1>1. PInv => RedecodesOrRefuses
  <2> SUFFICES ASSUME PInv, pc \in {"run", "done"}, pp # "jump", Reachable
               PROVE  Decoded(site, loc) \in {Callee("call", to), Callee("refused", 0)}
    BY DEF RedecodesOrRefuses
  <2>1. CASE CallBytes(site, Offset(to, loc))
    <3>1. site[1] = <<"e8">> /\ site[2][2] = Offset(to, loc)
      BY <2>1 DEF CallBytes
    <3>2. loc + Signed(Offset(to, loc)) + 5 = to
      BY BranchReaches DEF Reachable, PInv
    <3>3. \/ Decoded(site, loc) = Callee("call", loc + Signed(site[2][2]) + 5)
          \/ Decoded(site, loc) = Callee("refused", 0)
      BY <3>1 DEF Decoded, HasByte
    <3> QED BY <3>1, <3>2, <3>3
  <2>2. CASE site[1] \notin {<<"e8">>, <<"ff">>}
    BY <2>2 DEF Decoded, HasByte
  <2> QED BY <2>1, <2>2 DEF PInv, Recognizable
<1> QED BY <1>1, InitPInv, NextPInv, PTL DEF Spec
=============================================================================
