--------------------------- MODULE PatchEffect_proofs ---------------------------
(***************************************************************************)
(* What executing a patched place does, for every body of a variant: what  *)
(* decode_mvfn_body recognized is what patchpoint_apply put in place, and  *)
(* what the processor then does there is what calling the variant does.    *)
(***************************************************************************)
EXTENDS PatchCodec_proofs, Induction
-----------------------------------------------------------------------------
(* Calling a variant, on a processor that is about to execute a byte.      *)
Cpu(a) == [at : {a}, eax : Int, iflag : Int, work : Nat]

LEMMA DoKeepsCpu ==
  ASSUME NEW a, NEW s \in Cpu(a), NEW i \in Instructions
  PROVE  Do(s, i) \in Cpu(a)
<1>1. Word \in Nat
  BY CodecAssumption DEF Word
<1>2. i.op \in {"xor", "mov", "cli", "sti", "work"} /\ i.v \in Int
  BY <1>1 DEF Instructions
<1>3. CASE i.op = "xor"
  BY <1>3 DEF Do, Cpu
<1>4. CASE i.op = "mov"
  BY <1>2, <1>4 DEF Do, Cpu
<1>5. CASE i.op = "cli"
  BY <1>5 DEF Do, Cpu
<1>6. CASE i.op = "sti"
  BY <1>6 DEF Do, Cpu
<1>7. CASE i.op = "work"
  BY <1>7 DEF Do, Cpu
<1> QED BY <1>2, <1>3, <1>4, <1>5, <1>6, <1>7

(* Executing instructions in turn, as FoldLeft defines it: by the sets of  *)
(* the places of the instructions executed, the last of them last.         *)
Folding(s, instrs, n, it) ==
  it = [t \in SUBSET (1 .. n) |->
          IF t = {} THEN s ELSE Do(it[t \ {Max(t)}], instrs[Max(t)])]

(* The greatest of the first numbers.                                      *)
LEMMA MaxUpTo ==
  ASSUME NEW n \in Nat, NEW t \in SUBSET (1 .. n + 1), n + 1 \in t
  PROVE  Max(t) = n + 1 /\ t \ {n + 1} \in SUBSET (1 .. n)
<1>1. \A y \in t : n + 1 >= y
  OBVIOUS
<1>2. \A x \in t : (\A y \in t : x >= y) => x = n + 1
  OBVIOUS
<1>3. Max(t) = n + 1
  BY <1>1, <1>2 DEF Max
<1>4. t \ {n + 1} \in SUBSET (1 .. n)
  OBVIOUS
<1> QED BY <1>3, <1>4

(* Such a table exists.                                                    *)
LEMMA FoldingExists ==
  ASSUME NEW s, NEW instrs, NEW n \in Nat
  PROVE  \E it : Folding(s, instrs, n, it)
<1> DEFINE Good == {m \in Nat : \E it : Folding(s, instrs, m, it)}
<1>1. 0 \in Good
  <2> DEFINE w == [t \in SUBSET (1 .. 0) |-> s]
  <2>1. Folding(s, instrs, 0, w)
    <3>1. \A t \in SUBSET (1 .. 0) : t = {}
      OBVIOUS
    <3> QED BY <3>1 DEF Folding
  <2> QED BY <2>1
<1>2. ASSUME NEW m \in Nat, m \in Good PROVE m + 1 \in Good
  <2>1. PICK it : Folding(s, instrs, m, it)
    BY <1>2
  <2> DEFINE Newest(t) == Do(it[t \ {m + 1}], instrs[m + 1])
             w == [t \in SUBSET (1 .. m + 1) |-> IF m + 1 \in t THEN Newest(t) ELSE it[t]]
  <2>2. \A t \in SUBSET (1 .. m) : t \in SUBSET (1 .. m + 1) /\ m + 1 \notin t
    OBVIOUS
  <2>3. \A t \in SUBSET (1 .. m) : w[t] = it[t]
    BY <2>2
  <2>4. ASSUME NEW t \in SUBSET (1 .. m + 1)
        PROVE  (IF m + 1 \in t THEN Newest(t) ELSE it[t])
                 = IF t = {} THEN s ELSE Do(w[t \ {Max(t)}], instrs[Max(t)])
    <3>1. CASE m + 1 \in t
      <4>1. Max(t) = m + 1 /\ t \ {m + 1} \in SUBSET (1 .. m)
        BY <3>1, MaxUpTo
      <4>2. w[t \ {m + 1}] = it[t \ {m + 1}]
        BY <2>3, <4>1
      <4> HIDE DEF w
      <4> QED BY <3>1, <4>1, <4>2
    <3>2. CASE m + 1 \notin t
      <4>1. t \in SUBSET (1 .. m)
        BY <3>2
      <4>2. it[t] = IF t = {} THEN s ELSE Do(it[t \ {Max(t)}], instrs[Max(t)])
        BY <2>1, <4>1 DEF Folding
      <4>3. t \ {Max(t)} \in SUBSET (1 .. m)
        BY <4>1
      <4>4. w[t \ {Max(t)}] = it[t \ {Max(t)}]
        BY <2>3, <4>3
      <4> HIDE DEF w
      <4> QED BY <3>2, <4>2, <4>4
    <3> QED BY <3>1, <3>2
  <2> HIDE DEF w
  <2>5. w = [t \in SUBSET (1 .. m + 1) |->
               IF t = {} THEN s ELSE Do(w[t \ {Max(t)}], instrs[Max(t)])]
    <3>1. w = [t \in SUBSET (1 .. m + 1) |-> IF m + 1 \in t THEN Newest(t) ELSE it[t]]
      BY DEF w
    <3> HIDE DEF Newest
    <3> QED BY <2>4, <3>1
  <2>6. Folding(s, instrs, m + 1, w)
    BY <2>5 DEF Folding
  <2> QED BY <2>6
<1> HIDE DEF Good
<1>3. \A m \in Nat : m \in Good
  BY <1>1, <1>2, InductionOnNat
<1> QED BY <1>3 DEF Good

(* What FoldLeft chooses is one.                                           *)
LEMMA EffectFolds ==
  ASSUME NEW s, NEW b, NEW n \in Nat, DOMAIN b.instrs = 1 .. n
  PROVE  \E it : Folding(s, b.instrs, n, it) /\ Effect(s, b) = it[1 .. n]
<1> DEFINE it == CHOOSE x : Folding(s, b.instrs, n, x)
<1>1. Folding(s, b.instrs, n, it)
  BY FoldingExists
<1>2. Effect(s, b) = it[1 .. n]
  BY DEF Effect, FoldLeft, MapThenFoldSet, Folding
<1> QED BY <1>1, <1>2

LEMMA EffectKeepsCpu ==
  ASSUME NEW a, NEW s \in Cpu(a), NEW b \in Bodies
  PROVE  Effect(s, b) \in Cpu(a)
<1> DEFINE n == Len(b.instrs)
<1>1. b.instrs \in Seq(Instructions)
  BY CodecAssumption
<1>2. n \in Nat /\ DOMAIN b.instrs = 1 .. n /\ \A i \in 1 .. n : b.instrs[i] \in Instructions
  BY <1>1, LenProperties, ElementOfSeq
<1> HIDE DEF n
<1>3. PICK it : Folding(s, b.instrs, n, it) /\ Effect(s, b) = it[1 .. n]
  BY <1>2, EffectFolds
<1> DEFINE Good == {m \in 0 .. n : \A t \in SUBSET (1 .. m) : it[t] \in Cpu(a)}
<1>4. 0 \in Good
  <2>1. it[{}] = s
    BY <1>3 DEF Folding
  <2>2. \A t \in SUBSET (1 .. 0) : t = {}
    OBVIOUS
  <2>3. 0 \in 0 .. n /\ \A t \in SUBSET (1 .. 0) : it[t] \in Cpu(a)
    <3>1. 0 \in 0 .. n
      BY <1>2
    <3> QED BY <2>1, <2>2, <3>1
  <2> QED BY <2>3
<1>5. ASSUME NEW m \in 0 .. n - 1, m \in Good PROVE m + 1 \in Good
  <2>1. m \in Nat /\ m + 1 \in 1 .. n /\ m + 1 \in 0 .. n
    BY <1>2
  <2>2. ASSUME NEW t \in SUBSET (1 .. m + 1) PROVE it[t] \in Cpu(a)
    <3>1. CASE m + 1 \in t
      <4>1. Max(t) = m + 1 /\ t \ {m + 1} \in SUBSET (1 .. m)
        BY <2>1, <3>1, MaxUpTo
      <4>2. t \in SUBSET (1 .. n)
        BY <1>2, <2>1
      <4>3. it[t] = Do(it[t \ {m + 1}], b.instrs[m + 1])
        BY <1>3, <3>1, <4>1, <4>2 DEF Folding
      <4>4. it[t \ {m + 1}] \in Cpu(a) /\ b.instrs[m + 1] \in Instructions
        BY <1>2, <1>5, <2>1, <4>1
      <4> QED BY <4>3, <4>4, DoKeepsCpu
    <3>2. CASE m + 1 \notin t
      <4>1. t \in SUBSET (1 .. m)
        BY <2>1, <3>2
      <4> QED BY <1>5, <4>1
    <3> QED BY <3>1, <3>2
  <2> QED BY <2>1, <2>2
<1> HIDE DEF Good
<1>6. \A m \in 0 .. n : m \in Good
  BY <1>2, <1>4, <1>5, InductionUpTo
<1>7. it[1 .. n] \in Cpu(a)
  BY <1>2, <1>6 DEF Good
<1> QED BY <1>3, <1>7

LEMMA EffectOfNone ==
  ASSUME NEW s, NEW b, b.instrs = <<>>
  PROVE  Effect(s, b) = s
<1>1. DOMAIN b.instrs = 1 .. 0
  OBVIOUS
<1>2. PICK it : Folding(s, b.instrs, 0, it) /\ Effect(s, b) = it[1 .. 0]
  BY <1>1, EffectFolds
<1>3. 1 .. 0 = {}
  OBVIOUS
<1> QED BY <1>2, <1>3 DEF Folding

LEMMA EffectOfOne ==
  ASSUME NEW s, NEW b, NEW i, b.instrs = <<i>>
  PROVE  Effect(s, b) = Do(s, i)
<1>1. DOMAIN b.instrs = 1 .. 1 /\ b.instrs[1] = i
  OBVIOUS
<1>2. PICK it : Folding(s, b.instrs, 1, it) /\ Effect(s, b) = it[1 .. 1]
  BY <1>1, EffectFolds
<1>3. Max(1 .. 1) = 1 /\ (1 .. 1) \ {1} = {}
  <2>1. 1 .. 1 \in SUBSET (1 .. 0 + 1) /\ 0 + 1 \in 1 .. 1 /\ 0 + 1 = 1
    OBVIOUS
  <2>2. Max(1 .. 1) = 0 + 1
    BY ONLY <2>1, MaxUpTo
  <2> QED BY <2>1, <2>2
<1>4. it[{}] = s
  BY <1>2 DEF Folding
<1>5. it[1 .. 1] = Do(it[(1 .. 1) \ {1}], b.instrs[1])
  <2> DEFINE t == 1 .. 1
  <2>1. t \in SUBSET (1 .. 1) /\ 1 \in t
    OBVIOUS
  <2> HIDE DEF t
  <2>2. t # {}
    BY <2>1
  <2>3. it[t] = IF t = {} THEN s ELSE Do(it[t \ {Max(t)}], b.instrs[Max(t)])
    BY <1>2, <2>1 DEF Folding
  <2>4. Max(t) = 1
    BY <1>3 DEF t
  <2>5. it[t] = Do(it[t \ {1}], b.instrs[1])
    BY <2>2, <2>3, <2>4
  <2> QED BY <2>5 DEF t
<1> QED BY <1>1, <1>2, <1>3, <1>4, <1>5
-----------------------------------------------------------------------------
(* What is recognized.  The bytes of a body are those of its instructions, *)
(* one behind the other, and of its ret.                                   *)
Opcodes == {"31", "c0", "b8", "fa", "fb", "work", "c3", "f3", "e8", "e9", "ff", "15",
            "66", "0f", "1f", "44", "40", "00", "90", "next"}
AnyByte == {<<op>> : op \in Opcodes} \cup {<<"imm", v, k>> : v \in 0 .. Word - 1, k \in 0 .. 3}

(* The first byte and the length of an instruction.                        *)
Opcode(i) ==
  CASE i.op = "xor" -> "31" [] i.op = "mov" -> "b8" [] i.op = "cli" -> "fa"
    [] i.op = "sti" -> "fb" [] i.op = "work" -> "work"

(* A sequence of bytes is one whatever set its parts are from.             *)
LEMMA OfBytes ==
  ASSUME NEW s, Sequence(s), NEW B, \A i \in 1 .. Len(s) : s[i] \in B
  PROVE  s \in Seq(B)
<1>1. PICK S : s \in Seq(S)
  BY DEF Sequence
<1>2. Len(s) \in Nat /\ s \in [1 .. Len(s) -> S]
  BY <1>1, LenProperties
<1>3. s \in [1 .. Len(s) -> B]
  BY <1>2
<1> QED BY <1>2, <1>3, SeqDef

LEMMA ImmediateBytes ==
  ASSUME NEW v \in 0 .. Word - 1
  PROVE  Imm(v) \in Seq(AnyByte)
<1>1. Sequence(Imm(v)) /\ Len(Imm(v)) = 4 /\ \A k \in 0 .. 3 : Imm(v)[1 + k] = <<"imm", v, k>>
  BY Immediate
<1>2. ASSUME NEW i \in 1 .. 4 PROVE Imm(v)[i] \in AnyByte
  <2>1. i - 1 \in 0 .. 3 /\ 1 + (i - 1) = i
    OBVIOUS
  <2>2. Imm(v)[i] = <<"imm", v, i - 1>>
    BY <1>1, <2>1
  <2> QED BY <2>1, <2>2 DEF AnyByte
<1> QED BY <1>1, <1>2, OfBytes

LEMMA OpcodeByte ==
  ASSUME NEW op \in Opcodes
  PROVE  Byte(op) \in Seq(AnyByte)
BY DEF Byte, AnyByte

LEMMA OpcodeBytes ==
  ASSUME NEW bs, Sequence(bs), \A i \in 1 .. Len(bs) : bs[i] \in Opcodes
  PROVE  Bytes(bs) \in Seq(AnyByte)
<1>1. Sequence(Bytes(bs)) /\ Len(Bytes(bs)) = Len(bs)
      /\ \A i \in 1 .. Len(bs) : Bytes(bs)[i] = <<bs[i]>>
  BY SomeBytes
<1> DEFINE c == Bytes(bs)
<1> HIDE DEF c
<1>2. Sequence(c) /\ \A i \in 1 .. Len(c) : c[i] \in AnyByte
  <2>1. Len(c) = Len(bs) /\ \A i \in 1 .. Len(c) : c[i] = <<bs[i]>>
    BY <1>1 DEF c
  <2>2. ASSUME NEW i \in 1 .. Len(c) PROVE c[i] \in AnyByte
    <3>1. bs[i] \in Opcodes /\ c[i] = <<bs[i]>>
      BY <2>1
    <3> QED BY <3>1 DEF AnyByte
  <2> QED BY <1>1, <2>2 DEF c
<1>3. c \in Seq(AnyByte)
  BY ONLY <1>2, OfBytes
<1> QED BY <1>3 DEF c

LEMMA Encoded ==
  ASSUME NEW i \in Instructions
  PROVE  /\ Encode(i) \in Seq(AnyByte) /\ Len(Encode(i)) \in Nat \ {0}
         /\ Encode(i)[1] = <<Opcode(i)>>
         /\ Opcode(i) \in {"31", "b8", "fa", "fb", "work"}
         /\ i.op = "xor" => Len(Encode(i)) = 2
         /\ i.op = "mov" => Len(Encode(i)) = 5 /\ Encode(i)[2] = <<"imm", i.v, 0>>
         /\ i.op \in {"cli", "sti", "work"} => Len(Encode(i)) = 1
<1>1. i.op \in {"xor", "mov", "cli", "sti", "work"} /\ (i.op = "mov" => i.v \in 0 .. Word - 1)
  BY DEF Instructions
<1>2. CASE i.op = "xor"
  <2> DEFINE b == <<"31", "c0">>
  <2>1. b \in Seq({"31", "c0"}) /\ Len(b) = 2 /\ b[1] = "31" /\ b[2] = "c0"
    OBVIOUS
  <2> HIDE DEF b
  <2>2. Sequence(b) /\ \A k \in 1 .. Len(b) : b[k] \in Opcodes
    <3>1. Sequence(b)
      BY <2>1 DEF Sequence
    <3>2. \A k \in 1 .. 2 : b[k] \in Opcodes
      BY <2>1 DEF Opcodes
    <3> QED BY <2>1, <3>1, <3>2
  <2>3. Encode(i) = Bytes(b) /\ Opcode(i) = "31"
    BY <1>2 DEF Encode, Opcode, b
  <2>4. Bytes(b) \in Seq(AnyByte) /\ Len(Bytes(b)) = 2 /\ Bytes(b)[1] = <<"31">>
    BY <2>1, <2>2, SomeBytes, OpcodeBytes
  <2> QED BY <1>2, <2>3, <2>4
<1>3. CASE i.op = "mov"
  <2> DEFINE o == Byte("b8")
             v == i.v
             p == Imm(v)
  <2>1. o \in Seq(AnyByte) /\ p \in Seq(AnyByte)
    BY <1>1, <1>3, OpcodeByte, ImmediateBytes DEF Opcodes
  <2>2. o \o p \in Seq(AnyByte)
    <3> HIDE DEF o, p
    <3> QED BY <2>1, ConcatProperties
  <2>3. /\ Len(o \o p) = 5 /\ (o \o p)[1] = <<"b8">>
        /\ \A k \in 0 .. 3 : (o \o p)[2 + k] = <<"imm", v, k>>
    BY OpcodeAndOperand
  <2>4. Encode(i) = o \o p /\ Opcode(i) = "b8"
    BY <1>3 DEF Encode, Opcode
  <2>5. (o \o p)[2 + 0] = <<"imm", v, 0>>
    <3>1. 0 \in 0 .. 3
      OBVIOUS
    <3> HIDE DEF o, p, v
    <3> QED BY <2>3, <3>1
  <2> HIDE DEF o, p
  <2> QED BY <1>3, <2>2, <2>3, <2>4, <2>5 DEF v
<1>4. ASSUME i.op \in {"cli", "sti", "work"}
      PROVE  Encode(i) = Byte(Opcode(i)) /\ Opcode(i) \in {"fa", "fb", "work"}
  BY <1>4 DEF Encode, Opcode
<1>5. CASE i.op \in {"cli", "sti", "work"}
  <2>1. Encode(i) = Byte(Opcode(i)) /\ Opcode(i) \in {"fa", "fb", "work"}
    BY <1>4, <1>5
  <2>2. Opcode(i) \in Opcodes
    BY <2>1 DEF Opcodes
  <2>3. Byte(Opcode(i)) \in Seq(AnyByte)
    BY <2>2, OpcodeByte
  <2>4. Len(Byte(Opcode(i))) = 1 /\ Byte(Opcode(i))[1] = <<Opcode(i)>>
    BY OneByte
  <2> QED BY <1>5, <2>1, <2>3, <2>4
<1> QED BY <1>1, <1>2, <1>3, <1>5

(* The ret. *)
Ret(b) == IF b.rep THEN Bytes(<<"f3", "c3">>) ELSE Byte("c3")

LEMMA RetBytes ==
  ASSUME NEW b
  PROVE  /\ Ret(b) \in Seq(AnyByte)
         /\ Len(Ret(b)) \in Nat \ {0}
         /\ \/ Ret(b)[1] = <<"c3">>
            \/ Len(Ret(b)) = 2 /\ Ret(b)[1] = <<"f3">> /\ Ret(b)[2] = <<"c3">>
<1>1. CASE b.rep
  <2> DEFINE c == <<"f3", "c3">>
  <2>1. c \in Seq({"f3", "c3"}) /\ Len(c) = 2 /\ c[1] = "f3" /\ c[2] = "c3"
    OBVIOUS
  <2> HIDE DEF c
  <2>2. Sequence(c) /\ \A k \in 1 .. Len(c) : c[k] \in Opcodes
    <3>1. Sequence(c)
      BY <2>1 DEF Sequence
    <3>2. \A k \in 1 .. 2 : c[k] \in Opcodes
      BY <2>1 DEF Opcodes
    <3> QED BY <2>1, <3>1, <3>2
  <2>3. /\ Bytes(c) \in Seq(AnyByte) /\ Len(Bytes(c)) = 2
        /\ Bytes(c)[1] = <<"f3">> /\ Bytes(c)[2] = <<"c3">>
    BY <2>1, <2>2, SomeBytes, OpcodeBytes
  <2>4. Ret(b) = Bytes(c)
    BY <1>1 DEF Ret, c
  <2> QED BY <2>3, <2>4
<1>2. CASE ~ b.rep
  <2>1. "c3" \in Opcodes
    BY DEF Opcodes
  <2>2. Byte("c3") \in Seq(AnyByte)
    BY <2>1, OpcodeByte
  <2>3. Len(Byte("c3")) = 1 /\ Byte("c3")[1] = <<"c3">>
    BY OneByte
  <2>4. Ret(b) = Byte("c3")
    BY <1>2 DEF Ret
  <2> QED BY <2>2, <2>3, <2>4
<1> QED BY <1>1, <1>2

(* The first bytes of a body: the first instruction, and the first byte of *)
(* what is behind it.                                                      *)
LEMMA CodeOf ==
  ASSUME NEW b \in Bodies
  PROVE  /\ b.instrs \in Seq(Instructions)
         /\ b.instrs = <<>> =>
              \/ HasByte(Code(b), 1, "c3")
              \/ HasByte(Code(b), 1, "f3") /\ HasByte(Code(b), 2, "c3")
         /\ Len(b.instrs) > 0 =>
              /\ b.instrs[1] \in Instructions
              /\ \A k \in 1 .. Len(Encode(b.instrs[1])) : Code(b)[k] = Encode(b.instrs[1])[k]
         /\ Len(b.instrs) > 1 =>
              /\ b.instrs[2] \in Instructions
              /\ Code(b)[Len(Encode(b.instrs[1])) + 1] = <<Opcode(b.instrs[2])>>
<1> DEFINE instrs == b.instrs
           n == Len(instrs)
           ss == [k \in DOMAIN instrs |-> Encode(instrs[k])]
           F == FlattenSeq(ss)
           r == Ret(b)
<1>1. instrs \in Seq(Instructions)
  BY CodecAssumption
<1>2. n \in Nat /\ DOMAIN instrs = 1 .. n /\ \A k \in 1 .. n : instrs[k] \in Instructions
  BY <1>1, LenProperties, ElementOfSeq
<1>3. /\ ss \in Seq(Seq(AnyByte)) /\ Len(ss) = n
      /\ \A k \in 1 .. n : ss[k] = Encode(instrs[k]) /\ Len(ss[k]) \in Nat \ {0}
  <2>1. ss \in [1 .. n -> Seq(AnyByte)]
    BY <1>2, Encoded
  <2>2. ss \in Seq(Seq(AnyByte)) /\ DOMAIN ss = 1 .. n
    BY <1>2, <2>1, SeqDef
  <2>3. Len(ss) = n
    BY <1>2, <2>2, LenProperties
  <2>4. \A k \in 1 .. n : ss[k] = Encode(instrs[k]) /\ Len(ss[k]) \in Nat \ {0}
    BY <1>2, Encoded
  <2> QED BY <2>2, <2>3, <2>4
<1>4. Code(b) = F \o r
  BY DEF Code, Ret
<1> HIDE DEF ss
<1>5. F \in Seq(AnyByte) /\ \E at : Positions(ss, F, at)
  BY <1>3, FlattenPositions
<1>6. PICK at : Positions(ss, F, at)
  BY <1>5
<1> HIDE DEF F, n, instrs
<1>7. /\ r \in Seq(AnyByte) /\ Len(r) \in Nat \ {0}
      /\ r[1] = <<"c3">> \/ (Len(r) = 2 /\ r[1] = <<"f3">> /\ r[2] = <<"c3">>)
  BY RetBytes
<1> HIDE DEF r
<1>8. /\ F \o r \in Seq(AnyByte) /\ Len(F) \in Nat /\ Len(F \o r) = Len(F) + Len(r)
      /\ \A i \in 1 .. Len(F) + Len(r) :
           (F \o r)[i] = IF i <= Len(F) THEN F[i] ELSE r[i - Len(F)]
  BY <1>5, <1>7, ConcatProperties, LenProperties
<1>9. DOMAIN (F \o r) = 1 .. Len(F) + Len(r)
  BY <1>8, LenProperties
<1> DEFINE C == F \o r
<1>10. /\ C \in Seq(AnyByte) /\ DOMAIN C = 1 .. Len(F) + Len(r)
       /\ \A i \in 1 .. Len(F) + Len(r) : C[i] = IF i <= Len(F) THEN F[i] ELSE r[i - Len(F)]
       /\ Code(b) = C
  BY <1>4, <1>8, <1>9
<1> HIDE DEF C
<1>11. /\ at[0] = 0 /\ Len(F) = at[n]
       /\ \A i \in 1 .. n : at[i] = at[i - 1] + Len(ss[i])
       /\ \A i \in 1 .. n : \A k \in 1 .. Len(ss[i]) :
            at[i - 1] + k \in 1 .. Len(F) /\ F[at[i - 1] + k] = ss[i][k]
  BY <1>3, <1>6 DEF Positions
<1>12. ASSUME instrs = <<>>
       PROVE  \/ HasByte(C, 1, "c3")
              \/ HasByte(C, 1, "f3") /\ HasByte(C, 2, "c3")
  <2>1. n = 0
    BY <1>12 DEF n
  <2>2. Len(F) = 0
    BY <1>11, <2>1
  <2>3. \A i \in 1 .. Len(r) : i \in DOMAIN C /\ C[i] = r[i]
    BY <1>7, <1>10, <2>2
  <2> QED BY <1>7, <2>3 DEF HasByte
<1>13. ASSUME n > 0
       PROVE  /\ instrs[1] \in Instructions
              /\ \A k \in 1 .. Len(ss[1]) : C[k] = ss[1][k]
              /\ at[1] = Len(ss[1])
  <2>1. 1 \in 1 .. n /\ 1 - 1 = 0
    BY <1>2, <1>13
  <2>2. Len(ss[1]) \in Nat
    BY <1>3, <2>1
  <2>3. at[1] = Len(ss[1])
    <3>1. at[1] = at[1 - 1] + Len(ss[1])
      BY <1>11, <2>1
    <3> QED BY <1>11, <2>1, <2>2, <3>1
  <2>4. ASSUME NEW k \in 1 .. Len(ss[1]) PROVE C[k] = ss[1][k]
    <3>1. at[1 - 1] + k \in 1 .. Len(F) /\ F[at[1 - 1] + k] = ss[1][k]
      BY <1>11, <2>1
    <3>2. at[1 - 1] + k = k
      BY <1>11, <2>1, <2>2
    <3>3. k \in 1 .. Len(F) /\ F[k] = ss[1][k]
      BY <3>1, <3>2
    <3>4. k \in 1 .. Len(F) + Len(r) /\ k <= Len(F)
      BY <1>7, <1>8, <3>3
    <3> QED BY <1>10, <3>3, <3>4
  <2> QED BY <1>2, <2>1, <2>3, <2>4
<1>14. ASSUME n > 1
       PROVE  instrs[2] \in Instructions /\ C[Len(ss[1]) + 1] = <<Opcode(instrs[2])>>
  <2>1. 2 \in 1 .. n /\ 2 - 1 = 1 /\ n > 0 /\ 1 \in 1 .. n
    BY <1>2, <1>14
  <2>2. instrs[2] \in Instructions /\ ss[2] = Encode(instrs[2]) /\ Len(ss[2]) \in Nat \ {0}
    BY <1>2, <1>3, <2>1
  <2>3. 1 \in 1 .. Len(ss[2])
    BY <2>2
  <2>4. at[2 - 1] + 1 \in 1 .. Len(F) /\ F[at[2 - 1] + 1] = ss[2][1]
    BY <1>11, <2>1, <2>3
  <2>5. at[2 - 1] = Len(ss[1])
    BY <1>13, <2>1
  <2>6. Len(ss[1]) + 1 \in 1 .. Len(F) /\ F[Len(ss[1]) + 1] = ss[2][1]
    BY <2>4, <2>5
  <2>7. Len(ss[1]) + 1 \in 1 .. Len(F) + Len(r) /\ Len(ss[1]) + 1 <= Len(F)
    <3>1. Len(ss[1]) \in Nat
      BY <1>3, <2>1
    <3> QED BY <1>7, <1>8, <2>6, <3>1
  <2>8. C[Len(ss[1]) + 1] = ss[2][1]
    BY <1>10, <2>6, <2>7
  <2> QED BY <2>2, <2>8, Encoded
<1>15. n > 0 => ss[1] = Encode(instrs[1])
  BY <1>2, <1>3
<1>16. n > 0 => /\ instrs[1] \in Instructions
                /\ \A k \in 1 .. Len(Encode(instrs[1])) : C[k] = Encode(instrs[1])[k]
  BY <1>13, <1>15
<1>17. n > 1 => /\ instrs[2] \in Instructions
                /\ C[Len(Encode(instrs[1])) + 1] = <<Opcode(instrs[2])>>
  BY <1>2, <1>14, <1>15
<1> QED BY <1>1, <1>10, <1>12, <1>16, <1>17 DEF instrs, n

(* A recognized body is a single instruction in front of its ret, and it   *)
(* is the one it was taken for.                                            *)
StandsFor(m, b) ==
  /\ m \in [type : {"none", "nop", "constant", "cli", "sti"}, constant : 0 .. Word - 1]
  /\ m.type = "nop" => b.instrs = <<>>
  /\ m.type # "nop" /\ m.type # "none" =>
       \E i \in Instructions :
         /\ b.instrs = <<i>>
         /\ m.type = "constant" => \/ i.op = "xor" /\ m.constant = 0
                                   \/ i.op = "mov" /\ m.constant = i.v
         /\ m.type = "cli" => i.op = "cli"
         /\ m.type = "sti" => i.op = "sti"

LEMMA Recognized ==
  ASSUME NEW b \in Bodies
  PROVE  StandsFor(DecodeMvfn(Code(b)), b)
<1> DEFINE C == Code(b)
           m == DecodeMvfn(C)
           i == b.instrs[1]
<1>1. /\ b.instrs \in Seq(Instructions)
      /\ b.instrs = <<>> =>
           \/ HasByte(C, 1, "c3")
           \/ HasByte(C, 1, "f3") /\ HasByte(C, 2, "c3")
      /\ Len(b.instrs) > 0 =>
           /\ i \in Instructions
           /\ \A k \in 1 .. Len(Encode(i)) : C[k] = Encode(i)[k]
      /\ Len(b.instrs) > 1 =>
           /\ b.instrs[2] \in Instructions
           /\ C[Len(Encode(i)) + 1] = <<Opcode(b.instrs[2])>>
  BY CodeOf
<1>2. Word \in Nat \ {0}
  BY CodecAssumption DEF Word
<1> HIDE DEF C
<1>3. Type("none") \in [type : {"none", "nop", "constant", "cli", "sti"}, constant : 0 .. Word - 1]
  BY <1>2 DEF Type
<1>4. CASE b.instrs = <<>>
  <2>1. \/ HasByte(C, 1, "c3")
        \/ HasByte(C, 1, "f3") /\ HasByte(C, 2, "c3")
    BY <1>1, <1>4
  <2>2. IsRet(C, 1)
    BY <2>1 DEF IsRet, HasByte
  <2>3. ~ HasByte(C, 1, "31") /\ ~ HasByte(C, 1, "b8")
    BY <2>1 DEF HasByte
  <2>4. m = Type("nop")
    BY <2>2, <2>3 DEF DecodeMvfn
  <2> QED BY <1>2, <1>4, <2>4 DEF StandsFor, Type, C
<1>5. CASE b.instrs # <<>>
  <2>1. Len(b.instrs) \in Nat /\ Len(b.instrs) > 0
    BY <1>1, <1>5, EmptySeq, LenProperties
  <2>2. i \in Instructions /\ \A k \in 1 .. Len(Encode(i)) : C[k] = Encode(i)[k]
    BY <1>1, <2>1
  <2>3. /\ Len(Encode(i)) \in Nat \ {0} /\ Encode(i)[1] = <<Opcode(i)>>
        /\ Opcode(i) \in {"31", "b8", "fa", "fb", "work"}
        /\ i.op = "xor" => Len(Encode(i)) = 2
        /\ i.op = "mov" => Len(Encode(i)) = 5 /\ Encode(i)[2] = <<"imm", i.v, 0>>
        /\ i.op \in {"cli", "sti", "work"} => Len(Encode(i)) = 1
    BY <2>2, Encoded
  <2>4. C[1] = <<Opcode(i)>>
    BY <2>2, <2>3
  <2>5. ~ IsRet(C, 1)
    BY <2>3, <2>4 DEF IsRet, HasByte
  <2>6. i.op \in {"xor", "mov", "cli", "sti", "work"} /\ (i.op = "mov" => i.v \in 0 .. Word - 1)
    BY <2>2 DEF Instructions
  <2>7. CASE Len(b.instrs) > 1
    <3>1. b.instrs[2] \in Instructions /\ C[Len(Encode(i)) + 1] = <<Opcode(b.instrs[2])>>
      BY <1>1, <2>7
    <3>2. Opcode(b.instrs[2]) \notin {"c3", "f3"}
      BY <3>1, Encoded
    <3>3. ~ IsRet(C, Len(Encode(i)) + 1)
      BY <3>1, <3>2 DEF IsRet, HasByte
    <3>4. m = Type("none")
      <4>1. CASE i.op = "xor"
        <5>1. Opcode(i) = "31"
          BY <4>1 DEF Opcode
        <5>2. Len(Encode(i)) + 1 = 3
          <6>1. Len(Encode(i)) = 2
            BY <2>3, <4>1
          <6> QED BY <6>1
        <5>3. ~ IsRet(C, 3)
          BY <3>3, <5>2
        <5>4. ~ HasByte(C, 1, "b8") /\ ~ HasByte(C, 1, "fa") /\ ~ HasByte(C, 1, "fb")
          BY <2>4, <5>1 DEF HasByte
        <5> QED BY <2>5, <5>3, <5>4 DEF DecodeMvfn
      <4>2. CASE i.op = "mov"
        <5>1. Opcode(i) = "b8"
          BY <4>2 DEF Opcode
        <5>2. Len(Encode(i)) + 1 = 6
          <6>1. Len(Encode(i)) = 5
            BY <2>3, <4>2
          <6> QED BY <6>1
        <5>3. ~ IsRet(C, 6)
          BY <3>3, <5>2
        <5>4. ~ HasByte(C, 1, "31") /\ ~ HasByte(C, 1, "fa") /\ ~ HasByte(C, 1, "fb")
          BY <2>4, <5>1 DEF HasByte
        <5> QED BY <2>5, <5>3, <5>4 DEF DecodeMvfn
      <4>3. CASE i.op \in {"cli", "sti", "work"}
        <5>1. Opcode(i) \notin {"31", "b8"}
          BY <4>3 DEF Opcode
        <5>2. Len(Encode(i)) + 1 = 2
          <6>1. Len(Encode(i)) = 1
            BY <2>3, <4>3
          <6> QED BY <6>1
        <5>3. ~ IsRet(C, 2)
          BY <3>3, <5>2
        <5>4. ~ HasByte(C, 1, "31") /\ ~ HasByte(C, 1, "b8")
          BY <2>4, <5>1 DEF HasByte
        <5> QED BY <2>5, <5>3, <5>4 DEF DecodeMvfn
      <4> QED BY <2>6, <4>1, <4>2, <4>3
    <3> QED BY <1>3, <3>4 DEF StandsFor, Type, C
  <2>8. CASE ~ (Len(b.instrs) > 1)
    <3>1. b.instrs = <<i>>
      <4>1. Len(b.instrs) = 1
        <5> DEFINE n == Len(b.instrs)
        <5>1. n \in Nat /\ n > 0 /\ ~ (n > 1)
          BY <2>1, <2>8
        <5> HIDE DEF n
        <5>2. n = 1
          BY <5>1
        <5> QED BY <5>2 DEF n
      <4> QED BY <1>1, <4>1
    <3>2. \/ m = Type("none")
          \/ i.op = "xor" /\ m = Constant(0)
          \/ i.op = "mov" /\ m = Constant(i.v)
          \/ i.op = "cli" /\ m = Type("cli")
          \/ i.op = "sti" /\ m = Type("sti")
      <4>1. CASE i.op = "xor"
        <5>1. Opcode(i) = "31"
          BY <4>1 DEF Opcode
        <5> QED BY <2>4, <2>5, <4>1, <5>1 DEF DecodeMvfn, HasByte
      <4>2. CASE i.op = "mov"
        <5>1. Opcode(i) = "b8"
          BY <4>2 DEF Opcode
        <5>2. C[2] = <<"imm", i.v, 0>>
          BY <2>2, <2>3, <4>2
        <5>3. C[2][2] = i.v
          BY <5>2
        <5> QED BY <2>4, <2>5, <4>2, <5>1, <5>3 DEF DecodeMvfn, HasByte
      <4>3. CASE i.op = "cli"
        <5>1. Opcode(i) \notin {"31", "b8", "fb"}
          BY <4>3 DEF Opcode
        <5>2. ~ HasByte(C, 1, "31") /\ ~ HasByte(C, 1, "b8") /\ ~ HasByte(C, 1, "fb")
          BY <2>4, <5>1 DEF HasByte
        <5> QED BY <2>5, <4>3, <5>2 DEF DecodeMvfn
      <4>4. CASE i.op = "sti"
        <5>1. Opcode(i) \notin {"31", "b8", "fa"}
          BY <4>4 DEF Opcode
        <5>2. ~ HasByte(C, 1, "31") /\ ~ HasByte(C, 1, "b8") /\ ~ HasByte(C, 1, "fa")
          BY <2>4, <5>1 DEF HasByte
        <5> QED BY <2>5, <4>4, <5>2 DEF DecodeMvfn
      <4>5. CASE i.op = "work"
        <5>1. Opcode(i) \notin {"31", "b8", "fa", "fb"}
          BY <4>5 DEF Opcode
        <5>2. /\ ~ HasByte(C, 1, "31") /\ ~ HasByte(C, 1, "b8")
              /\ ~ HasByte(C, 1, "fa") /\ ~ HasByte(C, 1, "fb")
          BY <2>4, <5>1 DEF HasByte
        <5> QED BY <2>5, <5>2 DEF DecodeMvfn
      <4> QED BY <2>6, <4>1, <4>2, <4>3, <4>4, <4>5
    <3> HIDE DEF m, i
    <3>3. CASE m = Type("none")
      BY <1>3, <3>3 DEF StandsFor, Type, C, m
    <3>4. CASE i.op = "xor" /\ m = Constant(0)
      BY <1>2, <2>2, <3>1, <3>4 DEF StandsFor, Constant, C, m
    <3>5. CASE i.op = "mov" /\ m = Constant(i.v)
      BY <1>2, <2>2, <2>6, <3>1, <3>5 DEF StandsFor, Constant, C, m
    <3>6. CASE i.op = "cli" /\ m = Type("cli")
      BY <1>2, <2>2, <3>1, <3>6 DEF StandsFor, Type, C, m
    <3>7. CASE i.op = "sti" /\ m = Type("sti")
      BY <1>2, <2>2, <3>1, <3>7 DEF StandsFor, Type, C, m
    <3> QED BY <3>2, <3>3, <3>4, <3>5, <3>6, <3>7
  <2> QED BY <2>7, <2>8
<1> QED BY <1>4, <1>5
-----------------------------------------------------------------------------
(* What the processor meets.  The bytes that tell it what to do, for each  *)
(* kind of patch.                                                          *)
Laid(s) ==
  /\ pp = "jump" => s[1] = <<"e9">>
  /\ pp # "jump" /\ mvfn.type = "nop" =>
       IF pp = "indirect" THEN s[1] = <<"66">> ELSE s[1] = <<"0f">> /\ s[3] = <<"44">>
  /\ pp # "jump" /\ mvfn.type = "constant" =>
       s[1] = <<"b8">> /\ s[2] = <<"imm", mvfn.constant, 0>>
  /\ pp # "jump" /\ mvfn.type \in {"cli", "sti"} =>
       /\ s[1] = <<IF mvfn.type = "cli" THEN "fa" ELSE "fb">>
       /\ s[2] = <<"0f">> /\ s[4] = <<IF pp = "indirect" THEN "44" ELSE "40">>
  /\ pp # "jump" /\ mvfn.type = "none" => s[1] = <<"e8">>
  /\ pp = "indirect" /\ mvfn.type \in {"constant", "none"} => s[6] = <<"90">>

(* Where the processor may be once the effect of the variant has come.     *)
Stops ==
  {n \in {Len(site)} : pp # "jump"}
    \cup {n \in {6} : pp = "indirect" /\ mvfn.type \in {"constant", "none"}}
    \cup {n \in {2} : pp # "jump" /\ mvfn.type \in {"cli", "sti"}}

SameAs(s, t) == s.eax = t.eax /\ s.iflag = t.iflag /\ s.work = t.work

(* Each instruction of a patch is recognized by its first byte; the two    *)
(* nops that begin alike by their third.                                   *)
LEMMA Executes ==
  ASSUME NEW b, site[cpu.at] = <<b>>, cpu.at \in Nat, Exec
  PROVE  \/ b = "66" /\ Then(cpu, 6)
         \/ b = "0f" /\ site[cpu.at + 2] = <<"40">> /\ Then(cpu, 4)
         \/ b = "0f" /\ site[cpu.at + 2] = <<"44">> /\ Then(cpu, 5)
         \/ b = "90" /\ Then(cpu, 1)
         \/ b = "b8" /\ Then([cpu EXCEPT !.eax = Operand(1)], 5)
         \/ b = "fa" /\ Then([cpu EXCEPT !.iflag = 0], 1)
         \/ b = "fb" /\ Then([cpu EXCEPT !.iflag = 1], 1)
         \/ b = "e8" /\ Then(Effect(cpu, body), 5)
         \/ b = "e9" /\ ExecJump
         \/ Lost
         \/ b = "next" /\ Leave
<1>1. ASSUME NEW code, 1 \in DOMAIN code, Fits(code)
      PROVE  b = code[1][1]
  <2>1. cpu.at + 1 - 1 = cpu.at
    OBVIOUS
  <2>2. site[cpu.at] = <<code[1][1]>>
    BY <1>1, <2>1 DEF Fits, HasByte
  <2> QED BY <2>2
<1>2. ASSUME NEW op, Fits(Byte(op)) PROVE b = op
  <2>1. 1 \in DOMAIN Byte(op) /\ Byte(op)[1][1] = op
    BY DEF Byte
  <2> DEFINE c == Byte(op)
  <2>2. Fits(c) /\ 1 \in DOMAIN c /\ c[1][1] = op
    BY <1>2, <2>1
  <2> HIDE DEF c
  <2> QED BY <1>1, <2>2
<1>3. /\ 1 \in DOMAIN Nop6 /\ Nop6[1][1] = "66" /\ Len(Nop6) = 6
      /\ 1 \in DOMAIN Nop5 /\ 3 \in DOMAIN Nop5 /\ Nop5[1][1] = "0f" /\ Nop5[3][1] = "44" /\ Len(Nop5) = 5
      /\ 1 \in DOMAIN Nop4 /\ 3 \in DOMAIN Nop4 /\ Nop4[1][1] = "0f" /\ Nop4[3][1] = "40" /\ Len(Nop4) = 4
  <2>1. ASSUME NEW s, Sequence(s) PROVE DOMAIN s = 1 .. Len(s)
    BY <2>1, LenProperties DEF Sequence
  <2> QED BY <2>1, Nops
<1>4. ASSUME NEW code, 3 \in DOMAIN code, Fits(code)
      PROVE  site[cpu.at + 2] = <<code[3][1]>>
  <2>1. cpu.at + 3 - 1 = cpu.at + 2
    OBVIOUS
  <2> QED BY <1>4, <2>1 DEF Fits, HasByte
<1>5. CASE ExecNop
  <2>1. CASE Fits(Nop4) /\ Then(cpu, Len(Nop4))
    <3>1. b = Nop4[1][1]
      BY <1>1, <1>3, <2>1
    <3>2. site[cpu.at + 2] = <<Nop4[3][1]>>
      BY <1>3, <1>4, <2>1
    <3> QED BY <1>3, <2>1, <3>1, <3>2
  <2>2. CASE Fits(Nop5) /\ Then(cpu, Len(Nop5))
    <3>1. b = Nop5[1][1]
      BY <1>1, <1>3, <2>2
    <3>2. site[cpu.at + 2] = <<Nop5[3][1]>>
      BY <1>3, <1>4, <2>2
    <3> QED BY <1>3, <2>2, <3>1, <3>2
  <2>3. CASE Fits(Nop6) /\ Then(cpu, Len(Nop6))
    <3>1. b = Nop6[1][1]
      BY <1>1, <1>3, <2>3
    <3> QED BY <1>3, <2>3, <3>1
  <2>4. CASE Fits(Byte("90")) /\ Then(cpu, Len(Byte("90")))
    BY <1>2, <2>4, OneByte
  <2> QED BY <1>5, <2>1, <2>2, <2>3, <2>4 DEF ExecNop
<1>6. CASE ExecMov
  BY <1>2, <1>6 DEF ExecMov
<1>7. CASE ExecIrq
  BY <1>2, <1>7 DEF ExecIrq
<1>8. CASE ExecCall
  BY <1>2, <1>8 DEF ExecCall, Reaches
<1>9. CASE ExecJump
  BY <1>2, <1>9 DEF ExecJump, Reaches
<1>10. CASE Leave
  BY <1>2, <1>10 DEF Leave
<1> QED BY <1>5, <1>6, <1>7, <1>8, <1>9, <1>10 DEF Exec
-----------------------------------------------------------------------------
(* The inductive invariant: the patch is the one the body calls for, and   *)
(* the processor either has not begun, or has had the effect of the        *)
(* variant exactly once.                                                   *)
RInv ==
  /\ PInv
  /\ body \in Bodies /\ site \in Seq(AnyByte) /\ pp \in PPType \cup {"tail", "refused"}
  /\ mvfn \in [type : {"none", "nop", "constant", "cli", "sti"}, constant : 0 .. Word - 1]
  /\ pc # "body" => StandsFor(mvfn, body)
  /\ pc \notin {"run", "done", "lost"} => cpu = Fresh
  /\ pc = "run" =>
       /\ Laid(site)
       /\ \/ cpu = Fresh
          \/ /\ cpu \in Cpu(cpu.at) /\ cpu.at \in Stops
             /\ SameAs(cpu, Effect(Fresh, body))
  /\ pc = "done" => SameAs(cpu, Effect(Fresh, body))
  /\ cpu.at \in 1 .. Len(site)

(* What a step of the processor does to it. *)
Ran ==
  \/ pc' = "lost" /\ cpu' = cpu
  \/ /\ pc' = "run" /\ cpu' \in Cpu(cpu'.at) /\ cpu'.at \in Stops
     /\ SameAs(cpu', Effect(Fresh, body))
  \/ pc' = "done" /\ cpu'.at = cpu.at /\ SameAs(cpu', Effect(Fresh, body))

LEMMA FreshCpu == Fresh \in Cpu(1) /\ Fresh.at = 1
BY DEF Fresh, Cpu

LEMMA RunBegins ==
  ASSUME RInv, pc = "run", cpu = Fresh, Exec
  PROVE  Ran
<1>1. /\ Laid(site) /\ StandsFor(mvfn, body) /\ body \in Bodies /\ pp \in PPType
      /\ Len(site) = PPSize[pp] + 1
      /\ mvfn.type \in {"none", "nop", "constant", "cli", "sti"}
  BY DEF RInv, PInv, Filled, StandsFor
<1>2. cpu.at = 1 /\ cpu.at \in Nat /\ cpu \in Cpu(1)
  BY FreshCpu
<1> DEFINE want == Effect(Fresh, body)
<1>3. want \in Cpu(1)
  BY <1>1, FreshCpu, EffectKeepsCpu
<1>4. CASE pp = "jump"
  <2>1. site[cpu.at] = <<"e9">>
    BY <1>1, <1>2, <1>4 DEF Laid
  <2>2. ExecJump \/ Lost
    BY <1>2, <2>1, Executes
  <2>3. CASE ExecJump
    <3>1. pc' = "done" /\ cpu' = want
      BY <2>3 DEF ExecJump
    <3>2. cpu'.at = 1
      BY <1>3, <3>1 DEF Cpu
    <3> QED BY <1>2, <3>1, <3>2 DEF Ran, SameAs
  <2> QED BY <2>2, <2>3 DEF Ran, Lost
<1> DEFINE Past(s) == s.at = Len(site) \/ (s.at = 6 /\ pp = "indirect" /\ mvfn.type \in {"constant", "none"})
                      \/ (s.at = 2 /\ mvfn.type \in {"cli", "sti"})
<1>5. ASSUME pp # "jump", pc' = pc, Past(cpu'), cpu' \in Cpu(cpu'.at), SameAs(cpu', want) PROVE Ran
  BY <1>5 DEF Ran, Stops
<1>6. CASE pp # "jump" /\ mvfn.type = "nop"
  <2>1. want = cpu
    BY <1>1, <1>6, EffectOfNone DEF StandsFor
  <2>2. CASE pp = "indirect"
    <3>1. site[cpu.at] = <<"66">> /\ Len(site) = 7
      BY <1>1, <1>2, <1>6, <2>2 DEF Laid, PPSize
    <3>2. Then(cpu, 6) \/ Lost
      BY <1>2, <3>1, Executes
    <3>3. CASE Then(cpu, 6)
      <4>1. cpu' = [cpu EXCEPT !.at = 7] /\ pc' = pc
        BY <1>2, <3>3 DEF Then
      <4>2. cpu'.at = 7 /\ cpu' \in Cpu(7) /\ SameAs(cpu', cpu)
        BY <1>2, <4>1 DEF Cpu, SameAs
      <4> QED BY <1>5, <1>6, <2>1, <3>1, <4>1, <4>2
    <3> QED BY <3>2, <3>3 DEF Ran, Lost
  <2>3. CASE pp # "indirect"
    <3>1. site[cpu.at] = <<"0f">> /\ site[3] = <<"44">> /\ Len(site) = 6
      BY <1>1, <1>2, <1>6, <2>3 DEF Laid, PPSize, PPType
    <3>2. site[cpu.at + 2] = <<"44">>
      BY <1>2, <3>1
    <3>3. Then(cpu, 5) \/ Lost
      BY <1>2, <3>1, <3>2, Executes
    <3>4. CASE Then(cpu, 5)
      <4>1. cpu' = [cpu EXCEPT !.at = 6] /\ pc' = pc
        BY <1>2, <3>4 DEF Then
      <4>2. cpu'.at = 6 /\ cpu' \in Cpu(6) /\ SameAs(cpu', cpu)
        BY <1>2, <4>1 DEF Cpu, SameAs
      <4> QED BY <1>5, <1>6, <2>1, <3>1, <4>1, <4>2
    <3> QED BY <3>3, <3>4 DEF Ran, Lost
  <2> QED BY <2>2, <2>3
<1>7. pp # "jump" => /\ pp = "indirect" => Len(site) = 7
                     /\ pp # "indirect" => Len(site) = 6
  BY <1>1 DEF PPSize, PPType
<1>8. CASE pp # "jump" /\ mvfn.type = "constant"
  <2>1. PICK i \in Instructions :
          /\ body.instrs = <<i>>
          /\ \/ i.op = "xor" /\ mvfn.constant = 0
             \/ i.op = "mov" /\ mvfn.constant = i.v
    <3>1. mvfn.type # "nop" /\ mvfn.type # "none"
      BY <1>8
    <3> QED BY <1>1, <1>8, <3>1, Zenon DEF StandsFor
  <2>2. want = [Fresh EXCEPT !.eax = mvfn.constant]
    BY <2>1, EffectOfOne DEF Do
  <2>3. site[cpu.at] = <<"b8">> /\ site[2] = <<"imm", mvfn.constant, 0>>
    BY <1>1, <1>2, <1>8 DEF Laid
  <2>4. Operand(1) = mvfn.constant
    BY <1>2, <2>3 DEF Operand
  <2>5. Then([cpu EXCEPT !.eax = mvfn.constant], 5) \/ Lost
    BY <1>2, <2>3, <2>4, Executes
  <2>6. CASE Then([cpu EXCEPT !.eax = mvfn.constant], 5)
    <3>1. cpu' = [want EXCEPT !.at = 6] /\ pc' = pc
      BY <1>2, <2>2, <2>6 DEF Then
    <3>2. cpu'.at = 6 /\ cpu' \in Cpu(6) /\ SameAs(cpu', want)
      BY <1>3, <3>1 DEF Cpu, SameAs
    <3> QED BY <1>5, <1>7, <1>8, <3>1, <3>2
  <2> QED BY <2>5, <2>6 DEF Ran, Lost
<1>9. CASE pp # "jump" /\ mvfn.type \in {"cli", "sti"}
  <2> DEFINE f == IF mvfn.type = "cli" THEN 0 ELSE 1
  <2>1. PICK i \in Instructions : body.instrs = <<i>> /\ i.op = mvfn.type
    BY <1>1, <1>9 DEF StandsFor
  <2>2. want = [Fresh EXCEPT !.iflag = f]
    BY <1>9, <2>1, EffectOfOne DEF Do
  <2>3. site[cpu.at] = <<IF mvfn.type = "cli" THEN "fa" ELSE "fb">>
    BY <1>1, <1>2, <1>9 DEF Laid
  <2>4. Then([cpu EXCEPT !.iflag = f], 1) \/ Lost
    <3>1. CASE mvfn.type = "cli"
      BY <1>2, <2>3, <3>1, Executes
    <3>2. CASE mvfn.type # "cli"
      BY <1>2, <2>3, <3>2, Executes
    <3> QED BY <3>1, <3>2
  <2>5. CASE Then([cpu EXCEPT !.iflag = f], 1)
    <3>1. cpu' = [want EXCEPT !.at = 2] /\ pc' = pc
      BY <1>2, <2>2, <2>5 DEF Then
    <3>2. cpu'.at = 2 /\ cpu' \in Cpu(2) /\ SameAs(cpu', want)
      BY <1>3, <3>1 DEF Cpu, SameAs
    <3> QED BY <1>5, <1>9, <3>1, <3>2
  <2> QED BY <2>4, <2>5 DEF Ran, Lost
<1>10. CASE pp # "jump" /\ mvfn.type = "none"
  <2>1. site[cpu.at] = <<"e8">>
    BY <1>1, <1>2, <1>10 DEF Laid
  <2>2. Then(want, 5) \/ Lost
    BY <1>2, <2>1, Executes
  <2>3. CASE Then(want, 5)
    <3>1. cpu' = [want EXCEPT !.at = 6] /\ pc' = pc
      BY <1>2, <2>3 DEF Then
    <3>2. cpu'.at = 6 /\ cpu' \in Cpu(6) /\ SameAs(cpu', want)
      BY <1>3, <3>1 DEF Cpu, SameAs
    <3> QED BY <1>5, <1>7, <1>10, <3>1, <3>2
  <2> QED BY <2>2, <2>3 DEF Ran, Lost
<1> QED BY <1>1, <1>4, <1>6, <1>8, <1>9, <1>10

LEMMA RunGoesOn ==
  ASSUME RInv, pc = "run", cpu \in Cpu(cpu.at), cpu.at \in Stops,
         SameAs(cpu, Effect(Fresh, body)), Exec
  PROVE  Ran
<1>1. /\ Laid(site) /\ pp \in PPType /\ Len(site) = PPSize[pp] + 1
      /\ site[Len(site)] = <<"next">>
  BY DEF RInv, PInv, Filled
<1>2. pp # "jump"
  BY DEF Stops
<1>3. (pp = "indirect" => Len(site) = 7) /\ (pp # "indirect" => Len(site) = 6)
  BY <1>1, <1>2 DEF PPSize, PPType
<1>4. ASSUME NEW n \in Nat, Then(cpu, n), cpu.at + n = Len(site) PROVE Ran
  <2>1. cpu' = [cpu EXCEPT !.at = Len(site)] /\ pc' = pc
    BY <1>4 DEF Then
  <2>2. cpu'.at = Len(site) /\ cpu' \in Cpu(Len(site)) /\ SameAs(cpu', cpu)
    BY <2>1 DEF Cpu, SameAs
  <2>3. Len(site) \in Stops
    BY <1>2 DEF Stops
  <2> QED BY <2>1, <2>2, <2>3 DEF Ran, SameAs
<1>5. CASE cpu.at = Len(site)
  <2>1. site[cpu.at] = <<"next">> /\ cpu.at \in Nat
    BY <1>1, <1>3, <1>5
  <2>2. Leave \/ Lost
    BY <2>1, Executes
  <2> QED BY <2>2 DEF Ran, Leave, Lost
<1>6. CASE cpu.at = 6 /\ pp = "indirect" /\ mvfn.type \in {"constant", "none"}
  <2>1. site[cpu.at] = <<"90">> /\ cpu.at \in Nat
    BY <1>1, <1>6 DEF Laid
  <2>2. Then(cpu, 1) \/ Lost
    BY <2>1, Executes
  <2> QED BY <1>3, <1>4, <1>6, <2>2 DEF Ran, Lost
<1>7. CASE cpu.at = 2 /\ mvfn.type \in {"cli", "sti"}
  <2>1. site[cpu.at] = <<"0f">> /\ cpu.at \in Nat /\ site[4] = <<IF pp = "indirect" THEN "44" ELSE "40">>
    BY <1>1, <1>2, <1>7 DEF Laid
  <2>2. site[cpu.at + 2] = <<IF pp = "indirect" THEN "44" ELSE "40">>
    BY <1>7, <2>1
  <2>3. CASE pp = "indirect"
    <3>1. Then(cpu, 5) \/ Lost
      BY <2>1, <2>2, <2>3, Executes
    <3> QED BY <1>3, <1>4, <1>7, <2>3, <3>1 DEF Ran, Lost
  <2>4. CASE pp # "indirect"
    <3>1. Then(cpu, 4) \/ Lost
      BY <2>1, <2>2, <2>4, Executes
    <3> QED BY <1>3, <1>4, <1>7, <2>4, <3>1 DEF Ran, Lost
  <2> QED BY <2>3, <2>4
<1> QED BY <1>5, <1>6, <1>7 DEF Stops
-----------------------------------------------------------------------------
LEMMA JoinedBytes ==
  ASSUME NEW s \in Seq(AnyByte), NEW t \in Seq(AnyByte)
  PROVE  s \o t \in Seq(AnyByte)
BY ConcatProperties

LEMMA NopBytes ==
  Nop6 \in Seq(AnyByte) /\ Nop5 \in Seq(AnyByte) /\ Nop4 \in Seq(AnyByte)
<1> DEFINE n6 == <<"66", "0f", "1f", "44", "00", "00">>
           n5 == <<"0f", "1f", "44", "00", "00">>
           n4 == <<"0f", "1f", "40", "00">>
           B == {"66", "0f", "1f", "44", "40", "00"}
<1>1. n6 \in Seq(B) /\ n5 \in Seq(B) /\ n4 \in Seq(B)
  OBVIOUS
<1>2. Nop6 = Bytes(n6) /\ Nop5 = Bytes(n5) /\ Nop4 = Bytes(n4)
  BY DEF Nop6, Nop5, Nop4
<1> HIDE DEF n6, n5, n4
<1>3. ASSUME NEW s \in Seq(B) PROVE Bytes(s) \in Seq(AnyByte)
  <2>1. Sequence(s)
    BY DEF Sequence
  <2>2. \A i \in 1 .. Len(s) : s[i] \in Opcodes
    BY ElementOfSeq DEF Opcodes
  <2> QED BY <2>1, <2>2, OpcodeBytes
<1> QED BY <1>1, <1>2, <1>3

LEMMA OriginalBytes ==
  ASSUME NEW t \in PPType \cup {"tail"}, NEW v \in 0 .. Word - 1
  PROVE  Original(t, v) \in Seq(AnyByte)
<1>1. /\ Byte("e8") \in Seq(AnyByte) /\ Byte("e9") \in Seq(AnyByte)
      /\ Imm(v) \in Seq(AnyByte)
  BY OpcodeByte, ImmediateBytes DEF Opcodes
<1>2. ASSUME NEW s, NEW B, B \subseteq Opcodes, s \in Seq(B) PROVE Bytes(s) \in Seq(AnyByte)
  <2>1. Sequence(s)
    BY <1>2 DEF Sequence
  <2>2. \A i \in 1 .. Len(s) : s[i] \in Opcodes
    BY <1>2, ElementOfSeq
  <2> QED BY <2>1, <2>2, OpcodeBytes
<1>3. CASE t = "call"
  BY <1>1, <1>3, JoinedBytes DEF Original
<1>4. CASE t = "indirect"
  <2> DEFINE c == <<"ff", "15">>
  <2>1. c \in Seq({"ff", "15"}) /\ {"ff", "15"} \subseteq Opcodes
    BY DEF Opcodes
  <2>2. Bytes(c) \in Seq(AnyByte)
    BY <1>2, <2>1
  <2> HIDE DEF c
  <2>3. Bytes(c) \o Imm(v) \in Seq(AnyByte)
    BY <1>1, <2>2, JoinedBytes
  <2> QED BY <1>4, <2>3 DEF Original, c
<1>5. CASE t = "jump"
  <2> DEFINE c == <<"work", "work", "work", "work", "work">>
  <2>1. c \in Seq({"work"}) /\ {"work"} \subseteq Opcodes
    BY DEF Opcodes
  <2>2. Bytes(c) \in Seq(AnyByte)
    BY <1>2, <2>1
  <2> QED BY <1>5, <2>2 DEF Original
<1>6. CASE t = "tail"
  BY <1>1, <1>6, JoinedBytes DEF Original
<1> QED BY <1>3, <1>4, <1>5, <1>6 DEF PPType

LEMMA InitRInv == Init => RInv
<1> SUFFICES ASSUME Init PROVE RInv
  OBVIOUS
<1>1. PInv
  BY InitPInv
<1>2. Word \in Nat \ {0}
  BY CodecAssumption DEF Word
<1>3. PICK v \in Immediates : site = Original(pp, v) \o Byte("next")
  BY DEF Init
<1>4. pp \in PPType \cup {"tail"} /\ v \in 0 .. Word - 1 /\ "next" \in Opcodes
  BY CodecAssumption DEF Init, Opcodes
<1>5. site \in Seq(AnyByte)
  BY <1>3, <1>4, OriginalBytes, OpcodeByte, JoinedBytes
<1>6. 1 \in 1 .. Len(site)
  <2>1. Len(site) \in Nat /\ Len(site) > 0
    <3>1. Compiled
      BY <1>1, <1>4 DEF PInv, Init
    <3>2. Len(site) = 6 \/ Len(site) = 7 \/ Len(site) \in Nat \ {0}
      BY <1>4, <3>1 DEF Compiled, PPType
    <3> DEFINE n == Len(site)
    <3> HIDE DEF n
    <3>3. n = 6 \/ n = 7 \/ n \in Nat \ {0}
      BY <3>2 DEF n
    <3>4. n \in Nat /\ n > 0
      BY <3>3
    <3> QED BY <3>4 DEF n
  <2> QED BY <2>1
<1>7. cpu = Fresh /\ cpu.at = 1 /\ pc = "body" /\ mvfn = Type("none") /\ body \in Bodies
  BY DEF Init, Fresh
<1> QED BY <1>1, <1>2, <1>4, <1>5, <1>6, <1>7 DEF RInv, Type

(* A patch lays out its instructions, of bytes all.                        *)
LEMMA PatchRInv ==
  ASSUME RInv, NEW code, pc = "patch", Patch(code), PInv',
         code \in Seq(AnyByte), Len(code) = PPSize[pp], Laid(code)
  PROVE  RInv'
<1>1. /\ PInv /\ Filled /\ site \in Seq(AnyByte) /\ cpu = Fresh /\ cpu.at = 1
      /\ body \in Bodies /\ StandsFor(mvfn, body)
      /\ mvfn \in [type : {"none", "nop", "constant", "cli", "sti"}, constant : 0 .. Word - 1]
  BY FreshCpu DEF RInv, PInv
<1>2. /\ UNCHANGED <<body, loc, to, pp, mvfn, cpu>> /\ pc' = "run"
      /\ site' = Written(site, code)
  BY DEF Patch, Overwrite, Written
<1>3. pp \in PPType /\ Len(site) = Len(code) + 1
  BY <1>1 DEF Filled
<1>4. Sequence(site) /\ Sequence(code)
  BY <1>1 DEF Sequence
<1>5. /\ Len(site') = Len(site)
      /\ \A i \in 1 .. Len(code) : site'[i] = code[i]
  <2>1. /\ Len(Written(site, code)) = Len(site)
        /\ \A i \in 1 .. Len(code) : Written(site, code)[i] = code[i]
    BY ONLY <1>3, <1>4, Overwritten
  <2> QED BY <1>2, <2>1
<1>6. site' \in Seq(AnyByte)
  <2>1. Len(code) \in Nat /\ Len(site) \in Nat
    BY <1>1, LenProperties
  <2>2. SubSeq(site, Len(code) + 1, Len(site)) \in Seq(AnyByte)
    BY <1>1, <1>3, <2>1, SubSeqProperties
  <2>3. Written(site, code) \in Seq(AnyByte)
    BY <2>2, JoinedBytes DEF Written
  <2> QED BY <1>2, <2>3
<1>7. /\ pp = "indirect" => Len(code) = 6
      /\ pp # "indirect" => Len(code) = 5
  BY <1>3 DEF PPSize, PPType
<1>8. /\ \A i \in {1, 2, 3, 4} : site'[i] = code[i]
      /\ pp = "indirect" => site'[6] = code[6]
  BY <1>5, <1>7
<1>9. Laid(site)'
  BY <1>2, <1>8 DEF Laid
<1>10. 1 \in 1 .. Len(site')
  BY <1>3, <1>5, <1>7
<1> QED BY <1>1, <1>2, <1>3, <1>6, <1>9, <1>10 DEF RInv, Fresh, StandsFor

(* The code of every kind of patch.                                        *)
LEMMA OffsetBytes ==
  ASSUME PInv
  PROVE  Imm(Offset(to, loc)) \in Seq(AnyByte)
<1>1. Word \in Nat \ {0} /\ to \in Int /\ loc \in Int
  BY CodecAssumption DEF Word, PInv
<1> DEFINE d == to - (loc + 5)
<1>2. d \in Int
  BY <1>1
<1>3. Offset(to, loc) = d % Word
  BY DEF Offset, Truncate
<1> HIDE DEF d
<1>4. d % Word \in 0 .. Word - 1
  BY <1>1, <1>2
<1> QED BY <1>3, <1>4, ImmediateBytes

LEMMA TrailingBytes ==
  ASSUME NEW s, NEW t, s \in Seq(AnyByte), t \in Seq(AnyByte)
  PROVE  Trailing(s, t) \in Seq(AnyByte)
BY DEF Trailing

LEMMA NoBytes == <<>> \in Seq(AnyByte)
BY EmptySeq

LEMMA PatchesLaid ==
  ASSUME RInv, PInv', PatchJump \/ PatchNop \/ PatchConstant \/ PatchIrq \/ PatchCall
  PROVE  RInv'
<1>1. /\ PInv
      /\ pc = "patch" => pp \in PPType
      /\ mvfn \in [type : {"none", "nop", "constant", "cli", "sti"}, constant : 0 .. Word - 1]
  BY DEF RInv, PInv, Filled
<1> DEFINE x90 == Byte("90")
           e == <<>>
<1>2. /\ Imm(Offset(to, loc)) \in Seq(AnyByte) /\ Imm(mvfn.constant) \in Seq(AnyByte)
      /\ \A op \in Opcodes : Byte(op) \in Seq(AnyByte)
      /\ x90 \in Seq(AnyByte) /\ e \in Seq(AnyByte)
  <2>1. \A op \in Opcodes : Byte(op) \in Seq(AnyByte)
    BY OpcodeByte
  <2>2. "90" \in Opcodes
    BY DEF Opcodes
  <2> QED BY <1>1, <2>1, <2>2, OffsetBytes, ImmediateBytes, NoBytes
<1>3. /\ "e8" \in Opcodes /\ "e9" \in Opcodes /\ "b8" \in Opcodes
      /\ "fa" \in Opcodes /\ "fb" \in Opcodes
  BY DEF Opcodes
<1>4. CASE PatchJump
  <2> DEFINE code == Byte("e9") \o Imm(Offset(to, loc))
  <2>1. pp = "jump" /\ pc = "patch" /\ Patch(code)
    BY <1>4 DEF PatchJump
  <2>2. Sequence(code) /\ Len(code) = 5 /\ code[1] = <<"e9">>
    BY OpcodeAndOperand
  <2>3. code \in Seq(AnyByte)
    BY <1>2, <1>3, JoinedBytes
  <2> HIDE DEF code
  <2>4. Len(code) = PPSize[pp] /\ Laid(code)
    BY <2>1, <2>2 DEF PPSize, Laid
  <2> QED BY <2>1, <2>3, <2>4, PatchRInv
<1>5. CASE PatchNop
  <2> DEFINE code == Trailing(Nop5, Nop6)
  <2>1. pc = "patch" /\ pp # "jump" /\ Patch(code) /\ pp \in PPType /\ mvfn.type = "nop"
    BY <1>1, <1>5 DEF PatchNop, AtCall
  <2>2. code \in Seq(AnyByte)
    BY NopBytes, TrailingBytes
  <2>3. Len(code) = PPSize[pp] /\ Laid(code)
    <3>1. CASE pp = "indirect"
      <4>1. code = Nop6
        BY <3>1 DEF Trailing
      <4> QED BY <2>1, <3>1, <4>1, Nops DEF PPSize, Laid
    <3>2. CASE pp = "call"
      <4>1. code = Nop5
        BY <3>2 DEF Trailing
      <4> QED BY <2>1, <3>2, <4>1, Nops DEF PPSize, Laid
    <3> QED BY <2>1, <3>1, <3>2 DEF PPType
  <2> HIDE DEF code
  <2> QED BY <2>1, <2>2, <2>3, PatchRInv
<1>6. CASE PatchConstant
  <2> DEFINE v == mvfn.constant
             c == Byte("b8") \o Imm(v)
             code == c \o Trailing(<<>>, Byte("90"))
  <2>1. pc = "patch" /\ pp # "jump" /\ Patch(code) /\ pp \in PPType /\ mvfn.type = "constant"
    BY <1>1, <1>6 DEF PatchConstant, AtCall
  <2>2. Sequence(c) /\ Len(c) = 5 /\ c[1] = <<"b8">> /\ c[2] = <<"imm", v, 0>>
    <3>1. Sequence(c) /\ Len(c) = 5 /\ c[1] = <<"b8">> /\ \A k \in 0 .. 3 : c[2 + k] = <<"imm", v, k>>
      BY OpcodeAndOperand
    <3> HIDE DEF c, v
    <3>2. c[2 + 0] = <<"imm", v, 0>>
      BY <3>1
    <3> QED BY <3>1, <3>2
  <2>3. c \in Seq(AnyByte)
    BY <1>2, <1>3, JoinedBytes
  <2> HIDE DEF c, v
  <2>4. /\ Len(code) = PPSize[pp] /\ code[1] = c[1] /\ \A i \in 1 .. Len(c) : code[i] = c[i]
        /\ pp = "indirect" => code[6] = <<"90">>
    BY <2>1, <2>2, PaddedCall
  <2>5. code \in Seq(AnyByte)
    BY <1>2, <2>3, TrailingBytes, JoinedBytes
  <2> HIDE DEF code
  <2>6. code[2] = c[2]
    BY <2>2, <2>4
  <2>7. Laid(code)
    BY <2>1, <2>2, <2>4, <2>6 DEF Laid, v
  <2> QED BY <2>1, <2>4, <2>5, <2>7, PatchRInv
<1>7. CASE PatchIrq
  <2> DEFINE op == IF mvfn.type = "cli" THEN "fa" ELSE "fb"
             t == Trailing(Nop4, Nop5)
             code == Byte(op) \o t
  <2>1. /\ pc = "patch" /\ pp # "jump" /\ Patch(code) /\ pp \in PPType
        /\ mvfn.type \in {"cli", "sti"}
    BY <1>1, <1>7 DEF PatchIrq, AtCall
  <2>2. /\ t \in Seq(AnyByte)
        /\ 1 + Len(t) = PPSize[pp] /\ Len(t) \in {4, 5}
        /\ t[1] = <<"0f">> /\ t[3] = <<IF pp = "indirect" THEN "44" ELSE "40">>
    <3>1. CASE pp = "indirect"
      <4>1. t = Nop5
        BY <3>1 DEF Trailing
      <4> HIDE DEF t
      <4> QED BY <3>1, <4>1, Nops, NopBytes DEF PPSize
    <3>2. CASE pp = "call"
      <4>1. t = Nop4
        BY <3>2 DEF Trailing
      <4> HIDE DEF t
      <4> QED BY <3>2, <4>1, Nops, NopBytes DEF PPSize
    <3> QED BY <2>1, <3>1, <3>2 DEF PPType
  <2> HIDE DEF t
  <2>3. /\ Len(code) = 1 + Len(t) /\ code[1] = <<op>>
        /\ \A i \in 1 .. Len(t) : code[1 + i] = t[i]
    <3>1. Sequence(t)
      BY <2>2 DEF Sequence
    <3> HIDE DEF op
    <3>2. LET c == Byte(op) \o t
          IN /\ Sequence(c) /\ Len(c) = 1 + Len(t) /\ c[1] = <<op>>
             /\ \A i \in 1 .. Len(t) : c[1 + i] = t[i]
      BY ONLY <3>1, OpcodeFirst
    <3> QED BY <3>2
  <2>4. code \in Seq(AnyByte)
    <3>1. op \in Opcodes
      BY <1>3
    <3> HIDE DEF op
    <3>2. Byte(op) \in Seq(AnyByte)
      BY <1>2, <3>1
    <3> QED BY <2>2, <3>2, JoinedBytes
  <2> HIDE DEF code
  <2>5. code[2] = <<"0f">> /\ code[4] = <<IF pp = "indirect" THEN "44" ELSE "40">>
    <3>1. 1 \in 1 .. Len(t) /\ 3 \in 1 .. Len(t) /\ 1 + 1 = 2 /\ 1 + 3 = 4
      BY <2>2
    <3>2. code[2] = t[1] /\ code[4] = t[3]
      BY <2>3, <3>1
    <3> QED BY <2>2, <3>2
  <2>6. Laid(code)
    BY <2>1, <2>3, <2>5 DEF Laid
  <2>7. Len(code) = PPSize[pp]
    BY <2>2, <2>3
  <2> QED BY <2>1, <2>4, <2>6, <2>7, PatchRInv
<1>8. CASE PatchCall
  <2> DEFINE v == Offset(to, loc)
             c == Byte("e8") \o Imm(v)
             code == c \o Trailing(<<>>, Byte("90"))
  <2>1. pc = "patch" /\ pp # "jump" /\ Patch(code) /\ pp \in PPType /\ mvfn.type = "none"
    BY <1>1, <1>8 DEF PatchCall, AtCall
  <2>2. Sequence(c) /\ Len(c) = 5 /\ c[1] = <<"e8">>
    BY OpcodeAndOperand
  <2>3. c \in Seq(AnyByte)
    BY <1>2, <1>3, JoinedBytes
  <2> HIDE DEF c
  <2>4. /\ Len(code) = PPSize[pp] /\ code[1] = c[1]
        /\ pp = "indirect" => code[6] = <<"90">>
    BY <2>1, <2>2, PaddedCall
  <2>5. code \in Seq(AnyByte)
    BY <1>2, <2>3, TrailingBytes, JoinedBytes
  <2> HIDE DEF code
  <2>6. Laid(code)
    BY <2>1, <2>2, <2>4 DEF Laid
  <2> QED BY <2>1, <2>4, <2>5, <2>6, PatchRInv
<1> QED BY <1>4, <1>5, <1>6, <1>7, <1>8

LEMMA NextRInv == RInv /\ [Next]_vars => RInv'
<1> SUFFICES ASSUME RInv, [Next]_vars PROVE RInv'
  OBVIOUS
<1>1. PInv'
  BY NextPInv DEF RInv
<1>2. CASE DecodeBody
  <2>1. /\ UNCHANGED <<body, loc, to, pp, site, cpu>> /\ pc = "body" /\ pc' = "site"
        /\ mvfn' = DecodeMvfn(Code(body))
    BY <1>2 DEF DecodeBody
  <2>2. StandsFor(mvfn', body)
    BY <2>1, Recognized DEF RInv
  <2> QED BY <1>1, <2>1, <2>2 DEF RInv, StandsFor, Fresh
<1>3. CASE DecodeSite
  <2>1. /\ UNCHANGED <<body, loc, to, mvfn, site, cpu>> /\ pc = "site"
        /\ pc' \in {"refused", "patch"}
    BY <1>3 DEF DecodeSite
  <2>2. pp' \in PPType \cup {"tail", "refused"}
    <3>1. CASE pp = "jump"
      BY <1>3, <3>1 DEF DecodeSite, PPType
    <3>2. CASE pp # "jump"
      BY <1>3, <3>2 DEF DecodeSite, Decoded, Callee, PPType
    <3> QED BY <3>1, <3>2
  <2> QED BY <1>1, <2>1, <2>2 DEF RInv, StandsFor, Fresh
<1>4. CASE PatchJump \/ PatchNop \/ PatchConstant \/ PatchIrq \/ PatchCall
  BY <1>1, <1>4, PatchesLaid
<1>5. CASE Exec
  <2>1. UNCHANGED <<body, loc, to, pp, mvfn, site>> /\ pc = "run"
    BY <1>5 DEF Exec, ExecNop, ExecMov, ExecIrq, ExecCall, ExecJump, Lost, Leave,
       Reaches, Fits, Then
  <2>2. Ran
    BY <1>5, <2>1, RunBegins, RunGoesOn DEF RInv
  <2>3. Laid(site)' /\ Stops' = Stops /\ Effect(Fresh, body)' = Effect(Fresh, body)
    <3>1. Laid(site)
      BY <2>1 DEF RInv
    <3>2. Laid(site)'
      BY <2>1, <3>1 DEF Laid
    <3>3. Stops' = Stops
      BY <2>1 DEF Stops
    <3> QED BY <2>1, <3>2, <3>3 DEF Effect, Fresh
  <2>4. Stops \subseteq 1 .. Len(site)
    BY <2>1 DEF RInv, PInv, Filled, Stops, PPSize, PPType
  <2>5. cpu'.at \in 1 .. Len(site)
    BY <2>2, <2>4 DEF Ran, RInv
  <2>6. StandsFor(mvfn, body)'
    BY <2>1 DEF RInv, StandsFor
  <2>7. SameAs(cpu', Effect(Fresh, body)) => SameAs(cpu, Effect(Fresh, body))'
    BY <2>3 DEF SameAs
  <2> QED BY <1>1, <2>1, <2>2, <2>3, <2>5, <2>6, <2>7 DEF RInv, Ran, Cpu
<1>6. CASE Stopped \/ UNCHANGED vars
  <2>1. UNCHANGED vars
    BY <1>6 DEF Stopped
  <2> QED BY <1>1, <2>1 DEF RInv, vars, Laid, Stops, SameAs, Effect, Fresh, StandsFor, Cpu
<1> QED BY <1>2, <1>3, <1>4, <1>5, <1>6 DEF Next

(* The types of everything decoded, written and executed: a constant or an *)
(* operand is a number of 32 bits, and the processor is always at a byte   *)
(* of the patch point or at the one behind it, never beyond.               *)
THEOREM CodecTypes == Spec => []TypeOK
<1>1. RInv => TypeOK
  <2> SUFFICES ASSUME RInv PROVE TypeOK
    OBVIOUS
  <2>1. ASSUME NEW i \in DOMAIN site, Len(site[i]) = 3 PROVE site[i][2] \in 0 .. Word - 1
    <3>1. site[i] \in AnyByte
      BY LenProperties, ElementOfSeq DEF RInv
    <3>2. \A op : Len(<<op>>) = 1
      OBVIOUS
    <3>3. PICK v \in 0 .. Word - 1, k \in 0 .. 3 : site[i] = <<"imm", v, k>>
      BY <2>1, <3>1, <3>2 DEF AnyByte
    <3> QED BY <3>3
  <2>2. DOMAIN site = 1 .. Len(site)
    BY LenProperties DEF RInv
  <2> QED BY <2>1, <2>2 DEF RInv, TypeOK
<1> QED BY <1>1, InitRInv, NextRInv, PTL DEF Spec

(* decode_mvfn_body and patchpoint_apply together: for every body, of any  *)
(* length, executing what was put in place of a call has the effect of     *)
(* calling the variant, once, and leaves right behind the call.            *)
THEOREM TrivialBodiesInPlace == Spec => []SameEffect
<1>1. RInv => SameEffect
  BY DEF RInv, SameEffect, SameAs
<1> QED BY <1>1, InitRInv, NextRInv, PTL DEF Spec
=============================================================================
