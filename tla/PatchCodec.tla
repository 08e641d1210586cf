------------------------------ MODULE PatchCodec ------------------------------
(***************************************************************************)
(* Instructions: how bintail recognizes trivial variants (MVmvfn's         *)
(* constructor), decodes a call site (decode_callsite) and encodes a patch *)
(* (patchpoint_apply), and what a processor then does at the patched       *)
(* place.  This is the ground on which Multiverse takes a patched call for *)
(* "reaches the variant" or "has its body in place".                       *)
(*                                                                         *)
(* A byte is a sequence of one opcode, or one of the four bytes of a       *)
(* little-endian number of 32 bits, kept together as <<"imm", v, k>>.      *)
(***************************************************************************)
EXTENDS Integers, Sequences, Folds, SequencesExt

CONSTANTS
  HalfWord,   \* 2^31
  Bodies,     \* the bodies of variants: sequences of instructions
  Immediates, \* constants a variant may return
  Locations,  \* addresses of patch points
  Targets     \* addresses of variants

Word == 2 * HalfWord
PPType == {"call", "indirect", "jump"}
PPSize == [call |-> 5, indirect |-> 6, jump |-> 5]

(* What a compiler may put in front of a ret; "work" is any other code.    *)
Instructions ==
  {[op |-> op, v |-> 0] : op \in {"xor", "cli", "sti", "work"}}
    \cup {[op |-> "mov", v |-> v] : v \in 0 .. Word - 1}

ASSUME CodecAssumption ==
  /\ HalfWord \in Nat \ {0}
  /\ Bodies \subseteq [instrs : Seq(Instructions), rep : BOOLEAN]
  /\ Immediates \subseteq 0 .. Word - 1
  /\ Locations \subseteq Nat /\ Targets \subseteq Nat

VARIABLES
  pc,
  body,     \* instructions of the selected variant and its form of ret
  loc, to,  \* addresses of the patch point and of the variant
  pp,       \* pp.type
  mvfn,     \* the decoded type and constant
  site,     \* the bytes at the patch point, and one behind
  cpu       \* at: next byte of site; eax, iflag: -1 while untouched

vars == <<pc, body, loc, to, pp, mvfn, site, cpu>>
-----------------------------------------------------------------------------
(* Numbers of 32 bits. *)

Imm(v) == <<<<"imm", v, 0>>, <<"imm", v, 1>>, <<"imm", v, 2>>, <<"imm", v, 3>>>>
Byte(b) == <<<<b>>>>
Bytes(bs) == [i \in DOMAIN bs |-> <<bs[i]>>]

HasByte(code, i, b) == i \in DOMAIN code /\ code[i] = <<b>>
HasImm(code, i) ==
  \A k \in 0 .. 3 : i + k \in DOMAIN code /\ code[i + k] = <<"imm", code[i][2], k>>

Truncate(x) == x % Word
Signed(v) == IF v >= HalfWord THEN v - Word ELSE v

(* Mutants: relative to the instruction, not to the one behind it; not      *)
(* reduced to 32 bits.                                                      *)
OffsetFromStart(target, at) == Truncate(target - at)
OffsetWide(target, at) == target - (at + 5)

(* The operand of a 5 byte call or jump at an address. *)
Offset(target, at) == Truncate(target - (at + 5))
-----------------------------------------------------------------------------
(* Bodies. *)

Encode(i) ==
  CASE i.op = "xor"  -> Bytes(<<"31", "c0">>)
    [] i.op = "mov"  -> Byte("b8") \o Imm(i.v)
    [] i.op = "cli"  -> Byte("fa")
    [] i.op = "sti"  -> Byte("fb")
    [] i.op = "work" -> Byte("work")

Code(b) ==
  FlattenSeq([k \in DOMAIN b.instrs |-> Encode(b.instrs[k])])
  \o IF b.rep THEN Bytes(<<"f3", "c3">>) ELSE Byte("c3")

IsRet(code, i) ==
  HasByte(code, i, "c3") \/ (HasByte(code, i, "f3") /\ HasByte(code, i + 1, "c3"))

Constant(v) == [type |-> "constant", constant |-> v]
Type(t) == [type |-> t, constant |-> 0]

(* Mutant: what follows the first instruction is not looked at. *)
DecodeMvfnHasty(code) ==
  IF HasByte(code, 1, "31") /\ HasByte(code, 2, "c0") THEN Constant(0)
  ELSE IF HasByte(code, 1, "b8") THEN Constant(code[2][2])
  ELSE IF IsRet(code, 1) THEN Type("nop")
  ELSE IF HasByte(code, 1, "fa") THEN Type("cli")
  ELSE IF HasByte(code, 1, "fb") THEN Type("sti")
  ELSE Type("none")

DecodeMvfn(code) ==
  IF HasByte(code, 1, "31") /\ HasByte(code, 2, "c0") /\ IsRet(code, 3) THEN Constant(0)
  ELSE IF HasByte(code, 1, "b8") /\ IsRet(code, 6) THEN Constant(code[2][2])
  ELSE IF IsRet(code, 1) THEN Type("nop")
  ELSE IF HasByte(code, 1, "fa") /\ IsRet(code, 2) THEN Type("cli")
  ELSE IF HasByte(code, 1, "fb") /\ IsRet(code, 2) THEN Type("sti")
  ELSE Type("none")

(* What calling the body does, as far as the patch may stand for it. *)
Do(s, i) ==
  CASE i.op = "xor"  -> [s EXCEPT !.eax = 0]
    [] i.op = "mov"  -> [s EXCEPT !.eax = i.v]
    [] i.op = "cli"  -> [s EXCEPT !.iflag = 0]
    [] i.op = "sti"  -> [s EXCEPT !.iflag = 1]
    [] i.op = "work" -> [s EXCEPT !.work = @ + 1]
Effect(s, b) == FoldLeft(Do, s, b.instrs)
-----------------------------------------------------------------------------
(* Call sites.  "refused" is the exception "Invalid patchpoint"; a callee  *)
(* of an indirect call is the address of the pointer it goes through.      *)
Callee(t, c) == [type |-> t, callee |-> c]
Decoded(code, at) ==
  IF HasByte(code, 1, "e8") /\ HasImm(code, 2)
    THEN Callee("call", at + Signed(code[2][2]) + 5)
  ELSE IF HasByte(code, 1, "ff") /\ HasByte(code, 2, "15") /\ HasImm(code, 3)
    THEN Callee("indirect", at + Signed(code[3][2]) + 6)
  ELSE Callee("refused", 0)

(* What the compiler left: a call of the generic function, through the     *)
(* pointer of a function pointer variable, or the entry of the function;   *)
(* or a tail call, which is a jump.                                        *)
Original(t, v) ==
  CASE t = "call"     -> Byte("e8") \o Imm(v)
    [] t = "indirect" -> Bytes(<<"ff", "15">>) \o Imm(v)
    [] t = "jump"     -> Bytes(<<"work", "work", "work", "work", "work">>)
    [] t = "tail"     -> Byte("e9") \o Imm(v)

Overwrite(code) == site' = code \o SubSeq(site, Len(code) + 1, Len(site))

Nop6 == Bytes(<<"66", "0f", "1f", "44", "00", "00">>)
Nop5 == Bytes(<<"0f", "1f", "44", "00", "00">>)
Nop4 == Bytes(<<"0f", "1f", "40", "00">>)

Init ==
  /\ pc = "body"
  /\ body \in Bodies
  /\ loc \in Locations
  /\ to \in Targets
  /\ pp \in PPType \cup {"tail"}
  /\ mvfn = Type("none")
  /\ \E v \in Immediates : site = Original(pp, v) \o Byte("next")
  /\ cpu = [at |-> 1, eax |-> -1, iflag |-> -1, work |-> 0]

DecodeBody ==
  /\ pc = "body"
  /\ mvfn' = DecodeMvfn(Code(body))
  /\ pc' = "site"
  /\ UNCHANGED <<body, loc, to, pp, site, cpu>>

(* MVPP's two constructors: the entry of a function is taken as it is.     *)
DecodeSite ==
  /\ pc = "site"
  /\ pp' = IF pp = "jump" THEN pp ELSE Decoded(site, loc).type
  /\ pc' = IF pp' = "refused" THEN "refused" ELSE "patch"
  /\ UNCHANGED <<body, loc, to, mvfn, site, cpu>>

Patch(code) ==
  /\ Overwrite(code)
  /\ pc' = "run"
  /\ UNCHANGED <<body, loc, to, pp, mvfn, cpu>>

PatchJump ==
  /\ pc = "patch" /\ pp = "jump"
  /\ Patch(Byte("e9") \o Imm(Offset(to, loc)))

AtCall(types) == pc = "patch" /\ pp # "jump" /\ mvfn.type \in types
Trailing(direct, indirect) == IF pp = "indirect" THEN indirect ELSE direct

PatchNop == AtCall({"nop"}) /\ Patch(Trailing(Nop5, Nop6))

(* Mutant: no nop fills the sixth byte of an indirect call. *)
PatchConstantShort ==
  AtCall({"constant"}) /\ Patch(Byte("b8") \o Imm(mvfn.constant))

PatchConstant ==
  /\ AtCall({"constant"})
  /\ Patch(Byte("b8") \o Imm(mvfn.constant) \o Trailing(<<>>, Byte("90")))

(* Mutant: a nop of five bytes behind the one of cli, whatever the call. *)
PatchIrqLong ==
  /\ AtCall({"cli", "sti"})
  /\ Patch(Byte(IF mvfn.type = "cli" THEN "fa" ELSE "fb") \o Nop5)

PatchIrq ==
  /\ AtCall({"cli", "sti"})
  /\ Patch(Byte(IF mvfn.type = "cli" THEN "fa" ELSE "fb") \o Trailing(Nop4, Nop5))

PatchCall ==
  /\ AtCall({"none"})
  /\ Patch(Byte("e8") \o Imm(Offset(to, loc)) \o Trailing(<<>>, Byte("90")))
-----------------------------------------------------------------------------
(* The processor, as far as the patched instructions go. *)

Fits(code) ==
  /\ pc = "run"
  /\ \A k \in DOMAIN code : HasByte(site, cpu.at + k - 1, code[k][1])
Operand(i) == site[cpu.at + i][2]
Jumped(i) == loc + cpu.at - 1 + 5 + Signed(Operand(i))

Then(s, n) ==
  /\ cpu' = [s EXCEPT !.at = cpu.at + n]
  /\ UNCHANGED <<pc, body, loc, to, pp, mvfn, site>>

ExecNop ==
  \E nop \in {Nop4, Nop5, Nop6, Byte("90")} : Fits(nop) /\ Then(cpu, Len(nop))
ExecMov ==
  Fits(Byte("b8")) /\ HasImm(site, cpu.at + 1) /\ Then([cpu EXCEPT !.eax = Operand(1)], 5)
ExecIrq ==
  \/ Fits(Byte("fa")) /\ Then([cpu EXCEPT !.iflag = 0], 1)
  \/ Fits(Byte("fb")) /\ Then([cpu EXCEPT !.iflag = 1], 1)

(* A call of the variant comes back; a jump to it returns to the caller of *)
(* the function.  A call or jump to anywhere else is lost.                 *)
Reaches(op) == Fits(Byte(op)) /\ HasImm(site, cpu.at + 1) /\ Jumped(1) = to
ExecCall == Reaches("e8") /\ Then(Effect(cpu, body), 5)
ExecJump ==
  /\ Reaches("e9")
  /\ cpu' = Effect(cpu, body)
  /\ pc' = "done"
  /\ UNCHANGED <<body, loc, to, pp, mvfn, site>>
Lost ==
  /\ Fits(Byte("e8")) \/ Fits(Byte("e9"))
  /\ Jumped(1) # to
  /\ pc' = "lost"
  /\ UNCHANGED <<body, loc, to, pp, mvfn, site, cpu>>

(* The instruction behind the call. *)
Leave ==
  /\ Fits(Byte("next"))
  /\ pc' = "done"
  /\ UNCHANGED <<body, loc, to, pp, mvfn, site, cpu>>

Exec == ExecNop \/ ExecMov \/ ExecIrq \/ ExecCall \/ ExecJump \/ Lost \/ Leave
Stopped == pc \in {"done", "lost", "refused"} /\ UNCHANGED vars

Next ==
  \/ DecodeBody \/ DecodeSite
  \/ PatchJump \/ PatchNop \/ PatchConstant \/ PatchIrq \/ PatchCall
  \/ Exec \/ Stopped

Spec == Init /\ [][Next]_vars /\ WF_vars(Next)
-----------------------------------------------------------------------------
TypeOK ==
  /\ pp \in PPType \cup {"tail", "refused"}
  /\ mvfn.type \in {"none", "nop", "constant", "cli", "sti"}
  /\ mvfn.constant \in 0 .. Word - 1
  /\ \A i \in DOMAIN site : Len(site[i]) = 3 => site[i][2] \in 0 .. Word - 1
  /\ cpu.at \in DOMAIN site

(* The comment of decode_mvfn_body (mvelem.h:87-90): a trivial body may be *)
(* optimized at the call site.  Whatever was put in place of a call or an  *)
(* entry, executing it does what calling the variant does, and goes on     *)
(* right behind the call.                                                  *)
Fresh == [at |-> 1, eax |-> -1, iflag |-> -1, work |-> 0]
SameEffect ==
  pc = "done" =>
    LET want == Effect(Fresh, body)
    IN cpu.eax = want.eax /\ cpu.iflag = want.iflag /\ cpu.work = want.work

(* Every patched place can be executed to its end, unless it has to go to  *)
(* a variant more than 2 GiB away, which 32 bits cannot express.           *)
Reachable == LET d == to - (loc + 5) IN 0 - HalfWord <= d /\ d < HalfWord
Branches == pp = "jump" \/ DecodeMvfn(Code(body)).type = "none"
RunsThrough == (Branches => Reachable) => <>(pc \in {"done", "refused"})

(* A patch fills its place and nothing behind it.                          *)
PatchFits ==
  pc \in {"run", "done"} =>
    /\ Len(site) = PPSize[pp] + 1
    /\ site[Len(site)] = <<"next">>

(* Read again, as from a file where the descriptor of a bound call site    *)
(* was left, a patched site is refused or decodes to a call of the variant *)
(* it was bound to; it is never mistaken for a call of something else.     *)
RedecodesOrRefuses ==
  pc \in {"run", "done"} /\ pp # "jump" /\ Reachable =>
    Decoded(site, loc) \in {Callee("call", to), Callee("refused", 0)}
=============================================================================
