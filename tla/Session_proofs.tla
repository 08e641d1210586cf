---------------------------- MODULE Session_proofs ----------------------------
(***************************************************************************)
(* Whatever the environment refuses on the way, a run of bintail leaves no *)
(* file that was not asked for, reports success only for a complete one,   *)
(* and gives back what it took.                                            *)
(*                                                                         *)
(* The invariant says for each place in main, the constructor and          *)
(* init_write which handles are open there and what the output file is,    *)
(* and for each step of the destructor which ones it has been through.     *)
(***************************************************************************)
EXTENDS Session, SequenceTheorems, TLAPS

Input == {"exe", "infd", "e_in"}
Output2 == {"e_out", "outfd"}

(* Handles open when the program arrives at p. *)
OpenAt(p) ==
  CASE p \in {"options", "exe"} -> {}
    [] p = "infd" -> {"exe"}
    [] p = "e_in" -> {"exe", "infd"}
    [] p \in {"parse", "symbols", "display", "outfd"} -> Input
    [] p = "e_out" -> Input \cup {"outfd"}
    [] p \in {"layout", "tailor", "write"} -> Handle

Reading == {"options", "exe", "infd", "e_in", "parse", "symbols", "display"}
Writing == {"outfd", "e_out", "layout", "tailor", "write"}

PlaceInv ==
  /\ pc \in Reading \cup Writing \cup {"return"}
  /\ pc \in Writing => operands = 2
  /\ exit = "running" => refused = "none" /\ failure = "none"
  /\ pc \in Reading \cup {"outfd"} => outFile = "untouched"
  /\ exit = "running" /\ pc \in Writing \ {"outfd"} => outFile = "created"
  /\ pc = "return" => outFile = IF operands # 2 THEN "untouched"
                                 ELSE IF ignored THEN "damaged" ELSE "complete"
  /\ exit = "success" => \/ pc = "options" /\ refused = "h"
                         \/ pc = "symbols" /\ failure = "symbols"
                         \/ pc = "return" /\ left = <<>> /\ refused = "none" /\ failure = "none"

HandleInv ==
  /\ handle \in [Handle -> {"unset", "open", "ended"}]
  /\ exit = "running" /\ pc # "return" =>
       \A h \in Handle : handle[h] = IF h \in OpenAt(pc) THEN "open" ELSE "unset"
  /\ operands # 2 => \A h \in Output2 : handle[h] = "unset"

(* The destructor is at its n-th member. *)
EndingFrom(n) ==
  /\ left = SubSeq(Ending, n, 5)
  /\ \A i \in 1 .. n - 1 : handle[Ending[i]] # "open"
  /\ operands = 2 => \A i \in n .. 5 : handle[Ending[i]] = "open"

EndingInv ==
  /\ pc # "return" => left = <<>>
  /\ pc = "return" => \E n \in 1 .. 6 : EndingFrom(n)

ValueInv ==
  /\ operands \in Operands
  /\ opts \subseteq Accepted
  /\ refused \in Refused \cup {"none", "h"}
  /\ outFile \in {"untouched", "created", "complete", "damaged", "broken"}
  /\ ignored \in BOOLEAN
  /\ exit \in {"running", "success", "failure", "abort", "crash"}

SInv == ValueInv /\ PlaceInv /\ HandleInv /\ EndingInv

LEMMA EndingSeq ==
  /\ Ending \in Seq(Handle) /\ Len(Ending) = 5
  /\ Handle = {"e_out", "outfd", "e_in", "infd", "exe"}
  /\ \A i, j \in 1 .. 5 : Ending[i] = Ending[j] => i = j
  /\ \A i \in 1 .. 5 : Ending[i] \in Handle
  /\ \A h \in Handle : \E i \in 1 .. 5 : h = Ending[i]
<1>1. DOMAIN Ending = 1 .. 5 /\ Len(Ending) = 5
  BY DEF Ending
<1>2. /\ Ending[1] = "e_out" /\ Ending[2] = "outfd" /\ Ending[3] = "e_in"
      /\ Ending[4] = "infd" /\ Ending[5] = "exe"
  BY DEF Ending
<1>3. \A h \in Handle : \E i \in 1 .. 5 : h = Ending[i]
  BY <1>1 DEF Handle
<1>4. \A i \in 1 .. 5 : Ending[i] \in Handle
  BY <1>1 DEF Handle
<1>5. \A i \in 1 .. 5 : i = 1 \/ i = 2 \/ i = 3 \/ i = 4 \/ i = 5
  OBVIOUS
<1>6. Handle = {"e_out", "outfd", "e_in", "infd", "exe"}
  <2>1. \A h \in Handle : h \in {"e_out", "outfd", "e_in", "infd", "exe"}
    BY <1>2, <1>3, <1>5
  <2>2. "e_out" \in Handle /\ "outfd" \in Handle /\ "e_in" \in Handle /\ "infd" \in Handle /\ "exe" \in Handle
    BY <1>2, <1>4
  <2> QED BY <2>1, <2>2
<1>7. \A i, j \in 1 .. 5 : Ending[i] = Ending[j] => i = j
  BY <1>2, <1>5
<1>8. Ending \in Seq(Handle)
  BY <1>6 DEF Ending
<1> QED BY <1>1, <1>3, <1>4, <1>6, <1>7, <1>8

(* What is left of the destructor after a member. *)
LEMMA LeftIs ==
  ASSUME NEW n \in 1 .. 6, left = SubSeq(Ending, n, 5)
  PROVE  /\ left = <<>> <=> n = 6
         /\ n # 6 => Head(left) = Ending[n] /\ Tail(left) = SubSeq(Ending, n + 1, 5)
         /\ Len(left) = 6 - n
<1>1. CASE n = 6
  <2>1. left = <<>>
    BY <1>1, SubSeqEmpty
  <2> QED BY <1>1, <2>1
<1>2. CASE n # 6
  <2>1. n \in 1 .. Len(Ending) /\ 5 \in n .. Len(Ending) /\ Len(Ending) = 5
    BY <1>2, EndingSeq
  <2>2. Head(left) = Ending[n] /\ Tail(left) = SubSeq(Ending, n + 1, 5)
    BY <2>1, EndingSeq, HeadTailOfSubSeq
  <2>3. Len(left) = 6 - n
    <3>1. \A i \in n .. 5 : Ending[i] \in Handle
      BY <1>2, EndingSeq
    <3>2. Len(SubSeq(Ending, n, 5)) = IF n <= 5 THEN 5 - n + 1 ELSE 0
      BY <3>1, SubSeqProperties
    <3> QED BY <1>2, <3>2
  <2>4. left # <<>>
    <3>1. Len(<<>>) = 0 /\ Len(left) # 0
      BY <1>2, <2>3, EmptySeq
    <3> QED BY <3>1
  <2> QED BY <1>2, <2>2, <2>3, <2>4
<1> QED BY <1>1, <1>2

LEMMA SInit == Init => SInv
<1> SUFFICES ASSUME Init PROVE SInv
  OBVIOUS
<1>1. ValueInv
  BY DEF Init, ValueInv
<1>2. PlaceInv
  BY DEF Init, PlaceInv, Reading, Writing
<1>3. HandleInv
  BY EndingSeq DEF Init, HandleInv, OpenAt, Output2
<1>4. EndingInv
  BY DEF Init, EndingInv
<1> QED BY <1>1, <1>2, <1>3, <1>4 DEF SInv

(* A step that ends the program, or one that goes on, without touching a   *)
(* handle or a file.                                                       *)
LEMMA StopKeeps ==
  ASSUME SInv, NEW why, NEW how \in {"failure", "abort", "crash"}, exit = "running", Stop(why, how)
  PROVE  SInv'
<1> USE DEF SInv, Stop, args, object, outcome
<1>1. ValueInv'
  BY DEF ValueInv
<1>2. PlaceInv'
  BY DEF PlaceInv
<1>3. HandleInv'
  BY DEF HandleInv
<1>4. EndingInv'
  BY DEF EndingInv, EndingFrom
<1> QED BY <1>1, <1>2, <1>3, <1>4

(* A step between two places in front of the destructor.                   *)
LEMMA GoOnKeeps ==
  ASSUME SInv, NEW p \in Reading \cup Writing, exit = "running", pc # "return",
         Continue(p), UNCHANGED left,
         p \in Writing => operands = 2,
         outFile' = IF p \in Reading \cup {"outfd"} THEN "untouched" ELSE "created",
         handle' \in [Handle -> {"unset", "open", "ended"}],
         \A h \in Handle : handle'[h] = IF h \in OpenAt(p) THEN "open" ELSE "unset",
         operands # 2 => OpenAt(p) \cap Output2 = {}
  PROVE  SInv'
<1> USE DEF SInv, Continue, args, outcome
<1>1. ValueInv'
  BY DEF ValueInv
<1>2. PlaceInv'
  BY DEF PlaceInv, Reading, Writing
<1>3. HandleInv'
  <2>1. p # "return"
    BY DEF Reading, Writing
  <2>2. Output2 \subseteq Handle
    BY EndingSeq DEF Output2
  <2> QED BY <2>1, <2>2 DEF HandleInv, OpenAt
<1>4. EndingInv'
  BY DEF EndingInv, EndingFrom, Reading, Writing
<1> QED BY <1>1, <1>2, <1>3, <1>4

(* Opening the next handle on the way. *)
LEMMA OpenKeeps ==
  ASSUME SInv, NEW h \in Handle, NEW p \in Reading \cup Writing,
         exit = "running", pc # "return", pc \in Reading \cup Writing,
         Open(h), Continue(p), OpenAt(p) = OpenAt(pc) \cup {h},
         p \in Writing => operands = 2, h \in Output2 => operands = 2,
         outFile' = IF p \in Reading \cup {"outfd"} THEN "untouched" ELSE "created"
  PROVE  SInv'
<1>1. handle \in [Handle -> {"unset", "open", "ended"}]
  BY DEF SInv, HandleInv
<1>2. \A g \in Handle : handle[g] = IF g \in OpenAt(pc) THEN "open" ELSE "unset"
  BY DEF SInv, HandleInv
<1>3. handle' = [handle EXCEPT ![h] = "open"] /\ UNCHANGED left
  BY DEF Open
<1>4. handle' \in [Handle -> {"unset", "open", "ended"}]
  BY <1>1, <1>3
<1>5. \A g \in Handle : handle'[g] = IF g \in OpenAt(p) THEN "open" ELSE "unset"
  BY <1>1, <1>2, <1>3
<1>6. operands # 2 => OpenAt(p) \cap Output2 = {}
  <2> SUFFICES ASSUME operands # 2, NEW g \in OpenAt(p) \cap Output2 PROVE FALSE
    OBVIOUS
  <2>1. g \in OpenAt(pc) /\ g \in Handle
    BY EndingSeq DEF Output2
  <2>2. handle[g] = "open"
    BY <1>2, <2>1
  <2>3. handle[g] = "unset"
    BY DEF SInv, HandleInv
  <2> QED BY <2>2, <2>3
<1> QED BY <1>3, <1>4, <1>5, <1>6, GoOnKeeps

LEMMA OptionsKeep ==
  ASSUME SInv, \/ \E o \in Accepted : Option(o)
               \/ Help
               \/ \E o \in Refused : Usage(o)
  PROVE  SInv'
<1> USE DEF SInv, Option, Help, Usage, At, object, outcome
<1>1. ValueInv'
  BY DEF ValueInv
<1>2. PlaceInv'
  BY DEF PlaceInv, Reading, Writing
<1>3. HandleInv'
  BY DEF HandleInv
<1>4. EndingInv'
  BY DEF EndingInv, EndingFrom
<1> QED BY <1>1, <1>2, <1>3, <1>4

(* What holds on arrival at p. *)
LEMMA Arrived ==
  ASSUME SInv, NEW p \in Reading \cup Writing, At(p)
  PROVE  /\ pc = p /\ exit = "running" /\ pc # "return"
         /\ pc \in Reading \cup Writing
         /\ p \in Writing => operands = 2
         /\ outFile = IF p \in Reading \cup {"outfd"} THEN "untouched" ELSE "created"
         /\ refused = "none" /\ failure = "none"
         /\ handle \in [Handle -> {"unset", "open", "ended"}]
         /\ \A h \in Handle : handle[h] = IF h \in OpenAt(p) THEN "open" ELSE "unset"
         /\ operands # 2 => OpenAt(p) \cap Output2 = {}
<1>1. pc = p /\ exit = "running" /\ pc # "return" /\ pc \in Reading \cup Writing
  BY DEF At, Reading, Writing
<1>2. /\ p \in Writing => operands = 2
      /\ outFile = IF p \in Reading \cup {"outfd"} THEN "untouched" ELSE "created"
      /\ refused = "none" /\ failure = "none"
  BY <1>1 DEF SInv, PlaceInv
<1>3. /\ handle \in [Handle -> {"unset", "open", "ended"}]
      /\ \A h \in Handle : handle[h] = IF h \in OpenAt(p) THEN "open" ELSE "unset"
  BY <1>1 DEF SInv, HandleInv
<1>4. operands # 2 => \A h \in Output2 : handle[h] = "unset"
  BY DEF SInv, HandleInv
<1>5. Output2 \subseteq Handle
  BY EndingSeq DEF Output2
<1>6. operands # 2 => OpenAt(p) \cap Output2 = {}
  BY <1>3, <1>4, <1>5
<1> QED BY <1>1, <1>2, <1>3, <1>6

LEMMA ConstructorKeeps ==
  ASSUME SInv, OptionsDone \/ OperandsMissing \/ Constructor
  PROVE  SInv'
<1> USE DEF Reading, Writing, OpenAt, Input
<1>1. CASE OptionsDone
  <2>1. At("options") /\ Continue("exe") /\ UNCHANGED <<object, outFile>>
    BY <1>1 DEF OptionsDone
  <2>2. UNCHANGED <<handle, left>>
    BY <2>1 DEF object
  <2> QED BY <2>1, <2>2, Arrived, GoOnKeeps
<1>2. CASE OperandsMissing
  BY <1>2, StopKeeps DEF OperandsMissing, Errx, At
<1>3. CASE OpenExe
  BY <1>3, Arrived, OpenKeeps, EndingSeq DEF OpenExe, Output2
<1>4. CASE OpenInput
  BY <1>4, Arrived, OpenKeeps, EndingSeq DEF OpenInput, Output2
<1>5. CASE BeginInput
  BY <1>5, Arrived, OpenKeeps, EndingSeq DEF BeginInput, Output2
<1>6. CASE InputFails \/ ExeAsserts \/ ParseThrows \/ BoundaryThrows
  BY <1>6, StopKeeps DEF InputFails, ExeAsserts, ParseThrows, BoundaryThrows, Errx, Throw, At
<1>7. CASE Parse
  BY <1>7, Arrived, GoOnKeeps DEF Parse, object
<1>8. CASE SymbolsMissing
  <2> USE <1>8 DEF SymbolsMissing, At, args
  <2>1. ValueInv'
    BY DEF SInv, ValueInv
  <2>2. PlaceInv'
    BY DEF SInv, PlaceInv
  <2>3. HandleInv'
    BY EndingSeq DEF SInv, HandleInv, Output2
  <2>4. EndingInv'
    BY DEF SInv, EndingInv
  <2> QED BY <2>1, <2>2, <2>3, <2>4 DEF SInv
<1>9. CASE Constructed
  BY <1>9, Arrived, GoOnKeeps DEF Constructed, object
<1> QED BY <1>1, <1>2, <1>3, <1>4, <1>5, <1>6, <1>7, <1>8, <1>9 DEF Constructor

(* From here on the destructor has all of its members before it.           *)
LEMMA ReturnKeeps ==
  ASSUME SInv, NEW p \in Reading \cup Writing, At(p), Continue("return"),
         left' = Ending, UNCHANGED handle,
         operands = 2 => p = "write" /\ outFile' = IF ignored THEN "damaged" ELSE "complete",
         operands # 2 => p = "display" /\ UNCHANGED outFile
  PROVE  SInv'
<1>1. /\ \A h \in Handle : handle[h] = IF h \in OpenAt(p) THEN "open" ELSE "unset"
      /\ handle \in [Handle -> {"unset", "open", "ended"}]
      /\ exit = "running" /\ refused = "none" /\ failure = "none"
      /\ p \in Reading => outFile = "untouched"
  BY Arrived
<1> USE DEF Continue, args, outcome
<1>2. ValueInv'
  BY <1>1 DEF SInv, ValueInv, Reading
<1>3. PlaceInv'
  BY <1>1 DEF SInv, PlaceInv, Reading, Writing
<1>4. HandleInv'
  BY <1>1 DEF SInv, HandleInv
<1>5. EndingInv'
  <2>1. left' = SubSeq(Ending, 1, 5)
    BY EndingSeq, SubSeqFull
  <2>2. operands = 2 => \A i \in 1 .. 5 : handle[Ending[i]] = "open"
    BY <1>1, EndingSeq DEF OpenAt
  <2>3. EndingFrom(1)'
    BY <2>1, <2>2 DEF EndingFrom
  <2> QED BY <2>3 DEF EndingInv
<1> QED BY <1>2, <1>3, <1>4, <1>5 DEF SInv

LEMMA OutputKeeps ==
  ASSUME SInv, Display \/ Output
  PROVE  SInv'
<1> USE DEF Reading, Writing
<1>1. CASE Display
  <2>1. CASE operands = 2
    BY <1>1, <2>1, Arrived, GoOnKeeps DEF Display, OpenAt
  <2>2. CASE operands # 2
    BY <1>1, <2>2, ReturnKeeps DEF Display
  <2> QED BY <2>1, <2>2
<1>2. CASE OpenOutput
  BY <1>2, Arrived, OpenKeeps, EndingSeq DEF OpenOutput, OpenAt
<1>3. CASE BeginOutput
  BY <1>3, Arrived, OpenKeeps, EndingSeq DEF BeginOutput, OpenAt, Input
<1>4. CASE OutputFails \/ NoSegment \/ ChangeThrows \/ WriteThrows
  BY <1>4, StopKeeps DEF OutputFails, NoSegment, ChangeThrows, WriteThrows, Errx, Throw, At
<1>5. CASE InitWritten \/ Tailored
  BY <1>5, Arrived, GoOnKeeps DEF InitWritten, Tailored, object, OpenAt
<1>6. CASE Write
  BY <1>6, Arrived, ReturnKeeps DEF Write
<1>7. CASE WriteFails
  <2> USE <1>7 DEF WriteFails, At, args, object
  <2>1. ValueInv'
    BY DEF SInv, ValueInv
  <2>2. PlaceInv'
    BY DEF SInv, PlaceInv
  <2>3. HandleInv'
    BY DEF SInv, HandleInv
  <2>4. EndingInv'
    BY DEF SInv, EndingInv
  <2> QED BY <2>1, <2>2, <2>3, <2>4 DEF SInv
<1> QED BY <1>1, <1>2, <1>3, <1>4, <1>5, <1>6, <1>7 DEF Output

(* A refusal without effect on the control, and a null result.             *)
LEMMA RefusalsKeep ==
  ASSUME SInv, Ignored \/ NullData
  PROVE  SInv'
<1>1. CASE Ignored
  <2> USE <1>1 DEF Ignored, At, args, object
  <2>1. ValueInv'
    BY DEF SInv, ValueInv
  <2>2. PlaceInv'
    BY DEF SInv, PlaceInv
  <2>3. HandleInv'
    BY DEF SInv, HandleInv
  <2>4. EndingInv'
    BY DEF SInv, EndingInv
  <2> QED BY <2>1, <2>2, <2>3, <2>4 DEF SInv
<1>2. CASE NullData
  BY <1>2, StopKeeps DEF NullData, Crash, At
<1> QED BY <1>1, <1>2

(* The member the destructor is at. *)
LEMMA AtMember ==
  ASSUME SInv, pc = "return", left # <<>>
  PROVE  \E n \in 1 .. 5 : EndingFrom(n) /\ Head(left) = Ending[n] /\ Tail(left) = SubSeq(Ending, n + 1, 5)
<1>1. PICK n \in 1 .. 6 : EndingFrom(n)
  BY DEF SInv, EndingInv
<1>2. n # 6 /\ Head(left) = Ending[n] /\ Tail(left) = SubSeq(Ending, n + 1, 5)
  BY <1>1, LeftIs DEF EndingFrom
<1> QED BY <1>1, <1>2

LEMMA DestructorKeeps ==
  ASSUME SInv, Destructor
  PROVE  SInv'
<1>1. pc = "return" /\ exit = "running"
  BY DEF Destructor, End, CloseFails, EndUnset, Return, At
<1>2. CASE End \/ CloseFails
  <2>1. PICK n \in 1 .. 5 : EndingFrom(n) /\ Head(left) = Ending[n] /\ Tail(left) = SubSeq(Ending, n + 1, 5)
    BY <1>1, <1>2, AtMember DEF End, CloseFails
  <2>2. /\ handle' = [handle EXCEPT ![Ending[n]] = "ended"] /\ handle[Ending[n]] # "unset"
        /\ left' = SubSeq(Ending, n + 1, 5) /\ UNCHANGED <<pc, operands, opts, refused, failure, exit>>
    BY <1>2, <2>1 DEF End, CloseFails, args, outcome
  <2>3. \A i \in 1 .. 5 : handle'[Ending[i]] = IF i = n THEN "ended" ELSE handle[Ending[i]]
    BY <2>2, EndingSeq DEF SInv, HandleInv
  <2>4. EndingFrom(n + 1)'
    BY <2>1, <2>2, <2>3 DEF EndingFrom
  <2>5. EndingInv'
    BY <1>1, <2>2, <2>4 DEF EndingInv
  <2>6. HandleInv'
    <3>1. Ending[n] \in Handle /\ Output2 \subseteq Handle
      BY EndingSeq DEF Output2
    <3>2. operands # 2 => Ending[n] \notin Output2
      BY <2>2 DEF SInv, HandleInv
    <3> QED BY <1>1, <2>2, <3>1, <3>2 DEF SInv, HandleInv
  <2>7. ValueInv' /\ PlaceInv'
    <3>1. CASE End
      BY <1>1, <2>2, <3>1 DEF End, outcome, SInv, ValueInv, PlaceInv, Reading, Writing
    <3>2. CASE CloseFails
      <4>1. handle["outfd"] = "open" /\ outFile' = "damaged" /\ ignored' = TRUE
        BY <3>2 DEF CloseFails
      <4>2. operands = 2
        BY <4>1 DEF SInv, HandleInv, Output2
      <4> QED BY <1>1, <2>2, <4>1, <4>2 DEF SInv, ValueInv, PlaceInv, Reading, Writing
    <3> QED BY <1>2, <3>1, <3>2
  <2> QED BY <2>5, <2>6, <2>7 DEF SInv
<1>3. CASE EndUnset
  <2>1. PICK n \in 1 .. 5 : EndingFrom(n) /\ Head(left) = Ending[n] /\ Tail(left) = SubSeq(Ending, n + 1, 5)
    BY <1>1, <1>3, AtMember DEF EndUnset
  <2>2. /\ handle[Ending[n]] = "unset" /\ left' = SubSeq(Ending, n + 1, 5)
        /\ UNCHANGED <<pc, operands, opts, refused, outFile, ignored>>
        /\ \/ UNCHANGED <<handle, failure, exit>>
           \/ exit' = "crash" /\ UNCHANGED handle
           \/ handle' = [handle EXCEPT !["infd"] = "ended"] /\ UNCHANGED <<failure, exit>>
    BY <1>3, <2>1 DEF EndUnset, args, outcome
  <2>3. operands # 2
    BY <2>1, <2>2 DEF EndingFrom
  <2>4. \A i \in 1 .. n : handle'[Ending[i]] # "open"
    BY <2>1, <2>2, EndingSeq DEF EndingFrom, SInv, HandleInv
  <2>5. EndingFrom(n + 1)'
    BY <2>2, <2>3, <2>4 DEF EndingFrom
  <2>6. EndingInv'
    BY <1>1, <2>2, <2>5 DEF EndingInv
  <2>7. HandleInv'
    BY <1>1, <2>2, EndingSeq DEF SInv, HandleInv, Output2
  <2>8. ValueInv' /\ PlaceInv'
    BY <1>1, <2>2 DEF SInv, ValueInv, PlaceInv, Reading, Writing
  <2> QED BY <2>6, <2>7, <2>8 DEF SInv
<1>4. CASE Return
  BY <1>1, <1>4 DEF Return, args, object, SInv, ValueInv, PlaceInv, HandleInv, EndingInv, EndingFrom,
     Reading, Writing
<1> QED BY <1>2, <1>3, <1>4 DEF Destructor

LEMMA SNext == SInv /\ [Next]_vars => SInv'
<1>1. ASSUME SInv, Exited \/ UNCHANGED vars PROVE SInv'
  BY <1>1 DEF Exited, vars, SInv, ValueInv, PlaceInv, HandleInv, EndingInv, EndingFrom
<1> QED BY <1>1, OptionsKeep, ConstructorKeeps, OutputKeeps, RefusalsKeep, DestructorKeeps DEF Next

LEMMA SessionInvariant == Spec => []SInv
  BY SInit, SNext, PTL DEF Spec
-----------------------------------------------------------------------------
(* The variables stay in their ranges; the destructor never has more than  *)
(* its five members before it.                                             *)
THEOREM SessionTypes == Spec => []TypeOK
<1>1. SInv => TypeOK
  <2> SUFFICES ASSUME SInv PROVE Len(left) \in 0 .. Len(Ending)
    BY DEF SInv, ValueInv, HandleInv, TypeOK
  <2>1. CASE pc = "return"
    BY <2>1, LeftIs, EndingSeq DEF SInv, EndingInv, EndingFrom
  <2>2. CASE pc # "return"
    BY <2>2, EndingSeq, EmptySeq DEF SInv, EndingInv
  <2> QED BY <2>1, <2>2
<1> QED BY <1>1, SessionInvariant, PTL

(* Without an output operand nothing is created and nothing is opened for  *)
(* output, whatever the options and whatever fails.                        *)
THEOREM DisplayIsReadOnly == Spec => []DisplayOnlyReads
<1>1. SInv => DisplayOnlyReads
  BY DEF SInv, PlaceInv, HandleInv, Output2, DisplayOnlyReads, Reading, Writing
<1> QED BY <1>1, SessionInvariant, PTL

(* A status of 0 is never reported for an output that is missing or cut    *)
(* off, whatever fails in whatever order; it is for one that lacks what a  *)
(* refusal kept out of it, if the code did not look at that refusal.       *)
THEOREM SuccessMeansComplete == Spec => []SuccessIsComplete
<1>1. SInv => SuccessIsComplete
  BY DEF SInv, PlaceInv, SuccessIsComplete, Reading, Writing
<1> QED BY <1>1, SessionInvariant, PTL

(* With an output every handle is ended once, while it is open, and none   *)
(* is left when main returns.                                              *)
THEOREM HandlesAreBalanced == Spec => HandlesBalanced
<1> DEFINE Fresh == operands = 2 /\ left' # left /\ left # <<>> => handle[Head(left)] = "open"
           Ended == pc = "return" /\ exit = "success" => \A h \in Handle : handle[h] # "open"
<1>1. SInv /\ [Next]_vars => [Fresh]_vars
  <2> SUFFICES ASSUME SInv, operands = 2, left # <<>> PROVE handle[Head(left)] = "open"
    OBVIOUS
  <2>1. pc = "return"
    BY DEF SInv, EndingInv
  <2> QED BY <2>1, AtMember DEF EndingFrom
<1>2. SInv => Ended
  <2> SUFFICES ASSUME SInv, pc = "return", exit = "success", NEW h \in Handle
               PROVE  handle[h] # "open"
    OBVIOUS
  <2>1. left = <<>>
    BY DEF SInv, PlaceInv
  <2>2. EndingFrom(6)
    BY <2>1, LeftIs DEF SInv, EndingInv, EndingFrom
  <2>3. PICK i \in 1 .. 5 : h = Ending[i]
    BY EndingSeq
  <2> QED BY <2>2, <2>3 DEF EndingFrom
<1> HIDE DEF Fresh, Ended
<1>3. Spec => [][Fresh]_vars /\ []Ended
  BY <1>1, <1>2, SessionInvariant, PTL DEF Spec
<1> QED BY <1>3 DEF HandlesBalanced, Fresh, Ended
=============================================================================
