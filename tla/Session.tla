------------------------------- MODULE Session -------------------------------
(***************************************************************************)
(* The process: main reads its options and operands, a Bintail object is   *)
(* constructed, asked to display, to write, and destroyed.  What the       *)
(* tailoring in the middle does is in module Tailor; here it is a step     *)
(* that may fail.  Of interest are the handles the object holds, the file  *)
(* it writes, and what the exit status tells the caller.                   *)
(*                                                                         *)
(* Whatever the operating system or libelf may refuse, and whatever the    *)
(* input may lack, is a choice of the environment.  A refusal that the     *)
(* code looks at ends the process; one that it only prints, or does not    *)
(* look at, is remembered in ignored, and the process goes on; a null      *)
(* result that it uses without looking is a crash.                         *)
(***************************************************************************)
EXTENDS Integers, Sequences

Accepted == {"a", "A", "d", "g", "l", "r", "s", "y"}  \* cases of the switch
Refused == {"t", "w", "?"}     \* default case: t and w are in the option string
Operands == 0 .. 3             \* any number but 1 and 2 is treated alike

(* The members of Bintail that have to be given back, in the order of the  *)
(* destructor; exe stands for the handles of the ElfExe in exe_.           *)
Ending == <<"e_out", "outfd", "e_in", "infd", "exe">>
Handle == {Ending[i] : i \in DOMAIN Ending}

VARIABLES
  pc,
  operands,  \* argc - optind
  opts,      \* options seen
  refused,   \* the option that led to the usage text
  handle,    \* per handle: unset, open or ended
  left,      \* what the destructor still has to end
  outFile,   \* the file named by the second operand
  failure,   \* what the process stopped for
  ignored,   \* libelf or the system has refused something without effect on
             \* the control of the program
  exit       \* running, success (0), failure (1), abort or crash (signals)

vars == <<pc, operands, opts, refused, handle, left, outFile, failure, ignored, exit>>
args == <<operands, opts, refused>>
object == <<handle, left>>
outcome == <<failure, ignored, exit>>

Init ==
  /\ pc = "options"
  /\ operands \in Operands
  /\ opts = {}
  /\ refused = "none"
  /\ handle = [h \in Handle |-> "unset"]
  /\ left = <<>>
  /\ outFile = "untouched"
  /\ failure = "none"
  /\ ignored = FALSE
  /\ exit = "running"

At(p) == pc = p /\ exit = "running"

(* errx and return end with a status, an exception nobody catches and a    *)
(* failed assertion with a signal.  None of them runs the destructor.      *)
Stop(why, how) ==
  /\ failure' = why
  /\ exit' = how
  /\ UNCHANGED <<pc, opts, operands, refused, object, outFile, ignored>>
Errx(why) == Stop(why, "failure")
Throw(why) == Stop(why, "abort")
Crash(why) == Stop(why, "crash")

Continue(p) == pc' = p /\ UNCHANGED <<args, outcome>>
-----------------------------------------------------------------------------
(* main, to line 78. *)

Option(o) ==
  /\ At("options")
  /\ opts' = opts \cup {o}
  /\ UNCHANGED <<pc, operands, refused, object, outFile, outcome>>

Help ==
  /\ At("options")
  /\ refused' = "h"
  /\ exit' = "success"
  /\ UNCHANGED <<pc, operands, opts, object, outFile, failure, ignored>>

Usage(o) ==
  /\ At("options")
  /\ refused' = o
  /\ failure' = "usage"
  /\ exit' = "failure"
  /\ UNCHANGED <<pc, operands, opts, object, outFile, ignored>>

OptionsDone ==
  /\ At("options") /\ operands \in {1, 2}
  /\ Continue("exe")
  /\ UNCHANGED <<object, outFile>>

OperandsMissing == At("options") /\ operands \notin {1, 2} /\ Errx("operands")
-----------------------------------------------------------------------------
(* Bintail::Bintail. *)

Open(h) == handle' = [handle EXCEPT ![h] = "open"] /\ UNCHANGED left

(* make_unique<ElfExe>. *)
OpenExe ==
  /\ At("exe")
  /\ Open("exe")
  /\ Continue("infd")
  /\ UNCHANGED outFile

OpenInput ==
  /\ At("infd")
  /\ Open("infd")
  /\ Continue("e_in")
  /\ UNCHANGED outFile

BeginInput ==
  /\ At("e_in")
  /\ Open("e_in")
  /\ Continue("parse")
  /\ UNCHANGED outFile

InputFails == (At("exe") \/ At("infd") \/ At("e_in")) /\ Errx("input")

(* An assertion of ElfExe's sections. *)
ExeAsserts == At("exe") /\ Throw("input")

(* No symbol table, a section missing, a call site that is no call, a      *)
(* variable of an odd width.                                               *)
ParseThrows == At("parse") /\ Throw("input")

Parse ==
  /\ At("parse")
  /\ Continue("symbols")
  /\ UNCHANGED <<object, outFile>>

(* Mutant: the constructor returns instead of leaving the program. *)
SymbolsMissingReturns ==
  /\ At("symbols")
  /\ handle' = [handle EXCEPT !["infd"] = "ended"]
  /\ Continue("display")
  /\ UNCHANGED <<left, outFile>>

(* The boundary pointers of libmultiverse: without them the executable is  *)
(* not one to tailor.                                                      *)
SymbolsMissing ==
  /\ At("symbols")
  /\ handle' = [handle EXCEPT !["infd"] = "ended"]
  /\ failure' = "symbols"
  /\ exit' = "success"
  /\ UNCHANGED <<pc, args, left, outFile, ignored>>

(* The boundaries of the sections, read outside the try. *)
BoundaryThrows == At("symbols") /\ Throw("symbols")

Constructed ==
  /\ At("symbols")
  /\ Continue("display")
  /\ UNCHANGED <<object, outFile>>
-----------------------------------------------------------------------------
(* main, from line 81. *)

(* Mutants: an output is written in any case; the object is destroyed      *)
(* explicitly and, as main returns, again.                                 *)
DisplayThenWrite ==
  /\ At("display")
  /\ Continue("outfd")
  /\ UNCHANGED <<object, outFile>>
DisplayThenDelete ==
  /\ At("display")
  /\ IF operands = 2
       THEN Continue("outfd") /\ UNCHANGED left
       ELSE Continue("return") /\ left' = Ending \o Ending
  /\ UNCHANGED <<handle, outFile>>

(* The display options change nothing. *)
Display ==
  /\ At("display")
  /\ IF operands = 2
       THEN Continue("outfd") /\ UNCHANGED left
       ELSE Continue("return") /\ left' = Ending
  /\ UNCHANGED <<handle, outFile>>

(* init_write: the file exists from here on, with no or its old content.   *)
OpenOutput ==
  /\ At("outfd")
  /\ Open("outfd")
  /\ outFile' = "created"
  /\ Continue("e_out")

BeginOutput ==
  /\ At("e_out")
  /\ Open("e_out")
  /\ Continue("layout")
  /\ UNCHANGED outFile

(* elf_begin, or elf_newscn and elf_newdata in the loop over sections.     *)
OutputFails == (At("outfd") \/ At("e_out") \/ At("layout")) /\ Errx("output")

(* "Could not find info area segment". *)
NoSegment == At("layout") /\ Throw("segment")

InitWritten ==
  /\ At("layout")
  /\ Continue("tailor")
  /\ UNCHANGED <<object, outFile>>

(* stoi, or the assertion of set_value: there must be a -s option. *)
ChangeThrows == At("tailor") /\ "s" \in opts /\ Throw("change")

Tailored ==
  /\ At("tailor")
  /\ Continue("write")
  /\ UNCHANGED <<object, outFile>>

(* Bintail::write.  write_ptr and update_relocs_sym may throw before       *)
(* anything is written; elf_update may fail half way.                      *)
WriteThrows == At("write") /\ Throw("write")

(* Mutant: the result of elf_update is not looked at. *)
WriteFailsSilently ==
  /\ At("write")
  /\ outFile' = "broken"
  /\ pc' = "return"
  /\ left' = Ending
  /\ failure' = "write"
  /\ UNCHANGED <<args, handle, ignored, exit>>

WriteFails ==
  /\ At("write")
  /\ outFile' = "broken"
  /\ failure' = "write"
  /\ exit' = "failure"
  /\ UNCHANGED <<pc, args, object, ignored>>

(* elf_update writes what libelf holds: what it refused before is missing. *)
Write ==
  /\ At("write")
  /\ outFile' = IF ignored THEN "damaged" ELSE "complete"
  /\ left' = Ending
  /\ Continue("return")
  /\ UNCHANGED handle
-----------------------------------------------------------------------------
(* Refusals on the way, other than the checked ones.                       *)

(* The updates of symbols and of .dynamic only print that they failed; of  *)
(* gelf_newehdr, gelf_newphdr, of the updates of program headers, section  *)
(* headers and the ELF header, and of all that gelf_get reads, nobody      *)
(* looks at the result.                                                    *)
Ignored ==
  /\ \E p \in {"parse", "symbols", "layout", "write"} : At(p)
  /\ ignored' = TRUE
  /\ UNCHANGED <<pc, args, object, outFile, failure, exit>>

(* The result of elf_getdata is used as it is, in every phase that reads   *)
(* or writes sections.                                                     *)
NullData ==
  /\ \E p \in {"parse", "symbols", "layout", "tailor", "write"} : At(p)
  /\ Crash("data")
-----------------------------------------------------------------------------
(* Bintail::~Bintail. *)

End ==
  /\ At("return") /\ left # <<>>
  /\ handle[Head(left)] # "unset"
  /\ handle' = [handle EXCEPT ![Head(left)] = "ended"]
  /\ left' = Tail(left)
  /\ UNCHANGED <<pc, args, outFile, outcome>>

(* The last chance to hear of a write that failed: close(outfd), whose     *)
(* result nobody looks at.                                                 *)
CloseFails ==
  /\ At("return") /\ left # <<>>
  /\ Head(left) = "outfd" /\ handle["outfd"] = "open"
  /\ handle' = [handle EXCEPT !["outfd"] = "ended"]
  /\ left' = Tail(left)
  /\ ignored' = TRUE
  /\ outFile' = "damaged"
  /\ UNCHANGED <<pc, args, failure, exit>>

(* elf_end and close of a member nobody initialized.  What happens to lie  *)
(* there may be nothing; a pointer to anything; the number of a descriptor *)
(* that is in use.                                                         *)
EndUnset ==
  /\ At("return") /\ left # <<>>
  /\ handle[Head(left)] = "unset"
  /\ left' = Tail(left)
  /\ \/ UNCHANGED <<handle, outcome>>
     \/ /\ Head(left) = "e_out"
        /\ failure' = "undefined" /\ exit' = "crash"
        /\ UNCHANGED <<handle, ignored>>
     \/ /\ Head(left) = "outfd"
        /\ handle' = [handle EXCEPT !["infd"] = "ended"]
        /\ UNCHANGED outcome
  /\ UNCHANGED <<pc, args, outFile>>

Return ==
  /\ At("return") /\ left = <<>>
  /\ exit' = "success"
  /\ UNCHANGED <<pc, args, object, outFile, failure, ignored>>

Exited == exit # "running" /\ UNCHANGED vars

Constructor ==
  \/ OpenExe \/ OpenInput \/ BeginInput \/ InputFails \/ ExeAsserts
  \/ Parse \/ ParseThrows \/ SymbolsMissing \/ BoundaryThrows \/ Constructed
Output ==
  \/ OpenOutput \/ BeginOutput \/ OutputFails \/ NoSegment \/ InitWritten
  \/ ChangeThrows \/ Tailored \/ Write \/ WriteThrows \/ WriteFails
Destructor == End \/ CloseFails \/ EndUnset \/ Return

Next ==
  \/ \E o \in Accepted : Option(o)
  \/ Help
  \/ \E o \in Refused : Usage(o)
  \/ OptionsDone \/ OperandsMissing
  \/ Constructor
  \/ Display
  \/ Output
  \/ Ignored \/ NullData
  \/ Destructor
  \/ Exited

Spec == Init /\ [][Next]_vars
-----------------------------------------------------------------------------
TypeOK ==
  /\ operands \in Operands
  /\ opts \subseteq Accepted
  /\ refused \in Refused \cup {"none", "h"}
  /\ handle \in [Handle -> {"unset", "open", "ended"}]
  /\ Len(left) \in 0 .. Len(Ending)
  /\ outFile \in {"untouched", "created", "complete", "damaged", "broken"}
  /\ ignored \in BOOLEAN
  /\ exit \in {"running", "success", "failure", "abort", "crash"}

(* A run that only displays creates no file and opens nothing for output,  *)
(* whatever its options, -A, -a and -s included (main.cc:70, 86).          *)
DisplayOnlyReads ==
  operands # 2 => outFile = "untouched" /\ handle["e_out"] = "unset" /\ handle["outfd"] = "unset"

(* Status 0 means that the output is complete, or that there is none       *)
(* because only a display or the help was asked for, or because the        *)
(* executable is not one to tailor (the exit(0) at bintail.cc:175).  No    *)
(* exception, failed assertion, null result or checked refusal is taken    *)
(* for success.  Refusals that are: those the code prints (bintail.cc:273, *)
(* mvscn.cc:390), and those of close and of the gelf_ calls whose result   *)
(* it drops (among them bintail.cc:37, 298, 316, 321, 358, 383, 394,       *)
(* mvscn.cc:91, 336, 399); the output is then written without what was     *)
(* refused.                                                                *)
SuccessIsComplete ==
  exit = "success" =>
    outFile = IF refused = "h" \/ failure = "symbols" \/ operands # 2 THEN "untouched"
              ELSE IF ignored THEN "damaged" ELSE "complete"

(* With an output file no handle is ended twice, which for a descriptor    *)
(* may end somebody else's and for an Elf is a double free, and a run that *)
(* returns from main has ended all it began (destructor, and the close in  *)
(* the middle of the constructor).                                         *)
HandlesBalanced ==
  /\ [][operands = 2 /\ left' # left /\ left # <<>> =>
           handle[Head(left)] = "open"]_vars
  /\ [](pc = "return" /\ exit = "success" => \A h \in Handle : handle[h] # "open")
=============================================================================
