------------------------------ MODULE Printing ------------------------------
(***************************************************************************)
(* The three routines that print, at work on one screen during one boot:   *)
(* PRINTMESSAGE of the boot sector (16-bit, BootLoader.asm) and of the     *)
(* entry point (32-bit, EntryPoint.s), with parameters on the stack,       *)
(* registers saved and restored by hand and parameters removed by the      *)
(* caller; and kPrintString of the kernel (Main.c), with a pointer and an  *)
(* index.  In real mode interrupts are enabled and use the same stack:     *)
(* whatever lies below SP may change between two instructions.             *)
(***************************************************************************)
EXTENDS BootMessages

CONSTANTS
  StackTop,     \* SP, in words of the routine, where the caller calls from
  Junk          \* a word that nobody here put on the stack

\* room for three parameters, a return address and what PRINTMESSAGE saves
ASSUME StackAssumption == StackTop \in Nat /\ StackTop >= 11

VARIABLES
  pc,           \* "caller", "return" (to it), the part of PRINTMESSAGE, or in
                \* kPrintString "entry" or "for"
  calls,        \* what the programs print on their way
  made,         \* the call the caller comes after, as IP says
  sp, reg,      \* SP, in words, and the other registers
  stack,        \* the words of the stack
  pstScreen, i, \* kPrintString's variables
  video         \* address |-> character, for what was written

assembler == <<sp, reg, stack>>
kernel    == <<pstScreen, i>>
vars      == <<pc, calls, made, assembler, kernel, video>>

VideoBase    == 753664       \* 0xB8000
VideoSegment == 47104        \* 0xB800

\* the program whose turn it is to print
Message  == calls[made + 1].message
Prints(p) == made < Len(calls) /\ Message \in Messages[p]
RealMode == Prints("loader")

\* what PRINTMESSAGE pushes after BP, in this order, and what it pops
Saved ==
  (IF RealMode THEN <<"es">> ELSE << >>) \o <<"si", "di", "ax", "cx", "dx">>

\* mutant: CX and AX are popped in the order they were pushed in
RestoredSwapped ==
  <<"dx", "ax", "cx", "di", "si">> \o (IF RealMode THEN <<"es">> ELSE << >>) \o <<"bp">>

Restored ==
  <<"dx", "cx", "ax", "di", "si">> \o (IF RealMode THEN <<"es">> ELSE << >>) \o <<"bp">>

\* mutant: X and Y are taken for each other
ParameterWordSwapped == [x |-> 3, y |-> 2, message |-> 4]

\* where a parameter lies above BP: [ bp + 4 ] or [ ebp + 8 ] and so on
ParameterWord == [x |-> 2, y |-> 3, message |-> 4]

\* "add sp, 6", "add esp, 12"
Removed == 3

\* the caller's registers, whose values PRINTMESSAGE must bring back
CallerReg ==
  [es |-> 31, bp |-> 32, si |-> 33, di |-> 34, ax |-> 35, cx |-> 36, dx |-> 37]

Push(words) ==
  /\ sp' = sp - Len(words)
  /\ stack' = [w \in DOMAIN stack |->
                 IF w \in sp' .. (sp - 1) THEN words[sp - w] ELSE stack[w]]

\* the address a store through DI reaches
Target == (IF RealMode THEN 16 * reg["es"] ELSE VideoBase) + reg["di"]

-----------------------------------------------------------------------------
Init ==
  /\ pc = "caller"
  /\ calls \in BootPaths
  /\ made = 0
  /\ sp = StackTop
  /\ reg = CallerReg
  /\ stack = [w \in 0..StackTop |-> Junk]
  /\ pstScreen = VideoBase /\ i = 0
  /\ video = << >>

\* the three pushes and the call, which pushes where to come back to
CallPrintMessage ==
  /\ pc = "caller"
  /\ Prints("loader") \/ Prints("entry")
  /\ LET c == calls[made + 1]
     IN  Push(<<Text[c.message], c.y, c.x, made + 1>>)
  /\ pc' = "PRINTMESSAGE"
  /\ UNCHANGED <<calls, made, reg, kernel, video>>

Enter ==
  /\ pc = "PRINTMESSAGE"
  /\ Push(<<reg["bp"]>> \o [k \in 1..Len(Saved) |-> reg[Saved[k]]])
  /\ reg' = [reg EXCEPT !["bp"] = sp - 1]
  /\ pc' = "locate"
  /\ UNCHANGED <<calls, made, kernel, video>>

\* the address DI of the first cell; mul leaves its upper half in DX
Locate ==
  /\ pc = "locate"
  /\ LET bp == reg["bp"]
         x  == stack[bp + ParameterWord.x]
         y  == stack[bp + ParameterWord.y]
     IN  reg' = [reg EXCEPT !["es"] = IF RealMode THEN VideoSegment ELSE @,
                            !["di"] = y * 160 + x * 2, !["ax"] = x * 2, !["dx"] = 0,
                            !["si"] = stack[bp + ParameterWord.message]]
  /\ pc' = "MESSAGELOOP"
  /\ UNCHANGED <<calls, made, sp, stack, kernel, video>>

\* one turn of .MESSAGELOOP
DrawCharacter ==
  LET cl == TextByte(reg["si"])
  IN  /\ pc = "MESSAGELOOP"
      /\ cl # 0
      /\ video' = Written(video, Target, cl)
      /\ reg' = [reg EXCEPT !["cx"] = cl, !["si"] = @ + 1, !["di"] = @ + 2]
      /\ UNCHANGED <<pc, calls, made, sp, stack, kernel>>

MessageEnd ==
  /\ pc = "MESSAGELOOP"
  /\ TextByte(reg["si"]) = 0
  /\ reg' = [reg EXCEPT !["cx"] = 0]
  /\ pc' = "MESSAGEEND"
  /\ UNCHANGED <<calls, made, sp, stack, kernel, video>>

\* the pops, and ret to whatever is on top of the stack then
Leave ==
  LET n == Len(Restored)
  IN  /\ pc = "MESSAGEEND"
      /\ reg' = [r \in DOMAIN reg |->
                   IF \E k \in 1..n : Restored[k] = r
                     THEN stack[sp + (CHOOSE k \in 1..n : Restored[k] = r) - 1]
                     ELSE reg[r]]
      /\ made' = stack[sp + n]
      /\ sp' = sp + n + 1
      /\ pc' = "return"
      /\ UNCHANGED <<calls, stack, kernel, video>>

RemoveArguments ==
  /\ pc = "return"
  /\ sp' = sp + Removed
  /\ pc' = "caller"
  /\ UNCHANGED <<calls, made, reg, stack, kernel, video>>

\* an interrupt in real mode leaves SP and all registers as they were
Interrupt ==
  /\ RealMode
  /\ stack' = [w \in DOMAIN stack |-> IF w < sp THEN Junk ELSE stack[w]]
  /\ UNCHANGED <<pc, calls, made, sp, reg, kernel, video>>

-----------------------------------------------------------------------------
\* sizeof(CHARACTER): character and attribute, packed
CharacterBytes == 2

\* pstScreen[n].bCharactor
Element(n) == pstScreen + n * CharacterBytes

CallPrintString ==
  /\ pc = "caller"
  /\ Prints("kernel")
  /\ pstScreen' = VideoBase
  /\ pc' = "entry"
  /\ UNCHANGED <<calls, made, assembler, i, video>>

LocateElement ==
  LET c == calls[made + 1]
  IN  /\ pc = "entry"
      /\ pstScreen' = Element(c.y * Columns + c.x)
      /\ i' = 0
      /\ pc' = "for"
      /\ UNCHANGED <<calls, made, assembler, video>>

\* one turn of the loop
PutCharacter ==
  LET bCharactor == TextByte(Text[Message] + i)
  IN  /\ pc = "for"
      /\ bCharactor # 0
      /\ video' = Written(video, Element(i), bCharactor)
      /\ i' = i + 1
      /\ UNCHANGED <<pc, calls, made, assembler, pstScreen>>

ReturnToMain ==
  /\ pc = "for"
  /\ TextByte(Text[Message] + i) = 0
  /\ made' = made + 1
  /\ pc' = "caller"
  /\ UNCHANGED <<calls, assembler, kernel, video>>

-----------------------------------------------------------------------------
Step ==
  \/ CallPrintMessage \/ Enter \/ Locate \/ DrawCharacter \/ MessageEnd
  \/ Leave \/ RemoveArguments
  \/ CallPrintString \/ LocateElement \/ PutCharacter \/ ReturnToMain

Next == Step \/ Interrupt

Safety == Init /\ [][Next]_vars

\* the processor runs
Spec == Safety /\ WF_vars(Step)

-----------------------------------------------------------------------------
\* The caller gets back the stack and the seven registers it had, message after
\* message and whatever interrupts leave below SP ("restore DX to ES from the
\* values put on the stack", BootLoader.asm 217-225, EntryPoint.s 125-132).
CallerUndisturbed == pc = "caller" => sp = StackTop /\ reg = CallerReg

-----------------------------------------------------------------------------
\* the abstract printer's view of the routines
Shown ==
  CASE pc = "MESSAGELOOP" -> reg["si"] - Text[Message]
    [] pc = "MESSAGEEND"  -> Length[Message]
    [] pc = "for"         -> i
    [] OTHER              -> 0

Cells ==
  [c \in {c \in 0..(Columns * Rows - 1) : VideoBase + 2 * c \in DOMAIN video}
     |-> video[VideoBase + 2 * c]]

Scr == INSTANCE Screen WITH Paths <- BootPaths, shown <- Shown, cells <- Cells

\* Every message of a boot appears where it was asked for, character by
\* character, whichever routine prints it, and the programs go on
\* (BootLoader.asm 167-225, EntryPoint.s 80-132, Main.c 43-54).
ImplementsScreen == Scr!Spec

\* A message that has been printed stays readable: none of the boot's later
\* messages, of whichever program, runs into it, except into the brackets it
\* leaves for an outcome, and none runs over its row's end (BootLoader.asm
\* 49-62, 141-144, 157-160, EntryPoint.s 67-70, Main.c 19-38).
Readable == Scr!Readable

\* At the end no bracket is left empty: every check that was announced has its
\* outcome, unless the boot ended in it (Main.c 22-38).
OutcomesFilledIn == Scr!OutcomesFilledIn
=============================================================================
