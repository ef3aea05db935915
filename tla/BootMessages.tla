---------------------------- MODULE BootMessages ----------------------------
(***************************************************************************)
(* The messages of the boot sector, the entry point and the 32-bit kernel, *)
(* and where each of them asks for which: the calls of PRINTMESSAGE and    *)
(* kPrintString along every way through the three programs.                *)
(***************************************************************************)
EXTENDS Naturals, Sequences

Columns == 80
Rows    == 25

\* how many characters each message has before its terminating 0
Length ==
  [MESSAGE1 |-> 30, IMAGELOADINGMESSAGE |-> 19, LOADINGCOMPLETEMESSAGE |-> 11,
   DISKERRORMESSAGE |-> 13, SWITCHSUCCESSMESSAGE |-> 35,
   started |-> 50, memoryCheck |-> 50, notEnough |-> 62, areaInitialize |-> 50,
   areaFail |-> 34, pass |-> 4, fail |-> 4]

\* the address of each message's first byte; which one is of no importance
Text ==
  [MESSAGE1 |-> 100, IMAGELOADINGMESSAGE |-> 200, LOADINGCOMPLETEMESSAGE |-> 300,
   DISKERRORMESSAGE |-> 400, SWITCHSUCCESSMESSAGE |-> 500,
   started |-> 600, memoryCheck |-> 700, notEnough |-> 800, areaInitialize |-> 900,
   areaFail |-> 1000, pass |-> 1100, fail |-> 1200]

\* which program prints what
Messages ==
  [loader |-> {"MESSAGE1", "IMAGELOADINGMESSAGE", "LOADINGCOMPLETEMESSAGE",
               "DISKERRORMESSAGE"},
   entry  |-> {"SWITCHSUCCESSMESSAGE"},
   kernel |-> {"started", "memoryCheck", "notEnough", "areaInitialize", "areaFail",
               "pass", "fail"}]

\* the characters of a message between brackets that are meant to be filled in
Hole(m) == IF m \in {"memoryCheck", "areaInitialize"} THEN 45..48 ELSE {}

\* the byte at an address: a character is told by its place, 0 ends a message
TextByte(a) ==
  IF \E m \in DOMAIN Text : a \in Text[m]..(Text[m] + Length[m] - 1) THEN a ELSE 0

\* what is on the screen once a character has been stored at a place of it
Written(screen, place, character) ==
  [a \in DOMAIN screen \cup {place} |-> IF a = place THEN character ELSE screen[a]]

Call(x, y, m) == [x |-> x, y |-> y, message |-> m]

\* mutant: "push 15": the outcome starts within the message before it
OutcomeColumnEarly == 15

\* where the boot sector announces how loading ended
OutcomeColumn == 20

LoaderPaths ==
  { << Call(0, 0, "MESSAGE1"), Call(0, 1, "IMAGELOADINGMESSAGE"),
       Call(OutcomeColumn, 1, outcome) >>
    : outcome \in {"LOADINGCOMPLETEMESSAGE", "DISKERRORMESSAGE"} }

EntryPaths == { << Call(0, 2, "SWITCHSUCCESSMESSAGE") >> }

\* mutant: the way to the end does not say that the area was cleared
KernelPathsSilent ==
  { << Call(0, 3, "started"), Call(0, 4, "memoryCheck"), Call(45, 4, "pass"),
       Call(0, 5, "areaInitialize") >> }

\* the three ways through Main
KernelPaths ==
  LET start == << Call(0, 3, "started"), Call(0, 4, "memoryCheck") >>
      area  == << Call(45, 4, "pass"), Call(0, 5, "areaInitialize") >>
  IN  { start \o << Call(45, 4, "fail"), Call(0, 5, "notEnough") >>,
        start \o area \o << Call(45, 5, "fail"), Call(0, 6, "areaFail") >>,
        start \o area \o << Call(45, 5, "pass") >> }

\* one boot: the loader fails, or all three programs run on one screen
BootPaths ==
  LET failed(p) == p[Len(p)].message = "DISKERRORMESSAGE"
  IN  {p \in LoaderPaths : failed(p)} \cup
      {p \o q \o r : p \in {p \in LoaderPaths : ~failed(p)},
                     q \in EntryPaths, r \in KernelPaths}
=============================================================================
