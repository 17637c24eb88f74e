--------------------------- MODULE SharedExclusive --------------------------
(***************************************************************************)
(* What a reader-writer lock promises (structs.h:117-124): any number of   *)
(* readers at once, or one writer alone.                                   *)
(***************************************************************************)
CONSTANT Thread
VARIABLES reading, writing     \* the threads inside, by kind

Init == reading = {} /\ writing = {}

StartRead(t) == /\ t \notin reading /\ writing = {}
                /\ reading' = reading \union {t}
                /\ UNCHANGED writing

StartWrite(t) == /\ reading = {} /\ writing = {}
                 /\ writing' = {t}
                 /\ UNCHANGED reading

EndRead(t) == /\ t \in reading
              /\ reading' = reading \ {t}
              /\ UNCHANGED writing

EndWrite(t) == /\ writing = {t}
               /\ writing' = {}
               /\ UNCHANGED reading

Next == \E t \in Thread : StartRead(t) \/ StartWrite(t) \/ EndRead(t) \/ EndWrite(t)

vars == <<reading, writing>>
Spec == Init /\ [][Next]_vars
=============================================================================
