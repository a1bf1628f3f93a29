-------------------------------- MODULE Marquee --------------------------------
(***************************************************************************)
(* The name marquee of Lab/312512032_eos_lab4.  writer.c writes one letter *)
(* a second to the driver mydev.c, reader.c reads one a second from it and *)
(* shows a blank when there is none.  The driver keeps the letters in      *)
(* temp, between output_count and input_count, takes no lock, and starts   *)
(* again at 0 when a read finds it empty.  There is one writer and one     *)
(* reader, as in demo.sh.  A character that is no letter changes nothing.  *)
(***************************************************************************)
EXTENDS Integers, Sequences

CONSTANTS
    Letters,
    Size,           \* the length of temp
    MaxLetters      \* bound on the letters written

ASSUME MarqueeAssumption ==
    /\ Size \in Nat
    /\ MaxLetters \in 0 .. Size

NUL == "NUL"        \* what a cell of temp holds at first
ASSUME NULAssumption == NUL \notin Letters

VARIABLES
    temp, input_count, output_count,
    writer,         \* control point of my_write()
    wreg,           \* the register of input_count++
    reader,         \* control point of my_read()
    \* history
    written,        \* the letters written, in order
    shown,          \* the letters shown, in order
    raced           \* a reset has thrown away a letter

driver == <<temp, input_count, output_count>>
marqueeVars == <<driver, writer, wreg, reader, written, shown, raced>>

MarqueeInit ==
    /\ temp = [i \in 0 .. Size - 1 |-> NUL]
    /\ input_count = 0 /\ output_count = 0
    /\ writer = "idle" /\ wreg = 0
    /\ reader = "off"
    /\ written = <<>> /\ shown = <<>> /\ raced = FALSE

-----------------------------------------------------------------------------
(* my_write()                                                              *)

WriteLetter(c) ==
    /\ writer = "idle" /\ Len(written) < MaxLetters
    /\ writer' = "load"
    /\ temp' = [temp EXCEPT ![input_count] = c]
    /\ written' = Append(written, c)
    /\ UNCHANGED <<input_count, output_count, wreg, reader, shown, raced>>

CountLoad ==
    /\ writer = "load"
    /\ writer' = "store"
    /\ wreg' = input_count
    /\ UNCHANGED <<driver, reader, written, shown, raced>>

CountStore ==
    /\ writer = "store"
    /\ writer' = "idle"
    /\ input_count' = wreg + 1
    /\ UNCHANGED <<temp, output_count, wreg, reader, written, shown, raced>>

-----------------------------------------------------------------------------
(* my_read()                                                               *)

Open ==
    /\ reader = "off"
    /\ reader' = "test"
    /\ UNCHANGED <<driver, writer, wreg, written, shown, raced>>

\* Ctrl-C in reader.c, between two reads.
Close ==
    /\ reader = "test"
    /\ reader' = "off"
    /\ UNCHANGED <<driver, writer, wreg, written, shown, raced>>

\* Mutant: an empty driver has a letter to show.
Test_Empty ==
    /\ reader = "test"
    /\ reader' = IF input_count >= output_count THEN "show" ELSE "blank"
    /\ UNCHANGED <<driver, writer, wreg, written, shown, raced>>

Test ==
    /\ reader = "test"
    /\ reader' = IF input_count > output_count THEN "show" ELSE "blank"
    /\ UNCHANGED <<driver, writer, wreg, written, shown, raced>>

Show ==
    /\ reader = "show"
    /\ reader' = "test"
    /\ shown' = Append(shown, temp[output_count])
    /\ output_count' = output_count + 1
    /\ UNCHANGED <<temp, input_count, writer, wreg, written, raced>>

Blank ==
    /\ reader = "blank"
    /\ reader' = IF input_count = output_count THEN "reset" ELSE "test"
    /\ UNCHANGED <<driver, writer, wreg, written, shown, raced>>

\* Mutant: output_count is set to 0 first.
ResetInput_Output ==
    /\ reader = "reset"
    /\ reader' = "test"
    /\ output_count' = 0
    /\ UNCHANGED <<temp, input_count, writer, wreg, written, shown, raced>>

\* The letter that my_write() is adding, or has added since Blank, is lost.
ResetInput ==
    /\ reader = "reset"
    /\ reader' = "reset2"
    /\ input_count' = 0
    /\ raced' = IF writer # "idle" \/ input_count # output_count THEN TRUE ELSE raced
    /\ UNCHANGED <<temp, output_count, writer, wreg, written, shown>>

\* Mutant: output_count is forgotten.
ResetOutput_Not ==
    /\ reader = "reset2"
    /\ reader' = "test"
    /\ UNCHANGED <<driver, writer, wreg, written, shown, raced>>

ResetOutput ==
    /\ reader = "reset2"
    /\ reader' = "test"
    /\ output_count' = 0
    /\ UNCHANGED <<temp, input_count, writer, wreg, written, shown, raced>>

-----------------------------------------------------------------------------
MyRead == Test \/ Show \/ Blank \/ ResetInput \/ ResetOutput

MarqueeNext ==
    \/ \E c \in Letters : WriteLetter(c)
    \/ CountLoad \/ CountStore \/ Open \/ Close
    \/ Test \/ Show \/ Blank \/ ResetInput \/ ResetOutput

MarqueeSpec == MarqueeInit /\ [][MarqueeNext]_marqueeVars

\* A write that was begun ends, and reader.c loops for ever.
MarqueeFairness ==
    WF_marqueeVars(CountLoad \/ CountStore) /\ WF_marqueeVars(MyRead)

-----------------------------------------------------------------------------
(* Properties.                                                             *)

MarqueeTypeOK ==
    /\ temp \in [0 .. Size - 1 -> Letters \cup {NUL}]
    /\ input_count \in 0 .. MaxLetters /\ output_count \in 0 .. MaxLetters
    /\ writer \in {"idle", "load", "store"} /\ wreg \in 0 .. MaxLetters
    /\ reader \in {"off", "test", "show", "blank", "reset", "reset2"}
    /\ written \in Seq(Letters) /\ shown \in Seq(Letters \cup {NUL})
    /\ raced \in BOOLEAN

\* my_read() looks up the segments of temp[output_count] only when a letter was
\* written there: whatever a reset in the middle of a write does to the two
\* counters, no cell that was never filled is shown, and no read finds
\* output_count ahead of input_count, which would blank the display for good.
OnlyLettersShown ==
    /\ reader = "show" => output_count < Size /\ temp[output_count] \in Letters
    /\ reader \in {"test", "show", "blank"} => output_count <= input_count

Pending == [k \in 1 .. input_count - output_count |-> temp[output_count + k - 1]]

\* Between writes and resets the driver is a queue: what was shown and what is
\* still in temp are the letters written, in order and without loss or
\* repetition, unless a reset overtook a write.
LettersInOrder ==
    raced = FALSE /\ writer = "idle" /\ reader # "reset2" => shown \o Pending = written

\* When the writer pauses, everything in temp gets shown and the marquee is
\* blank: the counters cannot get stuck apart.
MarqueeDrains ==
    reader # "off" ~>
        input_count = output_count \/ writer # "idle" \/ reader = "off"

=============================================================================
