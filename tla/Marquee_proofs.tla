---------------------------- MODULE Marquee_proofs ----------------------------
(***************************************************************************)
(* Proofs about the name marquee: the types and OnlyLettersShown, for      *)
(* every buffer that is as long as the letters written.                    *)
(***************************************************************************)
EXTENDS Marquee, TLAPS

USE MarqueeAssumption DEF MarqueeAssumption

-----------------------------------------------------------------------------
(* A reset in the middle of a write makes the two counters jump, so the    *)
(* invariant is about the cells below them.  my_write() has filled every   *)
(* cell up to the one it is about to count, whichever it is by now.        *)

LettersBelow(n) == \A i \in 0 .. n - 1 : temp[i] \in Letters

\* What the counters may be, by the progress of the write ...
Counted ==
    /\ Len(written) <= MaxLetters
    /\ input_count <= Len(written) /\ LettersBelow(input_count)
    /\ writer = "load" =>
           input_count < Len(written) /\ LettersBelow(input_count + 1)
    /\ writer = "store" =>
           /\ input_count <= wreg /\ wreg < Len(written)
           /\ LettersBelow(wreg + 1)

\* ... and of the read.  Only between the two halves of a reset may the output
\* be ahead.
Behind ==
    /\ reader # "reset2" =>
           output_count <= input_count /\ (writer = "store" => output_count <= wreg)
    /\ reader = "show" => output_count < input_count

MInv == MarqueeTypeOK /\ Counted /\ Behind

\* At the start temp is empty.
LEMMA MarqueeInitInv == MarqueeInit => MInv
<1> SUFFICES ASSUME MarqueeInit PROVE MInv
  OBVIOUS
<1>1. temp \in [0 .. Size - 1 -> Letters \cup {NUL}]
  BY DEF MarqueeInit
<1>2. raced \in BOOLEAN
  BY DEF MarqueeInit
<1>3. written \in Seq(Letters) /\ shown \in Seq(Letters \cup {NUL})
  BY DEF MarqueeInit
<1>4. Len(written) = 0
  BY DEF MarqueeInit
<1>5. QED
  BY <1>1, <1>2, <1>3, <1>4 DEF MarqueeInit, MInv, MarqueeTypeOK, Counted, Behind, LettersBelow

\* Every step of the writer and of the reader keeps MInv.
LEMMA MarqueeStepInv ==
    ASSUME MInv, [MarqueeNext]_marqueeVars
    PROVE  MInv'
<1> USE DEF MInv, MarqueeTypeOK, Counted, Behind, LettersBelow, driver
<1>1. ASSUME NEW c \in Letters, WriteLetter(c) PROVE MInv'
  <2>1. input_count \in 0 .. Size - 1
    BY <1>1 DEF WriteLetter
  <2>2. /\ Len(written') = Len(written) + 1 /\ written' \in Seq(Letters)
        /\ temp' \in [0 .. Size - 1 -> Letters \cup {NUL}]
    BY <1>1, <2>1 DEF WriteLetter
  <2>3. LettersBelow(input_count + 1)'
    BY <1>1, <2>1 DEF WriteLetter
  <2>4. QED
    BY <1>1, <2>1, <2>2, <2>3 DEF WriteLetter
<1>2. CASE CountLoad
  BY <1>2 DEF CountLoad
<1>3. CASE CountStore
  BY <1>3 DEF CountStore
<1>4. CASE Open
  BY <1>4 DEF Open
<1>5. CASE Close
  BY <1>5 DEF Close
<1>6. CASE Test
  BY <1>6 DEF Test
<1>7. CASE Show
  BY <1>7 DEF Show
<1>8. CASE Blank
  BY <1>8 DEF Blank
<1>9. CASE ResetInput
  <2>1. raced' \in BOOLEAN
    BY <1>9 DEF ResetInput
  <2>2. /\ writer' = writer /\ wreg' = wreg /\ input_count' = 0 /\ reader' = "reset2"
        /\ temp' = temp /\ written' = written /\ output_count' = output_count
        /\ shown' = shown
    BY <1>9 DEF ResetInput
  <2>3. MarqueeTypeOK'
    BY <2>1, <2>2
  <2>4. Counted'
    BY <2>2
  <2>5. Behind'
    BY <2>2
  <2>6. QED
    BY <2>3, <2>4, <2>5
<1>10. CASE ResetOutput
  BY <1>10 DEF ResetOutput
<1>11. CASE UNCHANGED marqueeVars
  BY <1>11 DEF marqueeVars
<1>12. QED
  BY <1>1, <1>2, <1>3, <1>4, <1>5, <1>6, <1>7, <1>8, <1>9, <1>10, <1>11
     DEF MarqueeNext

\* MInv holds in every reachable state.
LEMMA MarqueeInductive == MarqueeSpec => []MInv
<1>1. MarqueeInit => MInv
  BY MarqueeInitInv
<1>2. MInv /\ [MarqueeNext]_marqueeVars => MInv'
  BY MarqueeStepInv
<1>3. QED
  BY <1>1, <1>2, PTL DEF MarqueeSpec

-----------------------------------------------------------------------------
\* The variables keep their types: neither counter of mydev.c passes the number
\* of letters written.
THEOREM MarqueeTypeCorrect == MarqueeSpec => []MarqueeTypeOK
<1>1. MInv => MarqueeTypeOK
  BY DEF MInv
<1>2. QED
  BY <1>1, MarqueeInductive, PTL

\* my_read() shows a cell of temp only when a letter has been written to it,
\* and never finds output_count ahead of input_count, for every interleaving
\* of its steps with those of my_write().
THEOREM MarqueeShowsLetters == MarqueeSpec => []OnlyLettersShown
<1>1. MInv => OnlyLettersShown
  BY DEF MInv, MarqueeTypeOK, Counted, Behind, LettersBelow, OnlyLettersShown
<1>2. QED
  BY <1>1, MarqueeInductive, PTL

-----------------------------------------------------------------------------
(* The order of the letters.  As long as no reset has thrown one away, the *)
(* letters written are those shown followed by cells First .. Last - 1 of  *)
(* temp, the cell that my_write() is about to count included.              *)

First == IF reader = "reset2" THEN 0 ELSE output_count
Last == IF writer = "idle" THEN input_count ELSE input_count + 1

Queued ==
    /\ writer = "store" => wreg = input_count
    /\ Len(written) = Len(shown) + (Last - First)
    /\ \A i \in 1 .. Len(shown) : written[i] = shown[i]
    /\ \A i \in First .. Last - 1 : written[Len(shown) + (i - First) + 1] = temp[i]

InOrder == raced = FALSE => Queued

\* Every step of the writer and of the reader keeps the letters in line.
LEMMA MarqueeStepOrder ==
    ASSUME MInv, InOrder, [MarqueeNext]_marqueeVars
    PROVE  InOrder'
<1> USE DEF MInv, MarqueeTypeOK, Counted, Behind, driver
<1> SUFFICES ASSUME raced' = FALSE PROVE Queued'
  BY DEF InOrder
<1>1. ASSUME NEW c \in Letters, WriteLetter(c) PROVE Queued'
  <2>1. /\ Queued /\ writer = "idle" /\ Last = input_count /\ writer' = "load"
        /\ Last' = input_count + 1 /\ First' = First /\ shown' = shown
        /\ input_count' = input_count
    BY <1>1 DEF WriteLetter, InOrder, First, Last
  <2>2. First <= input_count /\ First \in Nat /\ input_count \in 0 .. Size - 1
    BY <1>1 DEF WriteLetter, First
  <2>3. temp' = [temp EXCEPT ![input_count] = c]
    BY <1>1 DEF WriteLetter
  <2>4. /\ Len(written') = Len(written) + 1 /\ written'[Len(written) + 1] = c
        /\ \A i \in 1 .. Len(written) : written'[i] = written[i]
    BY <1>1 DEF WriteLetter
  <2>5. Len(shown) \in Nat /\ Len(written) = Len(shown) + (input_count - First)
    BY <2>1 DEF Queued
  <2>6. Len(written') = Len(shown') + (Last' - First')
    BY <2>1, <2>2, <2>4, <2>5
  <2>7. ASSUME NEW i \in 1 .. Len(shown) PROVE written'[i] = shown'[i]
    BY <2>1, <2>2, <2>4, <2>5 DEF Queued
  <2>8. ASSUME NEW i \in First .. input_count
        PROVE  written'[Len(shown) + (i - First) + 1] = temp'[i]
    <3>1. CASE i = input_count
      BY <2>2, <2>3, <2>4, <2>5, <3>1
    <3>2. CASE i # input_count
      <4>1. i \in First .. input_count - 1 /\ i \in 0 .. Size - 1
        BY <2>2, <3>2
      <4>2. written[Len(shown) + (i - First) + 1] = temp[i]
        BY <2>1, <4>1 DEF Queued
      <4>3. Len(shown) + (i - First) + 1 \in 1 .. Len(written)
        BY <2>2, <2>5, <4>1
      <4>4. QED
        BY <2>3, <2>4, <3>2, <4>1, <4>2, <4>3
    <3>3. QED
      BY <3>1, <3>2
  <2>9. QED
    BY <2>1, <2>6, <2>7, <2>8 DEF Queued
<1>2. CASE CountLoad
  BY <1>2 DEF CountLoad, InOrder, Queued, First, Last
<1>3. CASE CountStore
  BY <1>3 DEF CountStore, InOrder, Queued, First, Last
<1>4. CASE Open
  BY <1>4 DEF Open, InOrder, Queued, First, Last
<1>5. CASE Close
  BY <1>5 DEF Close, InOrder, Queued, First, Last
<1>6. CASE Test
  BY <1>6 DEF Test, InOrder, Queued, First, Last
<1>7. CASE Show
  <2>1. /\ Queued /\ First = output_count /\ First' = First + 1 /\ Last' = Last
        /\ written' = written /\ temp' = temp
        /\ writer' = writer /\ wreg' = wreg /\ input_count' = input_count
    BY <1>7 DEF Show, InOrder, First, Last
  <2>2. First \in Nat /\ Last \in Nat /\ First < Last /\ First \in 0 .. Size - 1
    BY <1>7, <2>1 DEF Show, Last
  <2>3. /\ Len(shown') = Len(shown) + 1 /\ shown'[Len(shown) + 1] = temp[First]
        /\ \A i \in 1 .. Len(shown) : shown'[i] = shown[i]
    BY <1>7, <2>1, <2>2 DEF Show
  <2>4. Len(shown) \in Nat
    OBVIOUS
  <2>5. Len(written') = Len(shown') + (Last' - First')
    <3>1. Len(written) = Len(shown) + (Last - First)
      BY <2>1 DEF Queued
    <3>2. Len(shown) + (Last - First) = (Len(shown) + 1) + (Last - (First + 1))
      BY <2>2, <2>4
    <3>3. QED
      BY <2>1, <2>3, <3>1, <3>2
  <2>6. ASSUME NEW i \in 1 .. Len(shown) + 1 PROVE written'[i] = shown'[i]
    <3>1. CASE i = Len(shown) + 1
      <4>1. written[Len(shown) + (First - First) + 1] = temp[First]
        BY <2>1, <2>2 DEF Queued
      <4>2. QED
        BY <2>1, <2>2, <2>3, <2>4, <3>1, <4>1
    <3>2. CASE i # Len(shown) + 1
      BY <2>1, <2>3, <2>4, <3>2 DEF Queued
    <3>3. QED
      BY <3>1, <3>2
  <2>7. ASSUME NEW i \in First + 1 .. Last - 1
        PROVE  written'[Len(shown') + (i - (First + 1)) + 1] = temp'[i]
    <3>1. written[Len(shown) + (i - First) + 1] = temp[i]
      BY <2>1, <2>2 DEF Queued
    <3>2. Len(shown') + (i - (First + 1)) + 1 = Len(shown) + (i - First) + 1
      BY <2>2, <2>3, <2>4
    <3>3. QED
      BY <2>1, <3>1, <3>2
  <2>8. writer' = "store" => wreg' = input_count'
    BY <2>1 DEF Queued
  <2>9. \A i \in First' .. Last' - 1 : written'[Len(shown') + (i - First') + 1] = temp'[i]
    BY <2>1, <2>7
  <2>10. \A i \in 1 .. Len(shown') : written'[i] = shown'[i]
    BY <2>3, <2>6
  <2>11. QED
    BY <2>5, <2>8, <2>9, <2>10 DEF Queued
<1>8. CASE Blank
  BY <1>8 DEF Blank, InOrder, Queued, First, Last
<1>9. CASE ResetInput
  <2>1. /\ raced = FALSE /\ writer = "idle" /\ input_count = output_count
        /\ reader = "reset" /\ reader' = "reset2" /\ input_count' = 0 /\ writer' = "idle"
        /\ UNCHANGED <<temp, output_count, wreg, written, shown>>
    BY <1>9 DEF ResetInput
  <2>2. First' = 0 /\ Last' = 0 /\ First = Last /\ First \in Nat
    BY <2>1 DEF First, Last
  <2>3. Queued
    BY <2>1 DEF InOrder
  <2>4. Len(shown) \in Nat /\ Len(written) = Len(shown)
    BY <2>2, <2>3 DEF Queued
  <2>5. Len(written') = Len(shown') + (Last' - First')
    BY <2>1, <2>2, <2>4
  <2>6. \A i \in First' .. Last' - 1 : written'[Len(shown') + (i - First') + 1] = temp'[i]
    BY <2>2
  <2>7. QED
    BY <2>1, <2>3, <2>5, <2>6 DEF Queued
<1>10. CASE ResetOutput
  BY <1>10 DEF ResetOutput, InOrder, Queued, First, Last
<1>11. CASE UNCHANGED marqueeVars
  BY <1>11 DEF marqueeVars, InOrder, Queued, First, Last
<1>12. QED
  BY <1>1, <1>2, <1>3, <1>4, <1>5, <1>6, <1>7, <1>8, <1>9, <1>10, <1>11
     DEF MarqueeNext

\* LettersInOrder: the driver without a lock is a queue for the one writer and
\* the one reader of demo.sh, unless a reset overtakes a write.
THEOREM MarqueeKeepsOrder == MarqueeSpec => []LettersInOrder
<1>1. MarqueeInit => InOrder
  BY DEF MarqueeInit, InOrder, Queued, First, Last
<1>2. MInv /\ InOrder /\ [MarqueeNext]_marqueeVars => InOrder'
  BY MarqueeStepOrder
<1>3. MInv /\ InOrder => LettersInOrder
  <2> SUFFICES ASSUME MInv, Queued, writer = "idle", reader # "reset2"
               PROVE  shown \o Pending = written
    BY DEF InOrder, LettersInOrder
  <2> DEFINE d == input_count - output_count
  <2>1. First = output_count /\ Last = input_count /\ d \in Nat
        /\ output_count \in Nat /\ input_count \in Nat
    BY DEF MInv, MarqueeTypeOK, Behind, First, Last
  <2>2. Pending \in Seq(Letters \cup {NUL}) /\ Len(Pending) = d
    <3>1. ASSUME NEW k \in 1 .. d PROVE temp[output_count + k - 1] \in Letters \cup {NUL}
      <4>1. output_count + k - 1 \in 0 .. Size - 1
        BY <2>1 DEF MInv, MarqueeTypeOK
      <4>2. QED
        BY <4>1 DEF MInv, MarqueeTypeOK
    <3>2. QED
      BY <2>1, <3>1 DEF Pending
  <2>3. /\ written \in Seq(Letters) /\ shown \in Seq(Letters \cup {NUL})
        /\ written \in Seq(Letters \cup {NUL})
        /\ Len(shown) \in Nat /\ Len(written) = Len(shown) + d
    BY <2>1 DEF MInv, MarqueeTypeOK, Queued
  <2>4. (shown \o Pending) \in Seq(Letters \cup {NUL}) /\ Len(shown \o Pending) = Len(written)
    BY <2>1, <2>2, <2>3
  <2>5. ASSUME NEW i \in 1 .. Len(written) PROVE (shown \o Pending)[i] = written[i]
    <3>1. CASE i <= Len(shown)
      BY <2>2, <2>3, <3>1 DEF Queued
    <3>2. CASE i > Len(shown)
      <4> DEFINE k == i - Len(shown)
      <4>1. k \in 1 .. d /\ i = Len(shown) + k
        BY <2>1, <2>3, <3>2
      <4>2. (shown \o Pending)[i] = Pending[k]
        BY <2>1, <2>2, <2>3, <3>2, <4>1
      <4>3. Pending[k] = temp[output_count + k - 1]
        BY <4>1 DEF Pending
      <4>4. output_count + k - 1 \in First .. Last - 1
        BY <2>1, <4>1
      <4>5. written[Len(shown) + ((output_count + k - 1) - First) + 1] = temp[output_count + k - 1]
        BY <4>4 DEF Queued
      <4>6. Len(shown) + ((output_count + k - 1) - First) + 1 = i
        BY <2>1, <2>3, <4>1
      <4>7. QED
        BY <4>2, <4>3, <4>5, <4>6
    <3>3. i <= Len(shown) \/ i > Len(shown)
      BY <2>1, <2>3
    <3>4. QED
      BY <3>1, <3>2, <3>3
  <2>6. QED
    BY <2>3, <2>4, <2>5
<1>4. QED
  BY <1>1, <1>2, <1>3, MarqueeInductive, PTL DEF MarqueeSpec

=============================================================================
