------------------------ MODULE ParkingServer_proofs ------------------------
(***************************************************************************)
(* Proofs about ParkingServer, for every value of its constants.           *)
(*                                                                         *)
(* Every step but the clock's is a Step(p) of one child p.  For each part  *)
(* of IInv a lemma StepXxx proves that Step(p) preserves it, action by     *)
(* action; most actions fall under a lemma XxxStay that says which writes  *)
(* cannot disturb that part.  NextInv puts them together, and the theorems *)
(* at the end read the properties off IInv.                                *)
(***************************************************************************)
EXTENDS ParkingServer, Sums

-----------------------------------------------------------------------------
(* Facts about the data.                                                   *)

\* The values that the code assigns are in the sets TypeOK names.
LEMMA Constants ==
  /\ 0 \in Money /\ Money \subseteq Nat
  /\ 1 \in Gates
  /\ now \in StartTime .. MaxTime => /\ now \in Int /\ Past \subseteq Int
                                     /\ {-1, 0, now} \subseteq Past
  BY TimeAssumption DEF Money, Gates, Past

\* The range of the times moves only with the clock.
LEMMA PastSame == UNCHANGED now => Past' = Past
  BY DEF Past

\* *cash += fee stays an int.
LEMMA CashWraps ==
  ASSUME NEW a \in Money, NEW b \in Nat
  PROVE  (a + b) % CashWidth \in Money
  BY TimeAssumption DEF Money

\* The fee is never negative: no stored time lies in the future.
LEMMA FeeIsNat ==
  ASSUME SharedOK, NEW i \in Slots
  PROVE  FeeFor(i) \in Nat
<1> DEFINE r == IF elec[i] # 0 THEN RateElec ELSE RateFuel
           d == now - entry_t[i]
           n == d \div Period + 1
<1>1. r \in Nat
  BY TimeAssumption
<1>2. d \in Nat
  BY TimeAssumption DEF SharedOK, Past
<1>3. n \in Nat
  BY <1>2, TimeAssumption
<1>4. r * n \in Nat
  <2> HIDE DEF r, n
  <2> QED BY <1>1, <1>3
<1> QED
  BY <1>4 DEF FeeFor

-----------------------------------------------------------------------------
(* Type correctness.                                                       *)

\* The initial state is well typed.
LEMMA InitType == Init => TypeOK
<1> SUFFICES ASSUME Init PROVE TypeOK
  OBVIOUS
<1>1. now \in StartTime .. MaxTime
  BY TimeAssumption DEF Init
<1>2. SharedOK
  <2>1. /\ space_left \in [{0, 1} -> Int]
        /\ sem_counting \in Nat
    BY SizeAssumption DEF Init
  <2> QED
    BY <1>1, <2>1, Constants DEF Init, SharedOK
<1>3. LocalOK
  BY <1>1, Constants DEF Init, LocalOK, Labels, Replies
<1> QED
  BY <1>2, <1>3 DEF TypeOK

\* What the steps of a child do to its locals.
LEMMA GoType ==
  ASSUME LocalOK, NEW p \in Procs, NEW a, NEW b \in Labels, Go(p, a, b)
  PROVE  pc' \in [Procs -> Labels]
  BY DEF LocalOK, Go

\* Answering keeps the replies well typed.
LEMMA AnswerType ==
  ASSUME LocalOK, NEW p \in Procs, NEW m \in Replies, Answer(p, m)
  PROVE  reply' \in [Procs -> Replies]
  BY DEF LocalOK, Answer

\* A handler that forgets its locals leaves them well typed.
LEMMA ForgetType ==
  ASSUME TypeOK, NEW p \in Procs, Forget(p), UNCHANGED now,
         pc' \in [Procs -> Labels], reply' \in [Procs -> Replies]
  PROVE  LocalOK'
  BY Constants, PastSame DEF TypeOK, SharedOK, LocalOK, Forget

\* So does one that returns,
LEMMA ReturnType ==
  ASSUME TypeOK, NEW p \in Procs, NEW a, Return(p, a), UNCHANGED now,
         reply' \in [Procs -> Replies]
  PROVE  LocalOK'
  BY GoType, ForgetType DEF TypeOK, Return, Labels

\* and one that is killed.
LEMMA DieType ==
  ASSUME TypeOK, NEW p \in Procs, NEW a, Die(p, a), UNCHANGED now
  PROVE  LocalOK'
  BY GoType, ForgetType DEF TypeOK, LocalOK, Die, Labels

\* Locals that do not change stay well typed.
LEMMA SameLocals ==
  ASSUME LocalOK, UNCHANGED <<locals, now>>, pc' \in [Procs -> Labels]
  PROVE  LocalOK'
  BY PastSame DEF LocalOK, locals, scratch

\* What they do to the shared state.
LEMMA SameShared ==
  ASSUME SharedOK, UNCHANGED <<store, sems, rest>>
  PROVE  SharedOK'
  BY PastSame DEF SharedOK, store, table, spaces, money, sems, rest, lost

\* A step that changes only the semaphores keeps the shared state typed.
LEMMA SemsShared ==
  ASSUME SharedOK, UNCHANGED <<store, rest>>,
         sem_mutex' \in Nat, sem_counting' \in Nat
  PROVE  SharedOK'
  BY PastSame DEF SharedOK, store, table, spaces, money, rest, lost

\* P() never takes a semaphore below zero.
LEMMA PType == ASSUME NEW s \in Nat, s > 0 PROVE s - 1 \in Nat
  OBVIOUS

\* The steps of entry() preserve types.
LEMMA EntryType ==
  ASSUME TypeOK, NEW p \in Procs, EntryStep(p)
  PROVE  TypeOK'
<1> USE DEF TypeOK, Labels, EntryLabels, Replies
<1>1. CASE EntryScan(p)
  <2>1. SharedOK'
    BY <1>1, SameShared DEF EntryScan
  <2>2. LocalOK'
    <3>1. CASE Return(p, "e_scan") /\ Answer(p, "already parked")
      BY <1>1, <3>1, AnswerType, ReturnType DEF EntryScan, rest
    <3>2. CASE Go(p, "e_scan", "e_P") /\ UNCHANGED locals
      BY <1>1, <3>2, GoType, SameLocals DEF EntryScan, rest
    <3> QED
      BY <1>1, <3>1, <3>2 DEF EntryScan
  <2> QED
    BY <2>1, <2>2
<1>2. CASE EntryP(p)
  <2>1. SharedOK'
    BY <1>2, PType, SemsShared DEF EntryP, P, SharedOK
  <2>2. LocalOK'
    BY <1>2, GoType, SameLocals DEF EntryP, rest
  <2> QED
    BY <2>1, <2>2
<1>3. CASE EntryFind(p)
  <2>1. SharedOK'
    BY <1>3, SameShared DEF EntryFind
  <2>2. LocalOK'
    BY <1>3, PastSame DEF EntryFind, LocalOK, Go, rest, scratch
  <2> QED
    BY <2>1, <2>2
<1>4. CASE EntryFull(p)
  <2>1. SharedOK'
    <3>1. sem_mutex' \in Nat /\ sem_counting' \in Nat
      <4>1. V(sem_mutex) /\ UNCHANGED sem_counting
        BY <1>4 DEF EntryFull
      <4> QED
        BY <4>1 DEF V, SharedOK
    <3> QED
      BY <1>4, <3>1, SemsShared DEF EntryFull
  <2>2. LocalOK'
    BY <1>4, AnswerType, ReturnType DEF EntryFull, rest, LocalOK
  <2> QED
    BY <2>1, <2>2
<1>5. CASE EntryClaim(p)
  <2>1. SharedOK'
    <3>1. Class(plate[p]) \in {0, 1}
      BY DEF Class
    <3>2. space_left' \in [{0, 1} -> Int]
      BY <1>5, <3>1 DEF EntryClaim, SharedOK
    <3>3. /\ elec' \in [Slots -> {-1, 0, 1}]
          /\ park_space' \in [Slots -> {0, 1}]
      BY <1>5, <3>1 DEF EntryClaim, SharedOK
    <3> QED
      BY <1>5, <3>2, <3>3, PastSame DEF EntryClaim, SharedOK, money, sems,
         rest, lost
  <2>2. LocalOK'
    BY <1>5, GoType, SameLocals DEF EntryClaim, rest
  <2> QED
    BY <2>1, <2>2
<1>6. CASE EntryPlate(p)
  <2>1. SharedOK'
    BY <1>6, PastSame DEF EntryPlate, SharedOK, LocalOK, store, table, spaces, money, sems, rest, lost
  <2>2. LocalOK'
    BY <1>6, GoType, SameLocals DEF EntryPlate, rest
  <2> QED
    BY <2>1, <2>2
<1>7. CASE EntryTimes(p)
  <2>1. SharedOK'
    <3>1. /\ entry_t' \in [Slots -> Past]
          /\ pay_t' \in [Slots -> Past]
      BY <1>7, Constants DEF EntryTimes, SharedOK
    <3> QED
      BY <1>7, <3>1, PastSame DEF EntryTimes, SharedOK, spaces, money, sems,
         rest, lost
  <2>2. LocalOK'
    BY <1>7, GoType, SameLocals DEF EntryTimes, rest
  <2> QED
    BY <2>1, <2>2
<1>8. CASE EntryV(p)
  <2>1. SharedOK'
    BY <1>8, SemsShared DEF EntryV, V, SharedOK
  <2>2. LocalOK'
    BY <1>8, GoType, SameLocals DEF EntryV, rest
  <2> QED
    BY <2>1, <2>2
<1>9. CASE EntryLed(p)
  <2>1. SharedOK'
    BY <1>9, PastSame DEF EntryLed, SharedOK, LocalOK, store, table, spaces, money, sems, rest, lost
  <2>2. LocalOK'
    BY <1>9, GoType, SameLocals DEF EntryLed, rest
  <2> QED
    BY <2>1, <2>2
<1>10. CASE EntryReply(p)
  <2>1. SharedOK'
    BY <1>10, SameShared DEF EntryReply
  <2>2. LocalOK'
    BY <1>10, AnswerType, ReturnType DEF EntryReply, rest
  <2> QED
    BY <2>1, <2>2
<1> QED
  BY <1>1, <1>2, <1>3, <1>4, <1>5, <1>6, <1>7, <1>8, <1>9, <1>10
  DEF EntryStep

\* The steps of exitpark() preserve types.
LEMMA ExitType ==
  ASSUME TypeOK, NEW p \in Procs, ExitStep(p)
  PROVE  TypeOK'
<1> USE DEF TypeOK, Labels, ExitLabels, Replies
<1>1. CASE ExitScan(p)
  <2>1. SharedOK'
    BY <1>1, SameShared DEF ExitScan
  <2>2. LocalOK'
    <3>1. CASE Return(p, "x_scan") /\ Answer(p, "Car doesn't exist")
      BY <1>1, <3>1, AnswerType, ReturnType DEF ExitScan, rest
    <3>2. CASE Go(p, "x_scan", "x_find") /\ UNCHANGED locals
      BY <1>1, <3>2, GoType, SameLocals DEF ExitScan, rest
    <3> QED
      BY <1>1, <3>1, <3>2 DEF ExitScan
  <2> QED
    BY <2>1, <2>2
<1>2. CASE ExitFind(p)
  <2>1. SharedOK'
    BY <1>2, SameShared DEF ExitFind
  <2>2. LocalOK'
    BY <1>2, PastSame DEF ExitFind, LocalOK, Go, rest, scratch
  <2> QED
    BY <2>1, <2>2
<1>3. CASE ExitPaid(p)
  <2>1. SharedOK'
    BY <1>3, SameShared DEF ExitPaid
  <2>2. LocalOK'
    <3>1. CASE Return(p, "x_paid") /\ Answer(p, "Exit Failed, Please pay")
      BY <1>3, <3>1, AnswerType, ReturnType DEF ExitPaid, rest
    <3>2. CASE Go(p, "x_paid", "x_grace") /\ UNCHANGED locals
      BY <1>3, <3>2, GoType, SameLocals DEF ExitPaid, rest
    <3>3. CASE Die(p, "x_paid")
      BY <1>3, <3>3, DieType DEF ExitPaid, rest
    <3> QED
      BY <1>3, <3>1, <3>2, <3>3 DEF ExitPaid
  <2> QED
    BY <2>1, <2>2
<1>4. CASE ExitGrace(p)
  <2>1. SharedOK'
    BY <1>4, SameShared DEF ExitGrace
  <2>2. LocalOK'
    BY <1>4, GoType, SameLocals DEF ExitGrace, rest
  <2> QED
    BY <2>1, <2>2
<1>5. CASE ExitLateP(p)
  <2>1. SharedOK'
    BY <1>5, PType, SemsShared DEF ExitLateP, P, SharedOK
  <2>2. LocalOK'
    BY <1>5, GoType, SameLocals DEF ExitLateP, rest
  <2> QED
    BY <2>1, <2>2
<1>6. CASE ExitLateEntry(p)
  <2>1. SharedOK'
    <3>1. entry_t' \in [Slots -> Past]
      BY <1>6 DEF ExitLateEntry, SharedOK
    <3> QED
      BY <1>6, <3>1, PastSame DEF ExitLateEntry, SharedOK, spaces, money,
         sems, rest, lost
  <2>2. LocalOK'
    BY <1>6, GoType, SameLocals DEF ExitLateEntry, rest
  <2> QED
    BY <2>1, <2>2
<1>7. CASE ExitLatePay(p)
  <2>1. SharedOK'
    <3>1. pay_t' \in [Slots -> Past]
      BY <1>7, Constants DEF ExitLatePay, SharedOK
    <3> QED
      BY <1>7, <3>1, PastSame DEF ExitLatePay, SharedOK, spaces, money,
         sems, rest, lost
  <2>2. LocalOK'
    BY <1>7, GoType, SameLocals DEF ExitLatePay, rest
  <2> QED
    BY <2>1, <2>2
<1>8. CASE ExitLateV(p)
  <2>1. SharedOK'
    <3>1. sem_mutex' \in Nat /\ sem_counting' \in Nat
      <4>1. V(sem_mutex) /\ UNCHANGED sem_counting
        BY <1>8 DEF ExitLateV
      <4> QED
        BY <4>1 DEF V, SharedOK
    <3> QED
      BY <1>8, <3>1, SemsShared DEF ExitLateV
  <2>2. LocalOK'
    BY <1>8, AnswerType, ReturnType DEF ExitLateV, rest, LocalOK
  <2> QED
    BY <2>1, <2>2
<1>9. CASE ExitP(p)
  <2>1. SharedOK'
    BY <1>9, PType, SemsShared DEF ExitP, P, SharedOK
  <2>2. LocalOK'
    BY <1>9, GoType, SameLocals DEF ExitP, rest
  <2> QED
    BY <2>1, <2>2
<1>10. CASE ExitClear(p)
  <2>1. SharedOK'
    <3>1. /\ licence_plate' \in [Slots -> Plates \cup {NoPlate}]
          /\ entry_t' \in [Slots -> Past]
          /\ pay_t' \in [Slots -> Past]
      BY <1>10, Constants DEF ExitClear, SharedOK
    <3> QED
      BY <1>10, <3>1, PastSame DEF ExitClear, SharedOK, spaces, money, sems,
         rest, lost
  <2>2. LocalOK'
    BY <1>10, GoType, SameLocals DEF ExitClear, rest
  <2> QED
    BY <2>1, <2>2
<1>11. CASE ExitCount(p)
  <2>1. SharedOK'
    <3>1. space_left' \in [{0, 1} -> Int]
      BY <1>11 DEF ExitCount, SharedOK
    <3>2. /\ elec' \in [Slots -> {-1, 0, 1}]
          /\ mutexLost' \in BOOLEAN
      BY <1>11 DEF ExitCount, SharedOK
    <3> QED
      BY <1>11, <3>1, <3>2, PastSame DEF ExitCount, SharedOK, money, sems
  <2>2. LocalOK'
    <3>1. CASE Go(p, "x_count", "x_free") /\ UNCHANGED locals
      BY <1>11, <3>1, GoType, SameLocals DEF ExitCount
    <3>2. CASE Die(p, "x_count")
      BY <1>11, <3>2, DieType DEF ExitCount
    <3> QED
      BY <1>11, <3>1, <3>2 DEF ExitCount
  <2> QED
    BY <2>1, <2>2
<1>12. CASE ExitFree(p)
  <2>1. SharedOK'
    BY <1>12, PastSame DEF ExitFree, SharedOK, LocalOK, store, table, spaces, money, sems, rest, lost
  <2>2. LocalOK'
    BY <1>12, GoType, SameLocals DEF ExitFree, rest
  <2> QED
    BY <2>1, <2>2
<1>13. CASE ExitV(p)
  <2>1. SharedOK'
    BY <1>13, SemsShared DEF ExitV, V, SharedOK
  <2>2. LocalOK'
    BY <1>13, GoType, SameLocals DEF ExitV, rest
  <2> QED
    BY <2>1, <2>2
<1>14. CASE ExitReply(p)
  <2>1. SharedOK'
    BY <1>14, SameShared DEF ExitReply
  <2>2. LocalOK'
    BY <1>14, GoType, AnswerType, PastSame DEF ExitReply, LocalOK, rest, scratch
  <2> QED
    BY <2>1, <2>2
<1>15. CASE ExitLed(p)
  <2>1. SharedOK'
    BY <1>15, PastSame DEF ExitLed, SharedOK, LocalOK, store, table, spaces, money, sems, rest, lost
  <2>2. LocalOK'
    BY <1>15, ReturnType DEF ExitLed, LocalOK
  <2> QED
    BY <2>1, <2>2
<1> QED
  BY <1>1, <1>2, <1>3, <1>4, <1>5, <1>6, <1>7, <1>8, <1>9, <1>10, <1>11, <1>12, <1>13, <1>14, <1>15
  DEF ExitStep

\* The steps of payment() preserve types; the fee is a number because the
\* child has found a slot.
LEMMA PayType ==
  ASSUME TypeOK, PosInRange, NEW p \in Procs, PayServerStep(p)
  PROVE  TypeOK'
<1> USE DEF TypeOK, Labels, PayLabels, Replies
<1>1. CASE PayP(p)
  <2>1. SharedOK'
    BY <1>1, PType, SemsShared DEF PayP, P, SharedOK
  <2>2. LocalOK'
    BY <1>1, GoType, SameLocals DEF PayP, rest
  <2> QED
    BY <2>1, <2>2
<1>2. CASE PayScan(p)
  <2>1. SharedOK'
    BY <1>2, SameShared DEF PayScan
  <2>2. LocalOK'
    <3>1. reply' \in [Procs -> Replies]
      BY <1>2, AnswerType DEF PayScan, LocalOK
    <3>2. pc' \in [Procs -> Labels] /\ pos' \in [Procs -> Slots \cup {-1}]
      <4>1. pc' \in [Procs -> Labels]
        BY <1>2 DEF PayScan, LocalOK, Go
      <4>2. pos' \in [Procs -> Slots \cup {-1}]
        BY <1>2 DEF PayScan, LocalOK
      <4> QED
        BY <4>1, <4>2
    <3> QED
      BY <1>2, <3>1, <3>2, PastSame DEF PayScan, LocalOK, rest, scratch
  <2> QED
    BY <2>1, <2>2
<1>3. CASE PayQuote(p)
  <2>1. SharedOK'
    <3>1. pay_t' \in [Slots -> Past]
      BY <1>3, Constants DEF PayQuote, SharedOK
    <3> QED
      BY <1>3, <3>1, PastSame DEF PayQuote, SharedOK, spaces, money, sems,
         rest, lost
  <2>2. LocalOK'
    <3>1. t' \in [Procs -> Past]
      BY <1>3, Constants DEF PayQuote, SharedOK, LocalOK
    <3>2. fee' \in [Procs -> Nat]
      BY <1>3, FeeIsNat DEF PayQuote, LocalOK, Go, PosInRange, FoundLabels
    <3> QED
      BY <1>3, <3>1, <3>2, GoType, PastSame DEF PayQuote, LocalOK, rest
  <2> QED
    BY <2>1, <2>2
<1>4. CASE PayStampP(p)
  <2>1. SharedOK'
    BY <1>4, PType, SemsShared DEF PayStampP, P, SharedOK
  <2>2. LocalOK'
    BY <1>4, GoType, SameLocals DEF PayStampP, rest
  <2> QED
    BY <2>1, <2>2
<1>5. CASE PayStamp(p)
  <2>1. SharedOK'
    <3>1. pay_t' \in [Slots -> Past]
      BY <1>5 DEF PayStamp, SharedOK, LocalOK
    <3> QED
      BY <1>5, <3>1, PastSame DEF PayStamp, SharedOK, spaces, money, sems,
         rest, lost
  <2>2. LocalOK'
    BY <1>5, GoType, SameLocals DEF PayStamp, rest
  <2> QED
    BY <2>1, <2>2
<1>6. CASE PayStampV(p)
  <2>1. SharedOK'
    BY <1>6, SemsShared DEF PayStampV, V, SharedOK
  <2>2. LocalOK'
    BY <1>6, GoType, SameLocals DEF PayStampV, rest
  <2> QED
    BY <2>1, <2>2
<1>7. CASE PayCashP(p)
  <2>1. SharedOK'
    BY <1>7, PType, SemsShared DEF PayCashP, P, SharedOK
  <2>2. LocalOK'
    BY <1>7, GoType, SameLocals DEF PayCashP, rest
  <2> QED
    BY <2>1, <2>2
<1>8. CASE PayCashLoad(p)
  <2>1. SharedOK'
    BY <1>8, SameShared DEF PayCashLoad
  <2>2. LocalOK'
    <3>1. reg' \in [Procs -> Money]
      BY <1>8 DEF PayCashLoad, SharedOK, LocalOK
    <3> QED
      BY <1>8, <3>1, GoType, PastSame DEF PayCashLoad, LocalOK, rest
  <2> QED
    BY <2>1, <2>2
<1>9. CASE PayCashStore(p)
  <2>1. SharedOK'
    <3>1. cash' \in Money
      BY <1>9, CashWraps DEF PayCashStore, LocalOK
    <3> QED
      BY <1>9, <3>1, PastSame DEF PayCashStore, SharedOK, table, spaces, sems,
         rest, lost
  <2>2. LocalOK'
    BY <1>9, GoType, SameLocals DEF PayCashStore, rest
  <2> QED
    BY <2>1, <2>2
<1>10. CASE PayCashV(p)
  <2>1. SharedOK'
    <3>1. sem_mutex' \in Nat /\ sem_counting' \in Nat
      <4>1. V(sem_mutex) /\ UNCHANGED sem_counting
        BY <1>10 DEF PayCashV
      <4> QED
        BY <4>1 DEF V, SharedOK
    <3> QED
      BY <1>10, <3>1, SemsShared DEF PayCashV
  <2>2. LocalOK'
    BY <1>10, GoType, AnswerType, PastSame DEF PayCashV, LocalOK, rest, scratch
  <2> QED
    BY <2>1, <2>2
<1>11. CASE PayV(p)
  <2>1. SharedOK'
    BY <1>11, SemsShared DEF PayV, V, SharedOK
  <2>2. LocalOK'
    BY <1>11, ReturnType DEF PayV, LocalOK, rest
  <2> QED
    BY <2>1, <2>2
<1> QED
  BY <1>1, <1>2, <1>3, <1>4, <1>5, <1>6, <1>7, <1>8, <1>9, <1>10, <1>11
  DEF PayServerStep

-----------------------------------------------------------------------------
(* Every step of the server is a tick of the clock or a step of one child. *)

Step(p) == Connect(p) \/ ChildStep(p) \/ Customer(p)

\* Every step of a child, of main() or of a customer preserves types.
LEMMA StepType ==
  ASSUME TypeOK, PosInRange, NEW p \in Procs, Step(p)
  PROVE  TypeOK'
<1>1. CASE Connect(p)
  <2>1. PICK c \in Plates, g \in Gates, l \in {"e_scan", "x_scan", "p_P"} :
          Accept(p, l, g, c)
    BY <1>1, Constants DEF Connect, AcceptEntry, AcceptExit, AcceptPay
  <2>2. SharedOK'
    BY <2>1, SameShared DEF Accept, TypeOK
  <2>3. LocalOK'
    <3>1. pc' \in [Procs -> Labels]
      BY <2>1, GoType DEF Accept, TypeOK, Labels, EntryLabels, ExitLabels,
         PayLabels
    <3> QED
      BY <2>1, <3>1, PastSame DEF Accept, TypeOK, LocalOK, rest
  <2> QED
    BY <2>2, <2>3 DEF TypeOK
<1>2. CASE ChildExit(p)
  <2>1. SharedOK'
    BY <1>2, SameShared DEF ChildExit, TypeOK
  <2>2. LocalOK'
    BY <1>2, GoType, AnswerType, PastSame
    DEF ChildExit, TypeOK, LocalOK, Labels, Replies, rest, scratch
  <2> QED
    BY <2>1, <2>2 DEF TypeOK
<1>3. CASE PayReceive(p)
  <2>1. received' \in Money
    BY <1>3, CashWraps DEF PayReceive, TypeOK, SharedOK, LocalOK
  <2>2. SharedOK'
    BY <1>3, <2>1, PastSame DEF PayReceive, TypeOK, SharedOK, table, spaces,
       sems, rest, lost
  <2>3. LocalOK'
    BY <1>3, GoType, SameLocals DEF PayReceive, TypeOK, Labels, PayLabels, rest
  <2> QED
    BY <2>2, <2>3 DEF TypeOK
<1>4. CASE PayHangup(p)
  <2>1. SharedOK'
    BY <1>4, PastSame DEF PayHangup, TypeOK, SharedOK, store, table, spaces,
       money, sems
  <2>2. LocalOK'
    BY <1>4, DieType DEF PayHangup, TypeOK
  <2> QED
    BY <2>1, <2>2 DEF TypeOK
<1> QED
  BY <1>1, <1>2, <1>3, <1>4, EntryType, ExitType, PayType
  DEF Step, ChildStep, Customer

\* So does the clock: stored times do not move into the future.
LEMMA TickType == TypeOK /\ Tick => TypeOK'
<1> SUFFICES ASSUME TypeOK, Tick PROVE TypeOK'
  OBVIOUS
<1>1. /\ now' \in StartTime .. MaxTime
      /\ Past \subseteq Past'
  BY TimeAssumption DEF Tick, TypeOK, SharedOK, Past
<1>2. SharedOK'
  BY <1>1 DEF Tick, TypeOK, SharedOK, store, table, spaces, money, sems, lost
<1>3. LocalOK'
  BY <1>1 DEF Tick, TypeOK, LocalOK, locals, scratch
<1> QED
  BY <1>2, <1>3 DEF TypeOK

\* A child's step leaves the other children where they are.
Still(q) == /\ pc'[q] = pc[q] /\ pos'[q] = pos[q]
            /\ plate'[q] = plate[q] /\ gate'[q] = gate[q]

\* No step touches the control point or the position of another child.
LEMMA OthersStill ==
  ASSUME TypeOK, NEW p \in Procs, Step(p), NEW q \in Procs, q # p
  PROVE  Still(q)
<1> USE DEF Still, TypeOK, LocalOK, Go, Return, Forget, Die, locals, scratch
<1>1. CASE EntryStep(p)
  <2>1. CASE EntryScan(p)
    BY <2>1 DEF EntryScan
  <2>2. CASE EntryP(p)
    BY <2>2 DEF EntryP
  <2>3. CASE EntryFind(p)
    BY <2>3 DEF EntryFind
  <2>4. CASE EntryFull(p)
    BY <2>4 DEF EntryFull
  <2>5. CASE EntryClaim(p)
    BY <2>5 DEF EntryClaim
  <2>6. CASE EntryPlate(p)
    BY <2>6 DEF EntryPlate
  <2>7. CASE EntryTimes(p)
    BY <2>7 DEF EntryTimes
  <2>8. CASE EntryV(p)
    BY <2>8 DEF EntryV
  <2>9. CASE EntryLed(p)
    BY <2>9 DEF EntryLed
  <2>10. CASE EntryReply(p)
    BY <2>10 DEF EntryReply
  <2> QED
    BY <1>1, <2>1, <2>2, <2>3, <2>4, <2>5, <2>6, <2>7, <2>8, <2>9, <2>10 DEF EntryStep
<1>2. CASE ExitStep(p)
  <2>1. CASE ExitScan(p)
    BY <2>1 DEF ExitScan
  <2>2. CASE ExitFind(p)
    BY <2>2 DEF ExitFind
  <2>3. CASE ExitPaid(p)
    BY <2>3 DEF ExitPaid
  <2>4. CASE ExitGrace(p)
    BY <2>4 DEF ExitGrace
  <2>5. CASE ExitLateP(p)
    BY <2>5 DEF ExitLateP
  <2>6. CASE ExitLateEntry(p)
    BY <2>6 DEF ExitLateEntry
  <2>7. CASE ExitLatePay(p)
    BY <2>7 DEF ExitLatePay
  <2>8. CASE ExitLateV(p)
    BY <2>8 DEF ExitLateV
  <2>9. CASE ExitP(p)
    BY <2>9 DEF ExitP
  <2>10. CASE ExitClear(p)
    BY <2>10 DEF ExitClear
  <2>11. CASE ExitCount(p)
    BY <2>11 DEF ExitCount
  <2>12. CASE ExitFree(p)
    BY <2>12 DEF ExitFree
  <2>13. CASE ExitV(p)
    BY <2>13 DEF ExitV
  <2>14. CASE ExitReply(p)
    BY <2>14 DEF ExitReply
  <2>15. CASE ExitLed(p)
    BY <2>15 DEF ExitLed
  <2> QED
    BY <1>2, <2>1, <2>2, <2>3, <2>4, <2>5, <2>6, <2>7, <2>8, <2>9, <2>10, <2>11, <2>12, <2>13, <2>14, <2>15 DEF ExitStep
<1>3. CASE PayServerStep(p)
  <2>1. CASE PayP(p)
    BY <2>1 DEF PayP
  <2>2. CASE PayScan(p)
    BY <2>2 DEF PayScan
  <2>3. CASE PayQuote(p)
    BY <2>3 DEF PayQuote
  <2>4. CASE PayStampP(p)
    BY <2>4 DEF PayStampP
  <2>5. CASE PayStamp(p)
    BY <2>5 DEF PayStamp
  <2>6. CASE PayStampV(p)
    BY <2>6 DEF PayStampV
  <2>7. CASE PayCashP(p)
    BY <2>7 DEF PayCashP
  <2>8. CASE PayCashLoad(p)
    BY <2>8 DEF PayCashLoad
  <2>9. CASE PayCashStore(p)
    BY <2>9 DEF PayCashStore
  <2>10. CASE PayCashV(p)
    BY <2>10 DEF PayCashV
  <2>11. CASE PayV(p)
    BY <2>11 DEF PayV
  <2> QED
    BY <1>3, <2>1, <2>2, <2>3, <2>4, <2>5, <2>6, <2>7, <2>8, <2>9, <2>10, <2>11 DEF PayServerStep
<1>4. CASE Connect(p)
  BY <1>4 DEF Connect, AcceptEntry, AcceptExit, AcceptPay, Accept
<1>5. CASE ChildExit(p)
  BY <1>5 DEF ChildExit
<1>6. CASE Customer(p)
  BY <1>6 DEF Customer, PayReceive, PayHangup
<1> QED
  BY <1>1, <1>2, <1>3, <1>4, <1>5, <1>6 DEF Step, ChildStep

-----------------------------------------------------------------------------
(* A child that works on a slot has found one.                             *)

PosAt(p) ==
    /\ pc[p] \in ClaimLabels => pos[p] \in SlotsOf(plate[p])
    /\ pc[p] \in FoundLabels => pos[p] \in Slots
    /\ pc[p] \notin {"idle", "done"} => plate[p] \in Plates

\* A child that acts on a slot has the position of one, of the row of its car
\* when it parks.
LEMMA OwnPos ==
  ASSUME TypeOK, PosInRange, NEW p \in Procs, Step(p)
  PROVE  PosAt(p)'
<1> USE DEF TypeOK, LocalOK, PosAt, ClaimLabels, FoundLabels, Go, Return, Forget,
    Die, locals, scratch
<1>0. PosAt(p)
  BY DEF PosInRange
<1>1. CASE EntryStep(p)
  <2>1. CASE EntryScan(p)
    BY <2>1, <1>0 DEF EntryScan
  <2>2. CASE EntryP(p)
    BY <2>2, <1>0 DEF EntryP
  <2>3. CASE EntryFind(p)
    BY <2>3, <1>0 DEF EntryFind, Nearest, Free
  <2>4. CASE EntryFull(p)
    BY <2>4, <1>0 DEF EntryFull
  <2>5. CASE EntryClaim(p)
    BY <2>5, <1>0 DEF EntryClaim
  <2>6. CASE EntryPlate(p)
    BY <2>6, <1>0 DEF EntryPlate
  <2>7. CASE EntryTimes(p)
    BY <2>7, <1>0 DEF EntryTimes
  <2>8. CASE EntryV(p)
    BY <2>8, <1>0 DEF EntryV
  <2>9. CASE EntryLed(p)
    BY <2>9, <1>0 DEF EntryLed
  <2>10. CASE EntryReply(p)
    BY <2>10, <1>0 DEF EntryReply
  <2> QED
    BY <1>1, <2>1, <2>2, <2>3, <2>4, <2>5, <2>6, <2>7, <2>8, <2>9, <2>10 DEF EntryStep
<1>2. CASE ExitStep(p)
  <2>1. CASE ExitScan(p)
    BY <2>1, <1>0 DEF ExitScan
  <2>2. CASE ExitFind(p)
    BY <2>2, <1>0 DEF ExitFind
  <2>3. CASE ExitPaid(p)
    BY <2>3, <1>0 DEF ExitPaid
  <2>4. CASE ExitGrace(p)
    BY <2>4, <1>0 DEF ExitGrace
  <2>5. CASE ExitLateP(p)
    BY <2>5, <1>0 DEF ExitLateP
  <2>6. CASE ExitLateEntry(p)
    BY <2>6, <1>0 DEF ExitLateEntry
  <2>7. CASE ExitLatePay(p)
    BY <2>7, <1>0 DEF ExitLatePay
  <2>8. CASE ExitLateV(p)
    BY <2>8, <1>0 DEF ExitLateV
  <2>9. CASE ExitP(p)
    BY <2>9, <1>0 DEF ExitP
  <2>10. CASE ExitClear(p)
    BY <2>10, <1>0 DEF ExitClear
  <2>11. CASE ExitCount(p)
    BY <2>11, <1>0 DEF ExitCount
  <2>12. CASE ExitFree(p)
    BY <2>12, <1>0 DEF ExitFree
  <2>13. CASE ExitV(p)
    BY <2>13, <1>0 DEF ExitV
  <2>14. CASE ExitReply(p)
    BY <2>14, <1>0 DEF ExitReply
  <2>15. CASE ExitLed(p)
    BY <2>15, <1>0 DEF ExitLed
  <2> QED
    BY <1>2, <2>1, <2>2, <2>3, <2>4, <2>5, <2>6, <2>7, <2>8, <2>9, <2>10, <2>11, <2>12, <2>13, <2>14, <2>15 DEF ExitStep
<1>3. CASE PayServerStep(p)
  <2>1. CASE PayP(p)
    BY <2>1, <1>0 DEF PayP
  <2>2. CASE PayScan(p)
    BY <2>2, <1>0 DEF PayScan
  <2>3. CASE PayQuote(p)
    BY <2>3, <1>0 DEF PayQuote
  <2>4. CASE PayStampP(p)
    BY <2>4, <1>0 DEF PayStampP
  <2>5. CASE PayStamp(p)
    BY <2>5, <1>0 DEF PayStamp
  <2>6. CASE PayStampV(p)
    BY <2>6, <1>0 DEF PayStampV
  <2>7. CASE PayCashP(p)
    BY <2>7, <1>0 DEF PayCashP
  <2>8. CASE PayCashLoad(p)
    BY <2>8, <1>0 DEF PayCashLoad
  <2>9. CASE PayCashStore(p)
    BY <2>9, <1>0 DEF PayCashStore
  <2>10. CASE PayCashV(p)
    BY <2>10, <1>0 DEF PayCashV
  <2>11. CASE PayV(p)
    BY <2>11, <1>0 DEF PayV
  <2> QED
    BY <1>3, <2>1, <2>2, <2>3, <2>4, <2>5, <2>6, <2>7, <2>8, <2>9, <2>10, <2>11 DEF PayServerStep
<1>4. CASE Connect(p)
  BY <1>4 DEF Connect, AcceptEntry, AcceptExit, AcceptPay, Accept
<1>5. CASE ChildExit(p)
  BY <1>5 DEF ChildExit
<1>6. CASE Customer(p)
  BY <1>6, <1>0 DEF Customer, PayReceive, PayHangup
<1> QED
  BY <1>1, <1>2, <1>3, <1>4, <1>5, <1>6 DEF Step, ChildStep

\* The same for all children: PosInRange is preserved.
LEMMA StepPos ==
  ASSUME TypeOK, PosInRange, NEW p \in Procs, Step(p)
  PROVE  PosInRange'
<1> SUFFICES ASSUME NEW q \in Procs PROVE PosAt(q)'
  BY DEF PosInRange, PosAt
<1>1. CASE q = p
  BY <1>1, OwnPos
<1>2. CASE q # p
  BY <1>2, OthersStill DEF Still, PosInRange, PosAt, SlotsOf, IsElec, Slots
<1> QED
  BY <1>1, <1>2

-----------------------------------------------------------------------------
(* Mutual exclusion.  With respect to sem_mutex a step stays on its side   *)
(* of it, enters, leaves, or dies inside.                                  *)

Within(l) == l \in MutexLabels

\* A step that neither enters nor leaves the critical section.
LEMMA MutexStay ==
  ASSUME TypeOK, MutexOwned, NEW p \in Procs,
         \A q \in Procs \ {p} : pc'[q] = pc[q],
         Within(pc'[p]) <=> Within(pc[p]),
         UNCHANGED <<sem_mutex, mutexLost>>
  PROVE  MutexOwned'
<1>1. InMutex' = InMutex
  BY DEF InMutex, Within
<1> QED
  BY <1>1 DEF MutexOwned

\* P(sem_mutex) lets a child in only when nobody is inside or has died there.
LEMMA MutexEnter ==
  ASSUME TypeOK, MutexOwned, NEW p \in Procs,
         \A q \in Procs \ {p} : pc'[q] = pc[q],
         ~Within(pc[p]), Within(pc'[p]),
         P(sem_mutex), UNCHANGED mutexLost
  PROVE  MutexOwned'
<1>1. sem_mutex = 1 /\ sem_mutex' = 0
  BY DEF P, MutexOwned
<1>2. InMutex = {} /\ ~mutexLost
  BY <1>1 DEF MutexOwned
<1>3. InMutex' = {p}
  BY <1>2 DEF InMutex, Within
<1> QED
  BY <1>1, <1>2, <1>3 DEF MutexOwned

\* V(sem_mutex) by the owner leaves the critical section empty.
LEMMA MutexLeave ==
  ASSUME TypeOK, MutexOwned, NEW p \in Procs,
         \A q \in Procs \ {p} : pc'[q] = pc[q],
         Within(pc[p]), ~Within(pc'[p]),
         V(sem_mutex), UNCHANGED mutexLost
  PROVE  MutexOwned'
<1>1. InMutex = {p}
  BY DEF InMutex, Within, MutexOwned
<1>2. sem_mutex = 0 /\ ~mutexLost
  BY <1>1 DEF MutexOwned
<1>3. InMutex' = {}
  BY <1>1 DEF InMutex, Within
<1> QED
  BY <1>2, <1>3 DEF MutexOwned, V

\* A child that dies inside takes the semaphore with it.
LEMMA MutexDie ==
  ASSUME TypeOK, MutexOwned, NEW p \in Procs,
         \A q \in Procs \ {p} : pc'[q] = pc[q],
         Within(pc[p]), ~Within(pc'[p]),
         UNCHANGED sem_mutex, mutexLost'
  PROVE  MutexOwned'
<1>1. InMutex = {p}
  BY DEF InMutex, Within, MutexOwned
<1>2. sem_mutex = 0
  BY <1>1 DEF MutexOwned
<1>3. InMutex' = {}
  BY <1>1 DEF InMutex, Within
<1> QED
  BY <1>2, <1>3 DEF MutexOwned

\* Every step preserves MutexOwned.
LEMMA StepMutex ==
  ASSUME TypeOK, MutexOwned, NEW p \in Procs, Step(p)
  PROVE  MutexOwned'
<1> USE DEF Go, Return, Die, Within, MutexLabels, sems, rest, lost
<1>0. /\ \A q \in Procs \ {p} : pc'[q] = pc[q]
      /\ pc \in [Procs -> Labels]
  BY OthersStill DEF Still, TypeOK, LocalOK
<1>1. CASE EntryStep(p)
  <2>1. CASE EntryScan(p)
    BY <2>1, <1>0, MutexStay DEF EntryScan
  <2>2. CASE EntryP(p)
    BY <2>2, <1>0, MutexEnter DEF EntryP
  <2>3. CASE EntryFind(p)
    BY <2>3, <1>0, MutexStay DEF EntryFind
  <2>4. CASE EntryFull(p)
    BY <2>4, <1>0, MutexLeave DEF EntryFull
  <2>5. CASE EntryClaim(p)
    BY <2>5, <1>0, MutexStay DEF EntryClaim
  <2>6. CASE EntryPlate(p)
    BY <2>6, <1>0, MutexStay DEF EntryPlate
  <2>7. CASE EntryTimes(p)
    BY <2>7, <1>0, MutexStay DEF EntryTimes
  <2>8. CASE EntryV(p)
    BY <2>8, <1>0, MutexLeave DEF EntryV
  <2>9. CASE EntryLed(p)
    BY <2>9, <1>0, MutexStay DEF EntryLed
  <2>10. CASE EntryReply(p)
    BY <2>10, <1>0, MutexStay DEF EntryReply
  <2> QED
    BY <1>1, <2>1, <2>2, <2>3, <2>4, <2>5, <2>6, <2>7, <2>8, <2>9, <2>10 DEF EntryStep
<1>2. CASE ExitStep(p)
  <2>1. CASE ExitScan(p)
    BY <2>1, <1>0, MutexStay DEF ExitScan
  <2>2. CASE ExitFind(p)
    BY <2>2, <1>0, MutexStay DEF ExitFind
  <2>3. CASE ExitPaid(p)
    BY <2>3, <1>0, MutexStay DEF ExitPaid
  <2>4. CASE ExitGrace(p)
    BY <2>4, <1>0, MutexStay DEF ExitGrace
  <2>5. CASE ExitLateP(p)
    BY <2>5, <1>0, MutexEnter DEF ExitLateP
  <2>6. CASE ExitLateEntry(p)
    BY <2>6, <1>0, MutexStay DEF ExitLateEntry
  <2>7. CASE ExitLatePay(p)
    BY <2>7, <1>0, MutexStay DEF ExitLatePay
  <2>8. CASE ExitLateV(p)
    BY <2>8, <1>0, MutexLeave DEF ExitLateV
  <2>9. CASE ExitP(p)
    BY <2>9, <1>0, MutexEnter DEF ExitP
  <2>10. CASE ExitClear(p)
    BY <2>10, <1>0, MutexStay DEF ExitClear
  <2>11. CASE ExitCount(p)
    <3>1. CASE Go(p, "x_count", "x_free") /\ UNCHANGED mutexLost
      BY <2>11, <1>0, <3>1, MutexStay DEF ExitCount
    <3>2. CASE Die(p, "x_count") /\ mutexLost' = TRUE
      BY <2>11, <1>0, <3>2, MutexDie DEF ExitCount
    <3> QED
      BY <2>11, <3>1, <3>2 DEF ExitCount
  <2>12. CASE ExitFree(p)
    BY <2>12, <1>0, MutexStay DEF ExitFree
  <2>13. CASE ExitV(p)
    BY <2>13, <1>0, MutexLeave DEF ExitV
  <2>14. CASE ExitReply(p)
    BY <2>14, <1>0, MutexStay DEF ExitReply
  <2>15. CASE ExitLed(p)
    BY <2>15, <1>0, MutexStay DEF ExitLed
  <2> QED
    BY <1>2, <2>1, <2>2, <2>3, <2>4, <2>5, <2>6, <2>7, <2>8, <2>9, <2>10, <2>11, <2>12, <2>13, <2>14, <2>15 DEF ExitStep
<1>3. CASE PayServerStep(p)
  <2>1. CASE PayP(p)
    BY <2>1, <1>0, MutexStay DEF PayP
  <2>2. CASE PayScan(p)
    BY <2>2, <1>0, MutexStay DEF PayScan
  <2>3. CASE PayQuote(p)
    BY <2>3, <1>0, MutexStay DEF PayQuote
  <2>4. CASE PayStampP(p)
    BY <2>4, <1>0, MutexEnter DEF PayStampP
  <2>5. CASE PayStamp(p)
    BY <2>5, <1>0, MutexStay DEF PayStamp
  <2>6. CASE PayStampV(p)
    BY <2>6, <1>0, MutexLeave DEF PayStampV
  <2>7. CASE PayCashP(p)
    BY <2>7, <1>0, MutexEnter DEF PayCashP
  <2>8. CASE PayCashLoad(p)
    BY <2>8, <1>0, MutexStay DEF PayCashLoad
  <2>9. CASE PayCashStore(p)
    BY <2>9, <1>0, MutexStay DEF PayCashStore
  <2>10. CASE PayCashV(p)
    BY <2>10, <1>0, MutexLeave DEF PayCashV
  <2>11. CASE PayV(p)
    BY <2>11, <1>0, MutexStay DEF PayV
  <2> QED
    BY <1>3, <2>1, <2>2, <2>3, <2>4, <2>5, <2>6, <2>7, <2>8, <2>9, <2>10, <2>11 DEF PayServerStep
<1>4. CASE Connect(p)
  BY <1>4, <1>0, MutexStay
  DEF Connect, AcceptEntry, AcceptExit, AcceptPay, Accept
<1>5. CASE ChildExit(p)
  BY <1>5, <1>0, MutexStay DEF ChildExit
<1>6. CASE PayReceive(p)
  BY <1>6, <1>0, MutexStay DEF PayReceive
<1>7. CASE PayHangup(p)
  BY <1>7, <1>0, MutexStay DEF PayHangup
<1> QED
  BY <1>1, <1>2, <1>3, <1>4, <1>5, <1>6, <1>7 DEF Step, ChildStep, Customer

-----------------------------------------------------------------------------
(* The two tables.  Only the owner of sem_mutex writes them, and it is the *)
(* only child for which TablesAgree makes an exception.                    *)

Working == {"e_claim", "e_plate", "x_count", "x_free"}

\* The row of a car is a set of slots.
LEMMA SlotsOfSlots == ASSUME NEW c PROVE SlotsOf(c) \subseteq Slots
  BY SizeAssumption DEF SlotsOf, Slots, NumSpaces

\* A step that writes neither table, by a child that is not at work on a slot.
LEMMA TablesStay ==
  ASSUME TypeOK, TablesAgree, NEW p \in Procs,
         \A q \in Procs \ {p} : Still(q),
         pc[p] \notin Working, pc'[p] \notin Working,
         UNCHANGED <<licence_plate, park_space, mutexLost>>
  PROVE  TablesAgree'
<1>1. \A c : Free(c)' = Free(c)
  BY DEF Free
<1> QED
  BY <1>1 DEF TablesAgree, AtWork, Working, Still

\* Every step preserves TablesAgree.
LEMMA StepTables ==
  ASSUME IInv, NEW p \in Procs, Step(p)
  PROVE  TablesAgree'
<1> USE DEF Go, Return, Die, Working, sems, rest, lost, store, table, spaces
<1>0. /\ \A q \in Procs \ {p} : Still(q)
      /\ pc \in [Procs -> Labels]
      /\ TypeOK /\ TablesAgree
  BY OthersStill DEF IInv, TypeOK, LocalOK
<1>a. ASSUME pc[p] \in MutexLabels
      PROVE  /\ \A q \in Procs \ {p} : pc[q] \notin MutexLabels
             /\ ~mutexLost
  BY <1>a DEF IInv, MutexOwned, InMutex
<1>1. CASE EntryStep(p)
  <2>1. CASE EntryScan(p)
    BY <2>1, <1>0, TablesStay DEF EntryScan
  <2>2. CASE EntryP(p)
    BY <2>2, <1>0, TablesStay DEF EntryP
  <2>3. CASE EntryFind(p)
    <3>1. CASE Go(p, "e_find", "e_full")
      BY <2>3, <3>1, <1>0, TablesStay DEF EntryFind
    <3>2. CASE Go(p, "e_find", "e_claim")
      <4>1. /\ pc[p] = "e_find" /\ pc'[p] = "e_claim"
            /\ Nearest(pos'[p], Free(plate[p]), gate[p])
            /\ UNCHANGED <<licence_plate, park_space, mutexLost>>
            /\ UNCHANGED <<plate, gate>>
        BY <2>3, <3>2, <1>0 DEF EntryFind, TypeOK, LocalOK, scratch
      <4>2. \A c : Free(c)' = Free(c)
        BY <4>1 DEF Free
      <4> QED
        BY <4>1, <4>2, <1>0 DEF TablesAgree, AtWork, Still
    <3> QED
      BY <2>3, <3>1, <3>2 DEF EntryFind
  <2>4. CASE EntryFull(p)
    BY <2>4, <1>0, TablesStay DEF EntryFull
  <2>5. CASE EntryClaim(p)
    <3>1. /\ \A q \in Procs \ {p} : Still(q) /\ pc[q] \notin Working
          /\ pc[p] \in MutexLabels /\ ~mutexLost
      BY <2>5, <1>0, <1>a DEF EntryClaim, MutexLabels
    <3>2. pos[p] \in Slots
      BY <2>5, SlotsOfSlots DEF EntryClaim, IInv, PosInRange, ClaimLabels, FoundLabels
    <3>3. /\ pc[p] = "e_claim" /\ pc'[p] = "e_plate" /\ pos'[p] = pos[p]
          /\ park_space' = [park_space EXCEPT ![pos[p]] = 1]
          /\ UNCHANGED <<licence_plate, mutexLost>>
      BY <2>5, <1>0 DEF EntryClaim, locals
    <3>4. licence_plate[pos[p]] = NoPlate
      BY <3>2, <3>3, <1>0 DEF TablesAgree, Nearest, Free
    <3> QED
      BY <3>1, <3>2, <3>3, <3>4, <1>0 DEF TablesAgree, AtWork, Still, TypeOK, SharedOK
  <2>6. CASE EntryPlate(p)
    <3>1. /\ \A q \in Procs \ {p} : Still(q) /\ pc[q] \notin Working
          /\ pc[p] \in MutexLabels /\ ~mutexLost
      BY <2>6, <1>0, <1>a DEF EntryPlate, MutexLabels
    <3>2. pos[p] \in Slots
      BY <2>6, SlotsOfSlots DEF EntryPlate, IInv, PosInRange, ClaimLabels, FoundLabels
    <3>3. /\ pc[p] = "e_plate" /\ pc'[p] = "e_times" /\ pos'[p] = pos[p]
          /\ licence_plate' = [licence_plate EXCEPT ![pos[p]] = plate[p]]
          /\ UNCHANGED <<park_space, mutexLost>>
      BY <2>6, <1>0 DEF EntryPlate, locals
    <3>4. plate[p] # NoPlate
      BY <3>3, PlatesAssumption DEF IInv, PosInRange
    <3> QED
      BY <3>1, <3>2, <3>3, <3>4, <1>0 DEF TablesAgree, AtWork, Still, TypeOK, SharedOK
  <2>7. CASE EntryTimes(p)
    BY <2>7, <1>0, TablesStay DEF EntryTimes
  <2>8. CASE EntryV(p)
    BY <2>8, <1>0, TablesStay DEF EntryV
  <2>9. CASE EntryLed(p)
    BY <2>9, <1>0, TablesStay DEF EntryLed
  <2>10. CASE EntryReply(p)
    BY <2>10, <1>0, TablesStay DEF EntryReply
  <2> QED
    BY <1>1, <2>1, <2>2, <2>3, <2>4, <2>5, <2>6, <2>7, <2>8, <2>9, <2>10 DEF EntryStep
<1>2. CASE ExitStep(p)
  <2>1. CASE ExitScan(p)
    BY <2>1, <1>0, TablesStay DEF ExitScan
  <2>2. CASE ExitFind(p)
    BY <2>2, <1>0, TablesStay DEF ExitFind
  <2>3. CASE ExitPaid(p)
    BY <2>3, <1>0, TablesStay DEF ExitPaid
  <2>4. CASE ExitGrace(p)
    BY <2>4, <1>0, TablesStay DEF ExitGrace
  <2>5. CASE ExitLateP(p)
    BY <2>5, <1>0, TablesStay DEF ExitLateP
  <2>6. CASE ExitLateEntry(p)
    BY <2>6, <1>0, TablesStay DEF ExitLateEntry
  <2>7. CASE ExitLatePay(p)
    BY <2>7, <1>0, TablesStay DEF ExitLatePay
  <2>8. CASE ExitLateV(p)
    BY <2>8, <1>0, TablesStay DEF ExitLateV
  <2>9. CASE ExitP(p)
    BY <2>9, <1>0, TablesStay DEF ExitP
  <2>10. CASE ExitClear(p)
    <3>1. /\ \A q \in Procs \ {p} : Still(q) /\ pc[q] \notin Working
          /\ pc[p] \in MutexLabels /\ ~mutexLost
      BY <2>10, <1>0, <1>a DEF ExitClear, MutexLabels
    <3>2. pos[p] \in Slots
      BY <2>10, SlotsOfSlots DEF ExitClear, IInv, PosInRange, ClaimLabels, FoundLabels
    <3>3. /\ pc[p] = "x_clear" /\ pc'[p] = "x_count" /\ pos'[p] = pos[p]
          /\ licence_plate' = [licence_plate EXCEPT ![pos[p]] = NoPlate]
          /\ UNCHANGED <<park_space, mutexLost>>
      BY <2>10, <1>0 DEF ExitClear, locals
    <3> QED
      BY <3>1, <3>2, <3>3, <1>0 DEF TablesAgree, AtWork, Still, TypeOK, SharedOK
  <2>11. CASE ExitCount(p)
    <3>1. /\ \A q \in Procs \ {p} : Still(q) /\ pc[q] \notin Working
          /\ pc[p] \in MutexLabels /\ ~mutexLost
      BY <2>11, <1>0, <1>a DEF ExitCount, MutexLabels
    <3>2. pos[p] \in Slots
      BY <2>11, SlotsOfSlots DEF ExitCount, IInv, PosInRange, ClaimLabels, FoundLabels
    <3>3. /\ pc[p] = "x_count"
          /\ UNCHANGED <<park_space, licence_plate>>
          /\ \/ pc'[p] = "x_free" /\ pos'[p] = pos[p] /\ UNCHANGED mutexLost
             \/ pc'[p] = "idle" /\ mutexLost' = TRUE
      BY <2>11, <1>0 DEF ExitCount, locals
    <3> QED
      BY <3>1, <3>2, <3>3, <1>0 DEF TablesAgree, AtWork, Still, TypeOK, SharedOK
  <2>12. CASE ExitFree(p)
    <3>1. /\ \A q \in Procs \ {p} : Still(q) /\ pc[q] \notin Working
          /\ pc[p] \in MutexLabels /\ ~mutexLost
      BY <2>12, <1>0, <1>a DEF ExitFree, MutexLabels
    <3>2. pos[p] \in Slots
      BY <2>12, SlotsOfSlots DEF ExitFree, IInv, PosInRange, ClaimLabels, FoundLabels
    <3>3. /\ pc[p] = "x_free" /\ pc'[p] = "x_V" /\ pos'[p] = pos[p]
          /\ park_space' = [park_space EXCEPT ![pos[p]] = 0]
          /\ UNCHANGED <<licence_plate, mutexLost>>
      BY <2>12, <1>0 DEF ExitFree, locals
    <3> QED
      BY <3>1, <3>2, <3>3, <1>0 DEF TablesAgree, AtWork, Still, TypeOK, SharedOK
  <2>13. CASE ExitV(p)
    BY <2>13, <1>0, TablesStay DEF ExitV
  <2>14. CASE ExitReply(p)
    BY <2>14, <1>0, TablesStay DEF ExitReply
  <2>15. CASE ExitLed(p)
    BY <2>15, <1>0, TablesStay DEF ExitLed
  <2> QED
    BY <1>2, <2>1, <2>2, <2>3, <2>4, <2>5, <2>6, <2>7, <2>8, <2>9, <2>10, <2>11, <2>12, <2>13, <2>14, <2>15 DEF ExitStep
<1>3. CASE PayServerStep(p)
  <2>1. CASE PayP(p)
    BY <2>1, <1>0, TablesStay DEF PayP
  <2>2. CASE PayScan(p)
    BY <2>2, <1>0, TablesStay DEF PayScan
  <2>3. CASE PayQuote(p)
    BY <2>3, <1>0, TablesStay DEF PayQuote
  <2>4. CASE PayStampP(p)
    BY <2>4, <1>0, TablesStay DEF PayStampP
  <2>5. CASE PayStamp(p)
    BY <2>5, <1>0, TablesStay DEF PayStamp
  <2>6. CASE PayStampV(p)
    BY <2>6, <1>0, TablesStay DEF PayStampV
  <2>7. CASE PayCashP(p)
    BY <2>7, <1>0, TablesStay DEF PayCashP
  <2>8. CASE PayCashLoad(p)
    BY <2>8, <1>0, TablesStay DEF PayCashLoad
  <2>9. CASE PayCashStore(p)
    BY <2>9, <1>0, TablesStay DEF PayCashStore
  <2>10. CASE PayCashV(p)
    BY <2>10, <1>0, TablesStay DEF PayCashV
  <2>11. CASE PayV(p)
    BY <2>11, <1>0, TablesStay DEF PayV
  <2> QED
    BY <1>3, <2>1, <2>2, <2>3, <2>4, <2>5, <2>6, <2>7, <2>8, <2>9, <2>10, <2>11 DEF PayServerStep
<1>4. CASE Connect(p)
  BY <1>4, <1>0, TablesStay
  DEF Connect, AcceptEntry, AcceptExit, AcceptPay, Accept
<1>5. CASE ChildExit(p)
  BY <1>5, <1>0, TablesStay DEF ChildExit
<1>6. CASE PayReceive(p)
  BY <1>6, <1>0, TablesStay DEF PayReceive
<1>7. CASE PayHangup(p)
  BY <1>7, <1>0, TablesStay DEF PayHangup
<1> QED
  BY <1>1, <1>2, <1>3, <1>4, <1>5, <1>6, <1>7 DEF Step, ChildStep, Customer

-----------------------------------------------------------------------------
(* The pay stations.                                                       *)

AtDesk(l) == l \in PayLabels \ {"p_P"}

\* The children at the pay stations can be counted.
LEMMA StationCard ==
  /\ IsFiniteSet(AtStation)
  /\ Cardinality(AtStation) \in Nat
<1>1. AtStation \in SUBSET Procs
  BY DEF AtStation
<1> QED
  BY <1>1, SizeAssumption, FS_Subset, FS_CardinalityType

\* A step that neither enters nor leaves a pay station.
LEMMA PermitStay ==
  ASSUME PermitsExact, NEW p \in Procs,
         \A q \in Procs \ {p} : pc'[q] = pc[q],
         AtDesk(pc'[p]) <=> AtDesk(pc[p]),
         UNCHANGED <<sem_counting, permitsLost>>
  PROVE  PermitsExact'
<1>1. AtStation' = AtStation
  BY DEF AtStation, AtDesk
<1> QED
  BY <1>1 DEF PermitsExact

\* P(sem_counting) trades a permit for a place at a pay station.
LEMMA PermitEnter ==
  ASSUME PermitsExact, TypeOK, NEW p \in Procs,
         \A q \in Procs \ {p} : pc'[q] = pc[q],
         ~AtDesk(pc[p]), AtDesk(pc'[p]),
         P(sem_counting), UNCHANGED permitsLost
  PROVE  PermitsExact'
<1>1. AtStation' = AtStation \cup {p} /\ p \notin AtStation
  BY DEF AtStation, AtDesk
<1>2. Cardinality(AtStation') = Cardinality(AtStation) + 1
  BY <1>1, StationCard, FS_AddElement
<1> QED
  BY <1>2, StationCard, SizeAssumption DEF PermitsExact, P, TypeOK, SharedOK

\* V(sem_counting) gives it back; dying at the pay station loses it.
LEMMA PermitLeave ==
  ASSUME PermitsExact, TypeOK, NEW p \in Procs,
         \A q \in Procs \ {p} : pc'[q] = pc[q],
         AtDesk(pc[p]), ~AtDesk(pc'[p]),
         \/ V(sem_counting) /\ UNCHANGED permitsLost
         \/ UNCHANGED sem_counting /\ permitsLost' = permitsLost + 1
  PROVE  PermitsExact'
<1>1. AtStation' = AtStation \ {p} /\ p \in AtStation
  BY DEF AtStation, AtDesk
<1>2. Cardinality(AtStation') = Cardinality(AtStation) - 1
  BY <1>1, StationCard, FS_RemoveElement
<1> QED
  BY <1>2, StationCard, SizeAssumption DEF PermitsExact, V, TypeOK, SharedOK

\* Every step preserves PermitsExact.
LEMMA StepPermits ==
  ASSUME IInv, NEW p \in Procs, Step(p)
  PROVE  PermitsExact'
<1> USE DEF Go, Return, Die, AtDesk, PayLabels, sems, rest, lost
<1>0. /\ \A q \in Procs \ {p} : pc'[q] = pc[q]
      /\ pc \in [Procs -> Labels]
      /\ TypeOK /\ PermitsExact
  BY OthersStill DEF Still, IInv, TypeOK, LocalOK
<1>1. CASE EntryStep(p)
  <2>1. CASE EntryScan(p)
    BY <2>1, <1>0, PermitStay DEF EntryScan
  <2>2. CASE EntryP(p)
    BY <2>2, <1>0, PermitStay DEF EntryP
  <2>3. CASE EntryFind(p)
    BY <2>3, <1>0, PermitStay DEF EntryFind
  <2>4. CASE EntryFull(p)
    BY <2>4, <1>0, PermitStay DEF EntryFull
  <2>5. CASE EntryClaim(p)
    BY <2>5, <1>0, PermitStay DEF EntryClaim
  <2>6. CASE EntryPlate(p)
    BY <2>6, <1>0, PermitStay DEF EntryPlate
  <2>7. CASE EntryTimes(p)
    BY <2>7, <1>0, PermitStay DEF EntryTimes
  <2>8. CASE EntryV(p)
    BY <2>8, <1>0, PermitStay DEF EntryV
  <2>9. CASE EntryLed(p)
    BY <2>9, <1>0, PermitStay DEF EntryLed
  <2>10. CASE EntryReply(p)
    BY <2>10, <1>0, PermitStay DEF EntryReply
  <2> QED
    BY <1>1, <2>1, <2>2, <2>3, <2>4, <2>5, <2>6, <2>7, <2>8, <2>9, <2>10 DEF EntryStep
<1>2. CASE ExitStep(p)
  <2>1. CASE ExitScan(p)
    BY <2>1, <1>0, PermitStay DEF ExitScan
  <2>2. CASE ExitFind(p)
    BY <2>2, <1>0, PermitStay DEF ExitFind
  <2>3. CASE ExitPaid(p)
    BY <2>3, <1>0, PermitStay DEF ExitPaid
  <2>4. CASE ExitGrace(p)
    BY <2>4, <1>0, PermitStay DEF ExitGrace
  <2>5. CASE ExitLateP(p)
    BY <2>5, <1>0, PermitStay DEF ExitLateP
  <2>6. CASE ExitLateEntry(p)
    BY <2>6, <1>0, PermitStay DEF ExitLateEntry
  <2>7. CASE ExitLatePay(p)
    BY <2>7, <1>0, PermitStay DEF ExitLatePay
  <2>8. CASE ExitLateV(p)
    BY <2>8, <1>0, PermitStay DEF ExitLateV
  <2>9. CASE ExitP(p)
    BY <2>9, <1>0, PermitStay DEF ExitP
  <2>10. CASE ExitClear(p)
    BY <2>10, <1>0, PermitStay DEF ExitClear
  <2>11. CASE ExitCount(p)
    BY <2>11, <1>0, PermitStay DEF ExitCount
  <2>12. CASE ExitFree(p)
    BY <2>12, <1>0, PermitStay DEF ExitFree
  <2>13. CASE ExitV(p)
    BY <2>13, <1>0, PermitStay DEF ExitV
  <2>14. CASE ExitReply(p)
    BY <2>14, <1>0, PermitStay DEF ExitReply
  <2>15. CASE ExitLed(p)
    BY <2>15, <1>0, PermitStay DEF ExitLed
  <2> QED
    BY <1>2, <2>1, <2>2, <2>3, <2>4, <2>5, <2>6, <2>7, <2>8, <2>9, <2>10, <2>11, <2>12, <2>13, <2>14, <2>15 DEF ExitStep
<1>3. CASE PayServerStep(p)
  <2>1. CASE PayP(p)
    BY <2>1, <1>0, PermitEnter DEF PayP
  <2>2. CASE PayScan(p)
    BY <2>2, <1>0, PermitStay DEF PayScan
  <2>3. CASE PayQuote(p)
    BY <2>3, <1>0, PermitStay DEF PayQuote
  <2>4. CASE PayStampP(p)
    BY <2>4, <1>0, PermitStay DEF PayStampP
  <2>5. CASE PayStamp(p)
    BY <2>5, <1>0, PermitStay DEF PayStamp
  <2>6. CASE PayStampV(p)
    BY <2>6, <1>0, PermitStay DEF PayStampV
  <2>7. CASE PayCashP(p)
    BY <2>7, <1>0, PermitStay DEF PayCashP
  <2>8. CASE PayCashLoad(p)
    BY <2>8, <1>0, PermitStay DEF PayCashLoad
  <2>9. CASE PayCashStore(p)
    BY <2>9, <1>0, PermitStay DEF PayCashStore
  <2>10. CASE PayCashV(p)
    BY <2>10, <1>0, PermitStay DEF PayCashV
  <2>11. CASE PayV(p)
    BY <2>11, <1>0, PermitLeave DEF PayV
  <2> QED
    BY <1>3, <2>1, <2>2, <2>3, <2>4, <2>5, <2>6, <2>7, <2>8, <2>9, <2>10, <2>11 DEF PayServerStep
<1>4. CASE Connect(p)
  BY <1>4, <1>0, PermitStay
  DEF Connect, AcceptEntry, AcceptExit, AcceptPay, Accept
<1>5. CASE ChildExit(p)
  BY <1>5, <1>0, PermitStay DEF ChildExit
<1>6. CASE PayReceive(p)
  BY <1>6, <1>0, PermitStay DEF PayReceive
<1>7. CASE PayHangup(p)
  BY <1>7, <1>0, PermitLeave DEF PayHangup
<1> QED
  BY <1>1, <1>2, <1>3, <1>4, <1>5, <1>6, <1>7 DEF Step, ChildStep, Customer

-----------------------------------------------------------------------------
(* The counters of free slots.                                             *)

\* The exits that act on a slot or are about to.
Leaving == ExitLabels \ {"x_scan", "x_find"}

\* The free slots of a row can be counted.
LEMMA FreeCard ==
  ASSUME NEW k \in {0, 1}
  PROVE  IsFiniteSet(FreeIn(k)) /\ Cardinality(FreeIn(k)) \in Nat
<1>1. IsFiniteSet(RowOf(k))
  BY FS_Interval, SizeAssumption DEF RowOf, NumSpaces
<1>2. FreeIn(k) \in SUBSET RowOf(k)
  BY DEF FreeIn
<1> QED
  BY <1>1, <1>2, FS_Subset, FS_CardinalityType

\* The slots are the two rows.
LEMMA Rows ==
  /\ RowOf(0) \subseteq Slots /\ RowOf(1) \subseteq Slots
  /\ \A i \in Slots : /\ RowClass(i) \in {0, 1}
                      /\ \A k \in {0, 1} : i \in RowOf(k) <=> k = RowClass(i)
  /\ \A c : SlotsOf(c) = RowOf(Class(c)) /\ Class(c) \in {0, 1}
  BY SizeAssumption
  DEF RowOf, RowClass, Slots, NumSpaces, SlotsOf, Class, IsElec

\* FreeIn depends on park_space alone, and only at its own row.
LEMMA FreeNext ==
  ASSUME NEW k \in {0, 1}
  PROVE  /\ FreeIn(k)' = {i \in RowOf(k) : park_space'[i] = 0}
         /\ RowOf(k) \subseteq Slots
<1>1. FreeIn(k)' = {i \in RowOf(k) : park_space'[i] = 0}
  BY DEF FreeIn, RowOf
<1> QED
  BY <1>1, Rows

\* A step that leaves the occupancy, the counters and elec alone, by a child
\* that does not start to act on a slot that is free.
LEMMA SpaceStay ==
  ASSUME TypeOK, SpaceCounted, NEW p \in Procs,
         \A q \in Procs \ {p} : Still(q),
         pc[p] # "x_free", pc'[p] # "x_free",
         pc'[p] \in Leaving /\ pos'[p] # -1
            => \/ pc[p] \in Leaving /\ pos'[p] = pos[p]
               \/ park_space[pos'[p]] = 1,
         UNCHANGED <<park_space, space_left, elec, mutexLost>>
  PROVE  SpaceCounted'
<1>1. \A i : Clearing(i)' = Clearing(i)
  BY DEF Clearing, Still
<1>2. \A k : FreeIn(k)' = FreeIn(k)
  BY DEF FreeIn, RowOf
<1>3. \A k : Counted(k)' = Counted(k)
  BY <1>1 DEF Counted, RowOf
<1>4. (\A i \in Slots :
          park_space[i] = 1 => elec[i] = RowClass(i) \/ Clearing(i))'
  BY <1>1 DEF SpaceCounted, RowClass, Slots
<1>5. \A q \in Procs :
          /\ pc'[q] \in Leaving /\ pos'[q] # -1
                => park_space'[pos'[q]] = 1 \/ elec'[pos'[q]] = -1
          /\ pc'[q] = "x_free" => elec'[pos'[q]] = -1
  <2> SUFFICES ASSUME NEW q \in Procs
               PROVE /\ pc'[q] \in Leaving /\ pos'[q] # -1
                           => park_space'[pos'[q]] = 1 \/ elec'[pos'[q]] = -1
                     /\ pc'[q] = "x_free" => elec'[pos'[q]] = -1
    OBVIOUS
  <2>1. CASE q = p
    BY <2>1 DEF SpaceCounted, Leaving
  <2>2. CASE q # p
    BY <2>2 DEF SpaceCounted, Leaving, Still
  <2> QED
    BY <2>1, <2>2
<1> QED
  BY <1>2, <1>3, <1>4, <1>5 DEF SpaceCounted, Leaving, ExitLabels

\* The child inside sem_mutex is the only one that can be releasing a slot.
LEMMA OnlyClearing ==
  ASSUME MutexOwned, NEW p \in Procs, pc[p] \in MutexLabels, NEW i
  PROVE  Clearing(i) <=> pc[p] = "x_free" /\ pos[p] = i
<1> \A q \in Procs : pc[q] = "x_free" => q = p
  BY DEF MutexOwned, InMutex, MutexLabels
<1> QED
  BY DEF Clearing

\* Claiming a slot takes it out of the free ones and counts it off.
LEMMA ClaimSpace ==
  ASSUME IInv, NEW p \in Procs, EntryClaim(p), \A q \in Procs \ {p} : Still(q)
  PROVE  SpaceCounted'
<1> DEFINE i == pos[p]
           k == Class(plate[p])
<1>1. /\ pc[p] = "e_claim" /\ pc[p] \in MutexLabels
      /\ pc'[p] = "e_plate" /\ pos'[p] = i
      /\ park_space' = [park_space EXCEPT ![i] = 1]
      /\ space_left' = [space_left EXCEPT ![k] = @ - 1]
      /\ elec' = [elec EXCEPT ![i] = k]
      /\ UNCHANGED mutexLost /\ ~mutexLost
  BY DEF EntryClaim, Go, MutexLabels, locals, rest, lost, IInv, TypeOK, LocalOK,
     MutexOwned, InMutex
<1>2. /\ i \in Slots /\ i \in RowOf(k) /\ park_space[i] = 0
      /\ k \in {0, 1} /\ RowClass(i) = k
  <2>1. i \in SlotsOf(plate[p]) /\ park_space[i] = 0
    BY <1>1 DEF IInv, TablesAgree, Nearest, Free
  <2> QED
    BY <2>1, Rows
<1>3. \A j : ~Clearing(j)
  BY <1>1, OnlyClearing DEF IInv
<1>4. \A j : ~Clearing(j)'
  <2>1. \A q \in Procs : pc'[q] # "x_free"
    <3> SUFFICES ASSUME NEW q \in Procs PROVE pc'[q] # "x_free"
      OBVIOUS
    <3>1. CASE q = p
      BY <3>1, <1>1
    <3>2. CASE q # p
      BY <3>2, <1>3 DEF Still, Clearing
    <3> QED
      BY <3>1, <3>2
  <2> QED
    BY <2>1 DEF Clearing
<1>5. (\A j \in Slots :
          park_space[j] = 1 => elec[j] = RowClass(j) \/ Clearing(j))'
  BY <1>1, <1>2, <1>3 DEF IInv, TypeOK, SharedOK, SpaceCounted, Slots, RowClass
<1>6. \A q \in Procs :
          /\ pc'[q] \in Leaving /\ pos'[q] # -1
                => park_space'[pos'[q]] = 1 \/ elec'[pos'[q]] = -1
          /\ pc'[q] = "x_free" => elec'[pos'[q]] = -1
  <2> SUFFICES ASSUME NEW q \in Procs, pc'[q] \in Leaving, pos'[q] # -1
               PROVE  park_space'[pos'[q]] = 1 \/ elec'[pos'[q]] = -1
    BY <1>4 DEF Clearing
  <2>1. q # p
    BY <1>1 DEF Leaving, ExitLabels
  <2>2. pos'[q] \in Slots /\ pos'[q] = pos[q] /\ pc'[q] = pc[q]
    BY <2>1 DEF Still, IInv, TypeOK, LocalOK
  <2>3. park_space[pos[q]] = 1 \/ elec[pos[q]] = -1
    BY <2>2 DEF IInv, SpaceCounted, Leaving
  <2> QED
    BY <2>2, <2>3, <1>1, <1>2 DEF IInv, TypeOK, SharedOK
<1>7. \A m \in {0, 1} : space_left'[m] = Cardinality(FreeIn(m)')
  <2> SUFFICES ASSUME NEW m \in {0, 1}
               PROVE  space_left'[m] = Cardinality(FreeIn(m)')
    OBVIOUS
  <2>1. space_left[m] = Cardinality(FreeIn(m)) /\ Cardinality(FreeIn(m)) \in Nat
    <3>1. Counted(m) = 0
      BY <1>3 DEF Counted
    <3> QED
      BY <3>1, <1>1, FreeCard DEF IInv, SpaceCounted
  <2>2. CASE m = k
    <3>1. FreeIn(m)' = FreeIn(m) \ {i} /\ i \in FreeIn(m)
      <4>1. \A j \in RowOf(m) : park_space'[j] = 0 <=> park_space[j] = 0 /\ j # i
        BY <1>1, <1>2, FreeNext DEF IInv, TypeOK, SharedOK
      <4> QED
        BY <4>1, <2>2, <1>2, FreeNext DEF FreeIn
    <3>2. Cardinality(FreeIn(m)') = Cardinality(FreeIn(m)) - 1
      BY <3>1, FreeCard, FS_RemoveElement
    <3> QED
      BY <3>2, <2>1, <2>2, <1>1 DEF IInv, TypeOK, SharedOK
  <2>3. CASE m # k
    <3>1. FreeIn(m)' = FreeIn(m)
      <4>1. \A j \in RowOf(m) : park_space'[j] = park_space[j]
        BY <2>3, <1>1, <1>2, Rows, FreeNext DEF IInv, TypeOK, SharedOK
      <4> QED
        BY <4>1, FreeNext DEF FreeIn
    <3> QED
      BY <3>1, <2>1, <2>3, <1>1, <1>2 DEF IInv, TypeOK, SharedOK
  <2> QED
    BY <2>2, <2>3
<1>8. \A m : Counted(m)' = 0
  BY <1>4 DEF Counted
<1>9. \A m \in {0, 1} : space_left'[m] = Cardinality(FreeIn(m)') + Counted(m)'
  BY <1>1, <1>7, <1>8 DEF IInv, TypeOK, SharedOK
<1> QED
  BY <1>5, <1>6, <1>9 DEF SpaceCounted, Leaving, ExitLabels

\* An exit counts its slot as free only if it was still taken: elec is -1
\* when another exit has been faster, and the increment misses space_left.
LEMMA CountSpace ==
  ASSUME IInv, NEW p \in Procs, ExitCount(p), \A q \in Procs \ {p} : Still(q)
  PROVE  SpaceCounted'
<1> DEFINE i == pos[p]
<1>1. /\ pc[p] = "x_count" /\ pc[p] \in MutexLabels /\ ~mutexLost
      /\ UNCHANGED park_space
      /\ i \in Slots /\ i # -1
      /\ \A j : ~Clearing(j)
  <2>1. pc[p] = "x_count" /\ pc[p] \in MutexLabels /\ UNCHANGED park_space
    BY DEF ExitCount, Go, Die, MutexLabels
  <2>2. i \in Slots /\ i # -1
    BY <2>1, SizeAssumption DEF IInv, PosInRange, FoundLabels, Slots, NumSpaces
  <2> QED
    BY <2>1, <2>2, OnlyClearing DEF IInv, MutexOwned, InMutex
<1>2. park_space[i] = 1 \/ elec[i] = -1
  BY <1>1 DEF IInv, SpaceCounted, ExitLabels
<1>3. \A j \in Slots : park_space[j] = 1 => elec[j] = RowClass(j)
  BY <1>1 DEF IInv, SpaceCounted
<1>4. \A q \in Procs \ {p} : pc'[q] # "x_free"
  BY <1>1 DEF Still, Clearing
<1>5. \A q \in Procs \ {p} : pc[q] \in Leaving /\ pos[q] # -1
                => park_space[pos[q]] = 1 \/ elec[pos[q]] = -1
  BY DEF IInv, SpaceCounted, Leaving
<1>6. CASE Die(p, "x_count")
  <2>1. pc'[p] = "idle" /\ mutexLost' = TRUE /\ UNCHANGED elec
    BY <1>6 DEF ExitCount, Die, Go, IInv, TypeOK, LocalOK
  <2>2. (\A j \in Slots :
          park_space[j] = 1 => elec[j] = RowClass(j) \/ Clearing(j))'
    BY <2>1, <1>1, <1>3 DEF Slots, RowClass
  <2>3. \A q \in Procs :
          /\ pc'[q] \in Leaving /\ pos'[q] # -1
                => park_space'[pos'[q]] = 1 \/ elec'[pos'[q]] = -1
          /\ pc'[q] = "x_free" => elec'[pos'[q]] = -1
    BY <2>1, <1>1, <1>4, <1>5 DEF Still, Leaving, ExitLabels
  <2> QED
    BY <2>1, <2>2, <2>3 DEF SpaceCounted, Leaving
<1>7. CASE Go(p, "x_count", "x_free")
  <2>1. /\ pc'[p] = "x_free" /\ pos'[p] = i /\ UNCHANGED mutexLost
        /\ space_left' = IF elec[i] = -1 THEN space_left
                         ELSE [space_left EXCEPT ![elec[i]] = @ + 1]
        /\ elec' = [elec EXCEPT ![i] = -1]
    BY <1>7 DEF ExitCount, Die, Go, IInv, TypeOK, LocalOK, locals
  <2>2. \A j : Clearing(j)' <=> j = i
    BY <2>1, <1>4 DEF Clearing
  <2>3. (\A j \in Slots :
          park_space[j] = 1 => elec[j] = RowClass(j) \/ Clearing(j))'
    BY <2>1, <2>2, <1>1, <1>3 DEF Slots, RowClass, IInv, TypeOK, SharedOK
  <2>4. \A q \in Procs :
          /\ pc'[q] \in Leaving /\ pos'[q] # -1
                => park_space'[pos'[q]] = 1 \/ elec'[pos'[q]] = -1
          /\ pc'[q] = "x_free" => elec'[pos'[q]] = -1
    <3> SUFFICES ASSUME NEW q \in Procs
                 PROVE /\ pc'[q] \in Leaving /\ pos'[q] # -1
                          => park_space'[pos'[q]] = 1 \/ elec'[pos'[q]] = -1
                       /\ pc'[q] = "x_free" => elec'[pos'[q]] = -1
      OBVIOUS
    <3>1. CASE q = p
      BY <3>1, <2>1, <1>1 DEF IInv, TypeOK, SharedOK
    <3>2. CASE q # p
      BY <3>2, <2>1, <1>1, <1>4, <1>5
      DEF Still, IInv, TypeOK, SharedOK, LocalOK
    <3> QED
      BY <3>1, <3>2
  <2>5. \A m \in {0, 1} :
          /\ space_left[m] = Cardinality(FreeIn(m)) /\ space_left[m] \in Int
          /\ FreeIn(m)' = FreeIn(m)
    <3>1. \A m \in {0, 1} : Counted(m) = 0
      BY <1>1 DEF Counted
    <3>2. \A m \in {0, 1} : FreeIn(m)' = FreeIn(m)
      BY <1>1, FreeNext DEF FreeIn
    <3> QED
      BY <3>1, <3>2, <1>1, FreeCard DEF IInv, SpaceCounted
  <2>6. \A m \in {0, 1} : space_left'[m] = Cardinality(FreeIn(m)') + Counted(m)'
    <3> SUFFICES ASSUME NEW m \in {0, 1}
                 PROVE  space_left'[m] = space_left[m] + Counted(m)'
      BY <2>5
    <3>1. Counted(m)' = IF i \in RowOf(m) /\ park_space[i] = 1 THEN 1 ELSE 0
      BY <2>2, <1>1 DEF Counted, RowOf
    <3>2. CASE park_space[i] = 1
      <4>1. elec[i] = RowClass(i) /\ elec[i] # -1
        BY <3>2, <1>1, <1>3, Rows
      <4>2. i \in RowOf(m) <=> m = elec[i]
        BY <4>1, <1>1, Rows
      <4>3. space_left' = [space_left EXCEPT ![elec[i]] = @ + 1]
        BY <4>1, <2>1
      <4>4. CASE m = elec[i]
        BY <4>2, <4>3, <4>4, <3>1, <3>2 DEF IInv, TypeOK, SharedOK
      <4>5. CASE m # elec[i]
        BY <4>2, <4>3, <4>5, <3>1, <2>5 DEF IInv, TypeOK, SharedOK
      <4> QED
        BY <4>4, <4>5
    <3>3. CASE park_space[i] # 1
      BY <3>1, <3>3, <2>1, <2>5, <1>2
    <3> QED
      BY <3>2, <3>3
  <2> QED
    BY <2>1, <2>3, <2>4, <2>6 DEF SpaceCounted, Leaving
<1> QED
  BY <1>6, <1>7 DEF ExitCount

\* Releasing the slot completes what ExitCount has counted.
LEMMA FreeSpace ==
  ASSUME IInv, NEW p \in Procs, ExitFree(p), \A q \in Procs \ {p} : Still(q)
  PROVE  SpaceCounted'
<1> DEFINE i == pos[p]
<1>1. /\ pc[p] = "x_free" /\ pc[p] \in MutexLabels /\ ~mutexLost
      /\ pc'[p] = "x_V" /\ pos'[p] = i
      /\ park_space' = [park_space EXCEPT ![i] = 0]
      /\ UNCHANGED <<elec, space_left, mutexLost>>
  BY DEF ExitFree, Go, MutexLabels, IInv, MutexOwned, InMutex, TypeOK, LocalOK,
     table, rest, lost, locals
<1>2. i \in Slots
  BY <1>1 DEF IInv, PosInRange, FoundLabels
<1>3. \A j : Clearing(j) <=> j = i
  BY <1>1, OnlyClearing DEF IInv
<1>4. elec[i] = -1
  BY <1>1 DEF IInv, SpaceCounted
<1>5. \A q \in Procs : pc'[q] # "x_free"
  <2> SUFFICES ASSUME NEW q \in Procs PROVE pc'[q] # "x_free"
    OBVIOUS
  <2>1. CASE q = p
    BY <2>1, <1>1
  <2>2. CASE q # p
    BY <2>2, <1>1 DEF Still, IInv, MutexOwned, InMutex, MutexLabels
  <2> QED
    BY <2>1, <2>2
<1>6. (\A j \in Slots :
          park_space[j] = 1 => elec[j] = RowClass(j) \/ Clearing(j))'
  BY <1>1, <1>2, <1>3 DEF IInv, TypeOK, SharedOK, SpaceCounted, Slots, RowClass
<1>7. \A q \in Procs :
          /\ pc'[q] \in Leaving /\ pos'[q] # -1
                => park_space'[pos'[q]] = 1 \/ elec'[pos'[q]] = -1
          /\ pc'[q] = "x_free" => elec'[pos'[q]] = -1
  <2> SUFFICES ASSUME NEW q \in Procs, pc'[q] \in Leaving, pos'[q] # -1
               PROVE  park_space'[pos'[q]] = 1 \/ elec'[pos'[q]] = -1
    BY <1>5
  <2>1. pos'[q] \in Slots /\ pos'[q] = pos[q]
    BY <1>1, <1>2 DEF Still, IInv, TypeOK, LocalOK
  <2>2. CASE pos[q] = i
    BY <2>1, <2>2, <1>1, <1>4
  <2>3. CASE pos[q] # i
    <3>1. q # p /\ pc'[q] = pc[q]
      BY <2>3 DEF Still
    <3>2. park_space[pos[q]] = 1 \/ elec[pos[q]] = -1
      BY <3>1, <2>1 DEF IInv, SpaceCounted, Leaving
    <3> QED
      BY <3>2, <2>1, <2>3, <1>1 DEF IInv, TypeOK, SharedOK
  <2> QED
    BY <2>2, <2>3
<1>8. \A m \in {0, 1} : space_left'[m] = Cardinality(FreeIn(m)')
  <2> SUFFICES ASSUME NEW m \in {0, 1}
               PROVE  space_left[m] = Cardinality(FreeIn(m)')
    BY <1>1
  <2>1. /\ space_left[m] = Cardinality(FreeIn(m)) + Counted(m)
        /\ Cardinality(FreeIn(m)) \in Nat
    BY <1>1, FreeCard DEF IInv, SpaceCounted
  <2>2. Counted(m) = IF i \in RowOf(m) /\ park_space[i] = 1 THEN 1 ELSE 0
    BY <1>3 DEF Counted
  <2>3. CASE i \in RowOf(m) /\ park_space[i] = 1
    <3>1. FreeIn(m)' = FreeIn(m) \cup {i} /\ i \notin FreeIn(m)
      <4>1. \A j \in RowOf(m) : park_space'[j] = 0 <=> park_space[j] = 0 \/ j = i
        BY <1>1, <1>2, FreeNext DEF IInv, TypeOK, SharedOK
      <4> QED
        BY <4>1, <2>3, FreeNext DEF FreeIn
    <3>2. Cardinality(FreeIn(m)') = Cardinality(FreeIn(m)) + 1
      BY <3>1, FreeCard, FS_AddElement
    <3> QED
      BY <3>2, <2>1, <2>2, <2>3
  <2>4. CASE ~(i \in RowOf(m) /\ park_space[i] = 1)
    <3>1. FreeIn(m)' = FreeIn(m)
      <4>1. \A j \in RowOf(m) : park_space'[j] = 0 <=> park_space[j] = 0
        BY <2>4, <1>1, <1>2, FreeNext DEF IInv, TypeOK, SharedOK
      <4> QED
        BY <4>1, FreeNext DEF FreeIn
    <3> QED
      BY <3>1, <2>1, <2>2, <2>4
  <2> QED
    BY <2>3, <2>4
<1>9. \A m \in {0, 1} : space_left'[m] = Cardinality(FreeIn(m)') + Counted(m)'
  <2>1. \A m : Counted(m)' = 0
    BY <1>5 DEF Counted, Clearing
  <2> QED
    BY <2>1, <1>8, <1>1 DEF IInv, TypeOK, SharedOK
<1> QED
  BY <1>6, <1>7, <1>9 DEF SpaceCounted, Leaving

\* A slot that a scan has found is taken.
LEMMA FoundTaken ==
  ASSUME IInv, NEW p \in Procs, pc[p] = "x_find", NEW i \in Slots, First(plate[p], i)
  PROVE  park_space[i] = 1
<1>1. licence_plate[i] # NoPlate
  BY PlatesAssumption DEF First, IInv, PosInRange
<1> QED
  BY <1>1 DEF IInv, TablesAgree

\* Every step preserves SpaceCounted.
LEMMA StepSpace ==
  ASSUME IInv, NEW p \in Procs, Step(p)
  PROVE  SpaceCounted'
<1> USE DEF Go, Return, Die, Leaving, ExitLabels, sems, rest, lost, store, table, spaces,
    locals
<1>0. /\ \A q \in Procs \ {p} : Still(q)
      /\ pc \in [Procs -> Labels] /\ pos \in [Procs -> Slots \cup {-1}]
      /\ TypeOK /\ SpaceCounted
  BY OthersStill DEF IInv, TypeOK, LocalOK
<1>1. CASE EntryStep(p)
  <2>1. CASE EntryScan(p)
    BY <2>1, <1>0, SpaceStay DEF EntryScan
  <2>2. CASE EntryP(p)
    BY <2>2, <1>0, SpaceStay DEF EntryP
  <2>3. CASE EntryFind(p)
    BY <2>3, <1>0, SpaceStay DEF EntryFind
  <2>4. CASE EntryFull(p)
    BY <2>4, <1>0, SpaceStay DEF EntryFull
  <2>5. CASE EntryClaim(p)
    BY <2>5, <1>0, ClaimSpace
  <2>6. CASE EntryPlate(p)
    BY <2>6, <1>0, SpaceStay DEF EntryPlate
  <2>7. CASE EntryTimes(p)
    BY <2>7, <1>0, SpaceStay DEF EntryTimes
  <2>8. CASE EntryV(p)
    BY <2>8, <1>0, SpaceStay DEF EntryV
  <2>9. CASE EntryLed(p)
    BY <2>9, <1>0, SpaceStay DEF EntryLed
  <2>10. CASE EntryReply(p)
    BY <2>10, <1>0, SpaceStay DEF EntryReply
  <2> QED
    BY <1>1, <2>1, <2>2, <2>3, <2>4, <2>5, <2>6, <2>7, <2>8, <2>9, <2>10 DEF EntryStep
<1>2. CASE ExitStep(p)
  <2>1. CASE ExitScan(p)
    BY <2>1, <1>0, SpaceStay DEF ExitScan
  <2>2. CASE ExitFind(p)
    <3>1. /\ pc[p] = "x_find" /\ pc'[p] = "x_paid"
          /\ UNCHANGED <<park_space, space_left, elec, mutexLost>>
      BY <2>2, <1>0 DEF ExitFind
    <3>2. pos'[p] = -1 \/ \E i \in Slots : First(plate[p], i) /\ pos'[p] = i
      BY <2>2, <1>0 DEF ExitFind
    <3>3. pos'[p] # -1 => park_space[pos'[p]] = 1
      BY <3>1, <3>2, FoundTaken
    <3> QED
      BY <3>1, <3>3, <1>0, SpaceStay
  <2>3. CASE ExitPaid(p)
    BY <2>3, <1>0, SpaceStay DEF ExitPaid
  <2>4. CASE ExitGrace(p)
    BY <2>4, <1>0, SpaceStay DEF ExitGrace
  <2>5. CASE ExitLateP(p)
    BY <2>5, <1>0, SpaceStay DEF ExitLateP
  <2>6. CASE ExitLateEntry(p)
    BY <2>6, <1>0, SpaceStay DEF ExitLateEntry
  <2>7. CASE ExitLatePay(p)
    BY <2>7, <1>0, SpaceStay DEF ExitLatePay
  <2>8. CASE ExitLateV(p)
    BY <2>8, <1>0, SpaceStay DEF ExitLateV
  <2>9. CASE ExitP(p)
    BY <2>9, <1>0, SpaceStay DEF ExitP
  <2>10. CASE ExitClear(p)
    BY <2>10, <1>0, SpaceStay DEF ExitClear
  <2>11. CASE ExitCount(p)
    BY <2>11, <1>0, CountSpace
  <2>12. CASE ExitFree(p)
    BY <2>12, <1>0, FreeSpace
  <2>13. CASE ExitV(p)
    BY <2>13, <1>0, SpaceStay DEF ExitV
  <2>14. CASE ExitReply(p)
    BY <2>14, <1>0, SpaceStay DEF ExitReply
  <2>15. CASE ExitLed(p)
    BY <2>15, <1>0, SpaceStay DEF ExitLed
  <2> QED
    BY <1>2, <2>1, <2>2, <2>3, <2>4, <2>5, <2>6, <2>7, <2>8, <2>9, <2>10, <2>11, <2>12, <2>13, <2>14, <2>15 DEF ExitStep
<1>3. CASE PayServerStep(p)
  <2>1. CASE PayP(p)
    BY <2>1, <1>0, SpaceStay DEF PayP
  <2>2. CASE PayScan(p)
    BY <2>2, <1>0, SpaceStay DEF PayScan
  <2>3. CASE PayQuote(p)
    BY <2>3, <1>0, SpaceStay DEF PayQuote
  <2>4. CASE PayStampP(p)
    BY <2>4, <1>0, SpaceStay DEF PayStampP
  <2>5. CASE PayStamp(p)
    BY <2>5, <1>0, SpaceStay DEF PayStamp
  <2>6. CASE PayStampV(p)
    BY <2>6, <1>0, SpaceStay DEF PayStampV
  <2>7. CASE PayCashP(p)
    BY <2>7, <1>0, SpaceStay DEF PayCashP
  <2>8. CASE PayCashLoad(p)
    BY <2>8, <1>0, SpaceStay DEF PayCashLoad
  <2>9. CASE PayCashStore(p)
    BY <2>9, <1>0, SpaceStay DEF PayCashStore
  <2>10. CASE PayCashV(p)
    BY <2>10, <1>0, SpaceStay DEF PayCashV
  <2>11. CASE PayV(p)
    BY <2>11, <1>0, SpaceStay DEF PayV
  <2> QED
    BY <1>3, <2>1, <2>2, <2>3, <2>4, <2>5, <2>6, <2>7, <2>8, <2>9, <2>10, <2>11 DEF PayServerStep
<1>4. CASE Connect(p)
  BY <1>4, <1>0, SpaceStay
  DEF Connect, AcceptEntry, AcceptExit, AcceptPay, Accept
<1>5. CASE ChildExit(p)
  BY <1>5, <1>0, SpaceStay DEF ChildExit
<1>6. CASE PayReceive(p)
  BY <1>6, <1>0, SpaceStay DEF PayReceive
<1>7. CASE PayHangup(p)
  BY <1>7, <1>0, SpaceStay DEF PayHangup
<1> QED
  BY <1>1, <1>2, <1>3, <1>4, <1>5, <1>6, <1>7 DEF Step, ChildStep, Customer

-----------------------------------------------------------------------------
(* The inductive invariant.                                                *)

\* The server starts with every car and every child outside.
LEMMA InitInv == Init => IInv
<1> SUFFICES ASSUME Init PROVE IInv
  OBVIOUS
<1>1. TypeOK
  BY InitType
<1>2. \A p \in Procs : pc[p] = "idle"
  BY DEF Init
<1>3. PosInRange
  BY <1>2 DEF PosInRange, ClaimLabels, FoundLabels
<1>4. MutexOwned
  BY <1>2 DEF MutexOwned, InMutex, MutexLabels, Init
<1>5. TablesAgree
  BY <1>2 DEF TablesAgree, Init
<1>6. SpaceCounted
  <2>1. \A k : Counted(k) = 0
    BY <1>2 DEF Counted, Clearing
  <2>2. \A k \in {0, 1} : space_left[k] = Cardinality(FreeIn(k))
    <3> SUFFICES ASSUME NEW k \in {0, 1} PROVE space_left[k] = Cardinality(FreeIn(k))
      OBVIOUS
    <3>1. FreeIn(k) = RowOf(k)
      BY Rows DEF FreeIn, Init
    <3>2. space_left[k] = IF k = 1 THEN NumElec ELSE NumFuel
      BY DEF Init
    <3>3. Cardinality(RowOf(k)) = IF k = 1 THEN NumElec ELSE NumFuel
      <4>1. CASE k = 1
        <5>1. Cardinality(0 .. NumElec - 1)
                 = IF 0 > NumElec - 1 THEN 0 ELSE (NumElec - 1) - 0 + 1
          BY FS_Interval, SizeAssumption
        <5> QED
          BY <4>1, <5>1, SizeAssumption DEF RowOf
      <4>2. CASE k = 0
        <5>1. Cardinality(NumElec .. NumSpaces - 1)
                 = IF NumElec > NumSpaces - 1 THEN 0
                                              ELSE (NumSpaces - 1) - NumElec + 1
          BY FS_Interval, SizeAssumption DEF NumSpaces
        <5> QED
          BY <4>2, <5>1, SizeAssumption DEF RowOf, NumSpaces
      <4> QED
        BY <4>1, <4>2
    <3> QED
      BY <3>1, <3>2, <3>3
  <2>3. \A k \in {0, 1} : space_left[k] = Cardinality(FreeIn(k)) + Counted(k)
    BY <2>1, <2>2, FreeCard
  <2>4. /\ \A i \in Slots : park_space[i] = 0
        /\ \A p \in Procs : pc[p] \notin ExitLabels /\ pc[p] # "x_free"
    BY <1>2 DEF Init, ExitLabels
  <2> QED
    BY <2>3, <2>4 DEF SpaceCounted
<1>7. PermitsExact
  <2>1. AtStation = {}
    BY <1>2 DEF AtStation, PayLabels
  <2>2. Cardinality({}) = 0
    BY FS_EmptySet
  <2>3. sem_counting = PayStations /\ permitsLost = 0 /\ PayStations \in Nat
    BY SizeAssumption DEF Init
  <2>4. Cardinality(AtStation) = 0
    BY <2>1, <2>2
  <2> QED
    BY <2>3, <2>4 DEF PermitsExact
<1> QED
  BY <1>1, <1>3, <1>4, <1>5, <1>6, <1>7 DEF IInv

\* Besides its type, the invariant does not depend on the clock or the LEDs.
LEMMA SameInv ==
  ASSUME IInv, TypeOK', UNCHANGED <<store, sems, pc, locals, lost>>
  PROVE  IInv'
<1> USE DEF IInv, store, table, spaces, sems, locals, scratch, lost
<1>1. PosInRange'
  BY DEF PosInRange, SlotsOf, IsElec, Slots
<1>2. MutexOwned'
  BY DEF MutexOwned, InMutex
<1>3. TablesAgree'
  <2>1. \A c : Free(c)' = Free(c)
    BY DEF Free
  <2> QED
    BY <2>1 DEF TablesAgree, AtWork
<1>4. SpaceCounted'
  <2>1. \A k : FreeIn(k)' = FreeIn(k) /\ Counted(k)' = Counted(k)
    BY DEF FreeIn, Counted, RowOf, Clearing
  <2> QED
    BY <2>1 DEF SpaceCounted, Clearing
<1>5. PermitsExact'
  <2>1. AtStation' = AtStation
    BY DEF AtStation
  <2> QED
    BY <2>1 DEF PermitsExact
<1> QED
  BY <1>1, <1>2, <1>3, <1>4, <1>5

\* Every step preserves the invariant.
LEMMA NextInv == IInv /\ [Next]_vars => IInv'
<1> SUFFICES ASSUME IInv, [Next]_vars PROVE IInv'
  OBVIOUS
<1>1. CASE UNCHANGED vars
  <2>1. TypeOK'
    <3>1. UNCHANGED <<store, sems, rest>> /\ UNCHANGED <<locals, now>>
          /\ UNCHANGED pc
      BY <1>1 DEF vars, rest
    <3>2. SharedOK'
      BY <3>1, SameShared DEF IInv, TypeOK
    <3>3. LocalOK'
      BY <3>1, SameLocals DEF IInv, TypeOK, LocalOK
    <3> QED
      BY <3>2, <3>3 DEF TypeOK
  <2> QED
    BY <1>1, <2>1, SameInv DEF vars
<1>2. CASE Tick
  BY <1>2, TickType, SameInv DEF Tick, IInv
<1>3. ASSUME NEW p \in Procs, Step(p) PROVE IInv'
  BY <1>3, StepType, StepPos, StepMutex, StepTables, StepSpace, StepPermits
  DEF IInv
<1> QED
  BY <1>1, <1>2, <1>3 DEF Next, Step

\* The invariant of the server of server.c: whatever requests come in
\* whatever order, the position, mutex, table, counter and permit parts of
\* IInv hold together.
THEOREM Invariance == Spec => []IInv
<1>1. Init => IInv
  BY InitInv
<1>2. IInv /\ [Next]_vars => IInv'
  BY NextInv
<1> QED
  BY <1>1, <1>2, PTL DEF Spec

-----------------------------------------------------------------------------
(* What follows from it.                                                   *)

\* Type correctness: every index, time and counter of server.c stays in its
\* range; the seconds charged for are never negative.
THEOREM TypeCorrect == Spec => []TypeOK
<1>1. IInv => TypeOK
  BY DEF IInv
<1> QED
  BY <1>1, Invariance, PTL

\* MutexExact: P and V of sem_mutex are balanced on every path of the three
\* handlers, so at most one child is in a critical section.
THEOREM MutualExclusion == Spec => []MutexExact
<1>1. IInv => MutexExact
  <2> SUFFICES ASSUME IInv PROVE MutexExact
    OBVIOUS
  <2>1. CASE InMutex = {}
    <3>1. Cardinality(InMutex) = 0
      BY <2>1, FS_EmptySet
    <3>2. sem_mutex = IF mutexLost THEN 0 ELSE 1
      BY <2>1 DEF IInv, MutexOwned
    <3> QED
      BY <3>1, <3>2 DEF MutexExact
  <2>2. CASE InMutex # {}
    <3>1. PICK p : InMutex = {p}
      <4>1. PICK p \in InMutex : TRUE
        BY <2>2
      <4>2. InMutex = {p}
        BY <4>1 DEF IInv, MutexOwned
      <4> QED
        BY <4>2
    <3>2. Cardinality(InMutex) = 1
      BY <3>1, FS_Singleton
    <3>3. sem_mutex = 0 /\ ~mutexLost
      BY <2>2 DEF IInv, MutexOwned
    <3> QED
      BY <3>2, <3>3 DEF MutexExact
  <2> QED
    BY <2>1, <2>2
<1> QED
  BY <1>1, Invariance, PTL

\* PermitsExact: payment() gives back its pay station on every path but the
\* one on which the child dies waiting for its customer.
THEOREM PermitsConserved == Spec => []PermitsExact
<1>1. IInv => PermitsExact
  BY DEF IInv
<1> QED
  BY <1>1, Invariance, PTL

\* PermitsReleased, what the README promises of the semaphores: it does hold as
\* long as no customer disconnects while payment() waits for the fee.
THEOREM PermitsReturn ==
  ASSUME ~Hangups
  PROVE  Spec => []PermitsReleased
<1> DEFINE I == permitsLost = 0
<1>1. Init => I
  BY DEF Init
<1>2. ASSUME I, [Next]_vars PROVE I'
  <2> USE DEF lost, rest
  <2>1. ASSUME NEW p \in Procs, Step(p) PROVE permitsLost' = permitsLost
    <3>1. CASE Connect(p) \/ ChildExit(p) \/ Customer(p)
      BY <3>1 DEF Connect, AcceptEntry, AcceptExit, AcceptPay, Accept, ChildExit,
         Customer, PayReceive, PayHangup
    <3>2. CASE EntryStep(p)
      BY <3>2 DEF EntryStep, EntryScan, EntryP, EntryFind, EntryFull, EntryClaim,
         EntryPlate, EntryTimes, EntryV, EntryLed, EntryReply
    <3>3. CASE ExitStep(p)
      BY <3>3 DEF ExitStep, ExitScan, ExitFind, ExitPaid, ExitGrace, ExitLateP,
         ExitLateEntry, ExitLatePay, ExitLateV, ExitP, ExitClear, ExitCount,
         ExitFree, ExitV, ExitReply, ExitLed
    <3>4. CASE PayServerStep(p)
      BY <3>4 DEF PayServerStep, PayP, PayScan, PayQuote, PayStampP, PayStamp,
         PayStampV, PayCashP, PayCashLoad, PayCashStore, PayCashV, PayV
    <3> QED
      BY <2>1, <3>1, <3>2, <3>3, <3>4 DEF Step, ChildStep
  <2> QED
    BY <1>2, <2>1 DEF Next, Step, Tick, vars
<1>3. IInv /\ I => PermitsReleased
  <2> SUFFICES ASSUME IInv, I PROVE PermitsReleased
    OBVIOUS
  <2>1. sem_counting \in Nat /\ Cardinality(AtStation) \in Nat
    BY StationCard DEF IInv, TypeOK, SharedOK
  <2> QED
    BY <2>1 DEF IInv, PermitsExact, PermitsReleased
<1> QED
  BY <1>1, <1>2, <1>3, Invariance, PTL DEF Spec

\* SlotsAgree: with sem_mutex free, park_space[] and car[] tell the same.
THEOREM TablesMatch == Spec => []SlotsAgree
<1>1. IInv => SlotsAgree
  <2> SUFFICES ASSUME IInv, sem_mutex = 1, NEW i \in Slots
               PROVE  park_space[i] = 1 <=> licence_plate[i] # NoPlate
    BY DEF SlotsAgree
  <2>1. InMutex = {} /\ ~mutexLost
    BY DEF IInv, MutexOwned
  <2>2. ~AtWork(i)
    BY <2>1 DEF AtWork, InMutex, MutexLabels
  <2> QED
    BY <2>1, <2>2 DEF IInv, TablesAgree
<1> QED
  BY <1>1, Invariance, PTL

\* SpaceLeftExact: with sem_mutex free, space_left[] counts the free slots of
\* each row, even after two exits have acted on the same slot.
THEOREM CountersExact == Spec => []SpaceLeftExact
<1>1. IInv => SpaceLeftExact
  <2> SUFFICES ASSUME IInv, sem_mutex = 1, NEW k \in {0, 1}
               PROVE  space_left[k] = Cardinality(FreeIn(k))
    BY DEF SpaceLeftExact
  <2>1. InMutex = {} /\ ~mutexLost
    BY DEF IInv, MutexOwned
  <2>2. Counted(k) = 0
    BY <2>1 DEF Counted, Clearing, InMutex, MutexLabels
  <2> QED
    BY <2>1, <2>2, FreeCard DEF IInv, SpaceCounted
<1> QED
  BY <1>1, Invariance, PTL

-----------------------------------------------------------------------------
(* The till: arithmetic modulo CashWidth,                                  *)

\* Division with remainder,
LEMMA Division ==
    ASSUME NEW a \in Int, NEW w \in Nat \ {0}
    PROVE  \E q \in Int, r \in 0 .. w - 1 : r = a % w /\ a = w * q + r
<1> DEFINE q == a \div w
           r == a % w
<1>1. r \in 0 .. w - 1
  OBVIOUS
<1>2. q \in Int
  OBVIOUS
<1>3. r = a - w * q
  OBVIOUS
<1>4. a = w * q + r
  <2> HIDE DEF q, r
  <2>1. w * q \in Int
    BY <1>2
  <2> QED BY <1>1, <1>3, <2>1
<1>5. r = a % w
  OBVIOUS
<1> HIDE DEF q, r
<1> QED
  BY <1>1, <1>2, <1>4, <1>5

\* which is unique.
LEMMA Remainder ==
    ASSUME NEW w \in Nat \ {0}, NEW q \in Int, NEW r \in 0 .. w - 1,
           NEW k \in Int, NEW s \in 0 .. w - 1, w * q + r = w * k + s
    PROVE  r = s
<1>1. w * (q - k) = s - r
  OBVIOUS
<1>2. CASE q - k >= 1
  <2>1. w * (q - k) >= w
    BY <1>2
  <2> QED BY <1>1, <2>1
<1>3. CASE q - k <= -1
  <2>1. w * (q - k) <= -w
    BY <1>3
  <2> QED BY <1>1, <2>1
<1>4. CASE q = k
  BY <1>4
<1> QED BY <1>2, <1>3, <1>4

\* An addition modulo w may be done on the remainder.
LEMMA AddToRemainder ==
    ASSUME NEW a \in Int, NEW b \in Int, NEW w \in Nat \ {0}
    PROVE  ((a % w) + b) % w = (a + b) % w
<1>1. PICK q \in Int, r \in 0 .. w - 1 : r = a % w /\ a = w * q + r
  BY Division
<1>2. PICK k \in Int, s \in 0 .. w - 1 : s = (r + b) % w /\ r + b = w * k + s
  <2>1. r + b \in Int
    OBVIOUS
  <2> QED
    BY <2>1, Division
<1>3. PICK l \in Int, u \in 0 .. w - 1 : u = (a + b) % w /\ a + b = w * l + u
  <2>1. a + b \in Int
    OBVIOUS
  <2> QED
    BY <2>1, Division
<1>4. w * l + u = w * (q + k) + s
  BY <1>1, <1>2, <1>3
<1>5. u = s
  <2>1. q + k \in Int
    OBVIOUS
  <2> QED
    BY <1>4, <2>1, Remainder
<1> QED
  BY <1>1, <1>2, <1>3, <1>5

(* the steps that move money,                                              *)

\* A step of p changes no other child's fee, and of its own only one that is
\* not owed: it comes to owe its fee by receiving it, and stops by storing it.
LEMMA MoneyMoves ==
  ASSUME TypeOK, NEW p \in Procs, Step(p)
  PROVE  /\ fee' = [fee EXCEPT ![p] = fee'[p]] /\ reg' = [reg EXCEPT ![p] = reg'[p]]
         /\ \/ PayReceive(p) \/ PayCashStore(p)
            \/ /\ UNCHANGED money
               /\ pc'[p] \in UnbookedLabels <=> pc[p] \in UnbookedLabels
               /\ pc'[p] \in UnbookedLabels => fee'[p] = fee[p]
               /\ pc'[p] = "p_store" => reg'[p] = cash
<1> USE DEF Go, Return, Forget, Die, UnbookedLabels, store, locals, scratch
<1>0. /\ pc \in [Procs -> Labels]
      /\ fee \in [Procs -> Nat] /\ reg \in [Procs -> Money]
  BY DEF TypeOK, LocalOK
<1>1. CASE Connect(p)
  BY <1>0, <1>1 DEF Connect, AcceptEntry, AcceptExit, AcceptPay, Accept
<1>2. CASE ChildExit(p)
  BY <1>0, <1>2 DEF ChildExit
<1>3. CASE Customer(p)
  BY <1>0, <1>3 DEF Customer, PayReceive, PayHangup
<1>4. CASE EntryStep(p)
  BY <1>0, <1>4 DEF EntryStep, EntryScan, EntryP, EntryFind, EntryFull, EntryClaim,
     EntryPlate, EntryTimes, EntryV, EntryLed, EntryReply
<1>5. CASE ExitStep(p)
  BY <1>0, <1>5 DEF ExitStep, ExitScan, ExitFind, ExitPaid, ExitGrace, ExitLateP,
     ExitLateEntry, ExitLatePay, ExitLateV, ExitP, ExitClear, ExitCount,
     ExitFree, ExitV, ExitReply, ExitLed
<1>6. CASE PayServerStep(p)
  BY <1>0, <1>6 DEF PayServerStep, PayP, PayScan, PayQuote, PayStampP, PayStamp,
     PayStampV, PayCashP, PayCashLoad, PayCashStore, PayCashV, PayV
<1> QED
  BY <1>1, <1>2, <1>3, <1>4, <1>5, <1>6 DEF Step, ChildStep

\* What is on its way to the till is a number.
LEMMA UnbookedSum ==
  ASSUME TypeOK, NEW S \in SUBSET Procs
  PROVE  IsFiniteSet(S) /\ SumFunctionOnSet(fee, S) \in Int
<1>1. IsFiniteSet(S)
  BY SizeAssumption, FS_Subset
<1>2. \A q \in S : fee[q] \in Int
  BY DEF TypeOK, LocalOK
<1> QED
  BY <1>1, <1>2, SumIsInt

(* and what they do to it.                                                 *)

\* The till stays exact under the steps of a child.
LEMMA StepTill ==
  ASSUME IInv, TillOK, IInv', NEW p \in Procs, Step(p)
  PROVE  TillOK'
<1> USE DEF money, Go
<1> DEFINE U == Unbooked
           W == CashWidth
           Due(S) == SumFunctionOnSet(fee, S)
<1>1. /\ TypeOK /\ cash \in Nat /\ received \in Nat /\ fee \in [Procs -> Nat]
      /\ reg \in [Procs -> Nat] /\ pc \in [Procs -> Labels] /\ pc' \in [Procs -> Labels]
      /\ fee' \in [Procs -> Nat] /\ TypeOK'
      /\ W \in Nat \ {0}
  BY Constants, TimeAssumption DEF IInv, TypeOK, SharedOK, LocalOK
<1>2. \A q \in Procs \ {p} : pc'[q] = pc[q] /\ fee'[q] = fee[q] /\ reg'[q] = reg[q]
  <2>1. \A q \in Procs \ {p} : pc'[q] = pc[q]
    BY <1>1, OthersStill DEF Still
  <2>2. fee' = [fee EXCEPT ![p] = fee'[p]] /\ reg' = [reg EXCEPT ![p] = reg'[p]]
    BY <1>1, MoneyMoves
  <2> QED
    BY <1>1, <2>1, <2>2
<1>3. U \in SUBSET Procs /\ U' \in SUBSET Procs
  BY DEF Unbooked
<1>4. CASE PayReceive(p)
  <2>1. U' = U \cup {p} /\ p \notin U /\ fee' = fee /\ reg' = reg /\ cash' = cash
        /\ received' = (received + fee[p]) % W
    BY <1>1, <1>2, <1>4 DEF PayReceive, Unbooked, UnbookedLabels, locals, scratch
  <2>2. SumFunctionOnSet(fee', U') = fee[p] + Due(U)
    <3>1. \A q \in U \cup {p} : fee[q] \in Int
      BY <1>1, <1>3
    <3> QED
      BY <1>1, <1>3, <2>1, <3>1, UnbookedSum, SumAdd
  <2>3. (cash + SumFunctionOnSet(fee', U')) % W = received'
    <3> DEFINE a == cash + Due(U)
    <3>1. Due(U) \in Int /\ a \in Int /\ fee[p] \in Int
      BY <1>1, <1>3, UnbookedSum
    <3>2. received = a % W
      BY DEF TillOK, CashExact
    <3>3. cash + (fee[p] + Due(U)) = a + fee[p]
      BY <1>1, <3>1
    <3>4. ((a % W) + fee[p]) % W = (a + fee[p]) % W
      <4> HIDE DEF a, W
      <4> QED
        BY <1>1, <3>1, AddToRemainder
    <3> QED
      BY <2>1, <2>2, <3>2, <3>3, <3>4
  <2>4. ASSUME NEW q \in Procs, pc'[q] = "p_store" PROVE reg'[q] = cash'
    <3>1. q # p
      BY <1>1, <1>4, <2>4 DEF PayReceive
    <3> QED
      BY <1>2, <2>1, <2>4, <3>1 DEF TillOK
  <2> QED
    BY <2>1, <2>3, <2>4 DEF TillOK, CashExact
<1>5. CASE PayCashStore(p)
  <2>1. U' = U \ {p} /\ p \in U /\ fee' = fee /\ reg' = reg /\ received' = received
        /\ cash' = (reg[p] + fee[p]) % W /\ pc[p] = "p_store"
    BY <1>1, <1>2, <1>5 DEF PayCashStore, Unbooked, UnbookedLabels, locals, scratch
  <2>2. Due(U) = fee[p] + SumFunctionOnSet(fee', U')
    <3>1. \A q \in U : fee[q] \in Int
      BY <1>1, <1>3
    <3>2. IsFiniteSet(U)
      BY <1>1, <1>3, UnbookedSum
    <3> QED
      BY <2>1, <3>1, <3>2, SumRemove
  <2>3. (cash' + SumFunctionOnSet(fee', U')) % W = received'
    <3> DEFINE a == cash + fee[p]
               b == Due(U \ {p})
    <3>1. a \in Int /\ b \in Int /\ fee[p] \in Int
      BY <1>1, <1>3, UnbookedSum
    <3>2. cash' = a % W
      BY <2>1 DEF TillOK
    <3>3. cash + Due(U) = a + b
      BY <1>1, <2>1, <2>2, <3>1
    <3>4. ((a % W) + b) % W = (a + b) % W
      <4> HIDE DEF a, b, W
      <4> QED
        BY <1>1, <3>1, AddToRemainder
    <3>5. received' = (cash + Due(U)) % W
      BY <2>1 DEF TillOK, CashExact
    <3> QED
      BY <2>1, <3>2, <3>3, <3>4, <3>5
  <2>4. ASSUME NEW q \in Procs, pc'[q] = "p_store" PROVE FALSE
    <3>1. q # p
      BY <1>1, <1>5, <2>4 DEF PayCashStore
    <3>2. pc[q] = "p_store"
      BY <1>2, <2>4, <3>1
    <3>3. q \in InMutex /\ p \in InMutex
      BY <2>1, <3>2 DEF InMutex, MutexLabels
    <3> QED
      BY <3>1, <3>3 DEF IInv, MutexOwned
  <2> QED
    BY <2>3, <2>4 DEF TillOK, CashExact
<1>6. CASE ~PayReceive(p) /\ ~PayCashStore(p)
  <2>1. /\ UNCHANGED money
        /\ pc'[p] \in UnbookedLabels <=> pc[p] \in UnbookedLabels
        /\ pc'[p] \in UnbookedLabels => fee'[p] = fee[p]
        /\ pc'[p] = "p_store" => reg'[p] = cash
    BY <1>1, <1>6, MoneyMoves
  <2>2. U' = U
    BY <1>2, <2>1 DEF Unbooked
  <2>3. \A q \in U : fee'[q] = fee[q]
    BY <1>2, <2>1 DEF Unbooked
  <2>4. SumFunctionOnSet(fee', U') = Due(U)
    BY <1>1, <1>3, <2>2, <2>3, UnbookedSum, SumSame
  <2>5. ASSUME NEW q \in Procs, pc'[q] = "p_store" PROVE reg'[q] = cash'
    BY <1>2, <2>1, <2>5 DEF TillOK
  <2> QED
    BY <2>1, <2>4, <2>5 DEF TillOK, CashExact
<1> QED
  BY <1>4, <1>5, <1>6

\* CashExact: *cash += fee is a load and a store, and no payment is lost
\* between them, because both happen in one critical section.
THEOREM TillExact == Spec => []CashExact
<1>1. Init => TillOK
  <2> SUFFICES ASSUME Init PROVE TillOK
    OBVIOUS
  <2>1. Unbooked = {} /\ cash = 0 /\ received = 0
    BY DEF Init, Unbooked, UnbookedLabels
  <2>2. SumFunctionOnSet(fee, Unbooked) = 0
    BY <2>1, SumOfNothing
  <2>3. 0 % CashWidth = 0
    BY TimeAssumption
  <2> QED
    BY <2>1, <2>2, <2>3 DEF Init, TillOK, CashExact
<1>2. IInv /\ TillOK /\ IInv' /\ [Next]_vars => TillOK'
  <2> SUFFICES ASSUME IInv, TillOK, IInv', [Next]_vars PROVE TillOK'
    OBVIOUS
  <2>1. CASE UNCHANGED <<store, pc, locals>>
    BY <2>1 DEF TillOK, CashExact, Unbooked, store, money, locals, scratch
  <2>2. ASSUME NEW p \in Procs, Step(p) PROVE TillOK'
    BY <2>2, StepTill
  <2> QED
    BY <2>1, <2>2 DEF Next, Step, Tick, vars
<1>3. TillOK => CashExact
  BY DEF TillOK
<1> QED
  BY <1>1, <1>2, <1>3, Invariance, PTL DEF Spec

-----------------------------------------------------------------------------
(* The steps that write the tables.                                        *)

\* Only the claim of entry() and the release of exitpark() write park_space,
\* only the strcpy of each writes licence_plate.
LEMMA Writers ==
  ASSUME NEW p \in Procs, Step(p)
  PROVE  /\ UNCHANGED park_space \/ EntryClaim(p) \/ ExitFree(p)
         /\ UNCHANGED licence_plate \/ EntryPlate(p) \/ ExitClear(p)
<1> USE DEF store, table, spaces
<1>1. CASE Connect(p) \/ ChildExit(p) \/ Customer(p)
  BY <1>1 DEF Connect, AcceptEntry, AcceptExit, AcceptPay, Accept, ChildExit,
     Customer, PayReceive, PayHangup
<1>2. CASE EntryStep(p)
  BY <1>2 DEF EntryStep, EntryScan, EntryP, EntryFind, EntryFull, EntryClaim,
     EntryPlate, EntryTimes, EntryV, EntryLed, EntryReply
<1>3. CASE ExitStep(p)
  BY <1>3 DEF ExitStep, ExitScan, ExitFind, ExitPaid, ExitGrace, ExitLateP,
     ExitLateEntry, ExitLatePay, ExitLateV, ExitP, ExitClear, ExitCount,
     ExitFree, ExitV, ExitReply, ExitLed
<1>4. CASE PayServerStep(p)
  BY <1>4 DEF PayServerStep, PayP, PayScan, PayQuote, PayStampP, PayStamp,
     PayStampV, PayCashP, PayCashLoad, PayCashStore, PayCashV, PayV
<1> QED
  BY <1>1, <1>2, <1>3, <1>4 DEF Step, ChildStep

\* GuidedToNearest: the slot a car takes is still the nearest free one to its
\* gate when it is taken, because entry() finds and claims it in one critical
\* section.
THEOREM NearestSlot == Spec => GuidedToNearest
<1> DEFINE A == \A i \in Slots : park_space[i] = 0 /\ park_space'[i] = 1 =>
              \E p \in Procs : /\ pc[p] = "e_claim" /\ pc'[p] = "e_plate"
                               /\ Nearest(i, Free(plate[p]), gate[p])
<1>1. IInv /\ [Next]_vars => [A]_vars
  <2> SUFFICES ASSUME IInv, Next, NEW i \in Slots,
                      park_space[i] = 0, park_space'[i] = 1
               PROVE  \E p \in Procs : /\ pc[p] = "e_claim" /\ pc'[p] = "e_plate"
                                       /\ Nearest(i, Free(plate[p]), gate[p])
    BY DEF vars
  <2>1. PICK p \in Procs : Step(p)
    BY DEF Next, Step, Tick, store, spaces
  <2>2. EntryClaim(p)
    <3>1. ~ExitFree(p)
      BY DEF ExitFree, IInv, TypeOK, SharedOK
    <3> QED
      BY <2>1, <3>1, Writers
  <2>3. /\ pc[p] = "e_claim" /\ pc'[p] = "e_plate"
        /\ park_space' = [park_space EXCEPT ![pos[p]] = 1]
    BY <2>2 DEF EntryClaim, Go, IInv, TypeOK, LocalOK
  <2>4. i = pos[p]
    BY <2>3 DEF IInv, TypeOK, SharedOK
  <2>5. Nearest(pos[p], Free(plate[p]), gate[p])
    BY <2>3 DEF IInv, TablesAgree
  <2> QED
    BY <2>3, <2>4, <2>5
<1>2. Spec => [][A]_vars
  BY <1>1, Invariance, PTL DEF Spec
<1> QED
  BY <1>2 DEF GuidedToNearest

\* The two modules number the slots alike.
LEMMA SlotNames ==
  /\ Slots = 0 .. NumElec + NumFuel - 1
  /\ \A c : SlotsOf(c) = Lot!RowFor(c)
<1>1. NumSpaces = NumElec + NumFuel
  BY DEF NumSpaces
<1>2. NumSpaces - 1 = NumElec + NumFuel - 1
  BY <1>1, SizeAssumption
<1>3. Slots = 0 .. NumElec + NumFuel - 1
  BY <1>2 DEF Slots
<1>4. ASSUME NEW c PROVE SlotsOf(c) = Lot!RowFor(c)
  BY <1>2 DEF SlotsOf, IsElec, Lot!RowFor
<1> QED
  BY <1>3, <1>4

\* ImplementsLot: the table car[] implements the lot of ParkingLot.  A step
\* parks one car in a free slot of its row, frees one slot, or changes none.
THEOREM Refinement == Spec => ImplementsLot
<1>1. Init => Lot!Init
  BY SlotNames DEF Init, Lot!Init
<1>2. IInv /\ [Next]_vars => [Lot!Next]_licence_plate
  <2> SUFFICES ASSUME IInv, Next PROVE [Lot!Next]_licence_plate
    BY DEF vars, store, table
  <2>1. CASE Tick
    BY <2>1 DEF Tick, store, table
  <2>2. ASSUME NEW p \in Procs, EntryPlate(p) PROVE Lot!Next
    <3>1. /\ pc[p] = "e_plate"
          /\ licence_plate' = [licence_plate EXCEPT ![pos[p]] = plate[p]]
      BY <2>2 DEF EntryPlate, Go
    <3>2. /\ plate[p] \in Plates
          /\ pos[p] \in SlotsOf(plate[p])
          /\ licence_plate[pos[p]] = NoPlate
      BY <3>1 DEF IInv, PosInRange, ClaimLabels, TablesAgree
    <3>3. Lot!Park(plate[p], pos[p])
      BY <3>1, <3>2, SlotNames DEF Lot!Park
    <3>4. pos[p] \in 0 .. NumElec + NumFuel - 1
      BY <3>2, SlotsOfSlots, SlotNames
    <3> QED
      BY <3>2, <3>3, <3>4 DEF Lot!Next, Plates
  <2>3. ASSUME NEW p \in Procs, ExitClear(p) PROVE [Lot!Next]_licence_plate
    <3>1. /\ pos[p] \in 0 .. NumElec + NumFuel - 1
          /\ licence_plate' = [licence_plate EXCEPT ![pos[p]] = NoPlate]
      BY <2>3, SlotNames DEF ExitClear, Go, IInv, PosInRange, FoundLabels
    <3>2. CASE licence_plate[pos[p]] = NoPlate
      <4>1. licence_plate' = licence_plate
        BY <3>1, <3>2 DEF IInv, TypeOK, SharedOK
      <4> QED
        BY <4>1
    <3>3. CASE licence_plate[pos[p]] # NoPlate
      BY <3>1, <3>3 DEF Lot!Leave, Lot!Next
    <3> QED
      BY <3>2, <3>3
  <2>4. ASSUME NEW p \in Procs, Step(p) PROVE [Lot!Next]_licence_plate
    BY <2>2, <2>3, <2>4, Writers
  <2> QED
    BY <2>1, <2>4 DEF Next, Step
<1>3. Spec => Lot!Spec
  BY <1>1, <1>2, Invariance, PTL DEF Spec, Lot!Spec
<1> QED
  BY <1>3 DEF ImplementsLot

-----------------------------------------------------------------------------
(* The display.  Both handlers write the LED of their slot after they have *)
(* given sem_mutex back.  README:92 is right of every behaviour in which a *)
(* slot is neither taken nor released while a LED write is outstanding.    *)

LedEntry == {"e_plate", "e_times", "e_V", "e_led"}
LedExit == {"x_V", "x_reply", "x_led"}
LedDue(p) == pc[p] \in LedEntry \cup LedExit

LedsInTurn ==
    \A p \in Procs : LedDue(p) => park_space'[pos[p]] = park_space[pos[p]]

\* A LED that is wrong is one that some child has still to write, and what it
\* will write is right.
LedOK ==
    /\ \A p \in Procs : /\ pc[p] \in LedEntry => park_space[pos[p]] = 1
                        /\ pc[p] \in LedExit => park_space[pos[p]] = 0
    /\ \A i \in Slots :
          led[i] = 1 - park_space[i] \/ \E p \in Procs : LedDue(p) /\ pos[p] = i

\* Which steps make a LED write due, and which do it.
LEMMA LedMoves ==
  ASSUME TypeOK, NEW p \in Procs, Step(p)
  PROVE  \/ EntryClaim(p) \/ ExitFree(p) \/ EntryLed(p) \/ ExitLed(p)
         \/ /\ UNCHANGED <<park_space, led>>
            /\ pc'[p] \in LedEntry <=> pc[p] \in LedEntry
            /\ pc'[p] \in LedExit <=> pc[p] \in LedExit
            /\ LedDue(p) => pos'[p] = pos[p]
<1> USE DEF Go, Return, Forget, Die, LedDue, LedEntry, LedExit, store, spaces, rest,
    locals, scratch
<1>0. pc \in [Procs -> Labels] /\ pos \in [Procs -> Slots \cup {-1}]
  BY DEF TypeOK, LocalOK
<1>1. CASE Connect(p)
  BY <1>0, <1>1 DEF Connect, AcceptEntry, AcceptExit, AcceptPay, Accept
<1>2. CASE ChildExit(p)
  BY <1>0, <1>2 DEF ChildExit
<1>3. CASE Customer(p)
  BY <1>0, <1>3 DEF Customer, PayReceive, PayHangup
<1>4. CASE EntryStep(p)
  BY <1>0, <1>4 DEF EntryStep, EntryScan, EntryP, EntryFind, EntryFull, EntryPlate,
     EntryTimes, EntryV, EntryReply
<1>5. CASE ExitStep(p)
  BY <1>0, <1>5 DEF ExitStep, ExitScan, ExitFind, ExitPaid, ExitGrace, ExitLateP,
     ExitLateEntry, ExitLatePay, ExitLateV, ExitP, ExitClear, ExitCount, ExitV, ExitReply
<1>6. CASE PayServerStep(p)
  BY <1>0, <1>6 DEF PayServerStep, PayP, PayScan, PayQuote, PayStampP, PayStamp,
     PayStampV, PayCashP, PayCashLoad, PayCashStore, PayCashV, PayV
<1> QED
  BY <1>1, <1>2, <1>3, <1>4, <1>5, <1>6 DEF Step, ChildStep

\* Every step that leaves the slots of outstanding LED writes alone keeps LedOK.
LEMMA StepLed ==
  ASSUME IInv, LedOK, NEW p \in Procs, Step(p), LedsInTurn
  PROVE  LedOK'
<1>1. /\ TypeOK /\ led \in [Slots -> {0, 1}] /\ park_space \in [Slots -> {0, 1}]
      /\ pc \in [Procs -> Labels] /\ pos \in [Procs -> Slots \cup {-1}]
  BY DEF IInv, TypeOK, SharedOK, LocalOK
<1>2. \A q \in Procs \ {p} : pc'[q] = pc[q] /\ pos'[q] = pos[q]
  BY <1>1, OthersStill DEF Still
<1>3. ASSUME NEW q \in Procs \ {p}
      PROVE  /\ pc'[q] \in LedEntry => park_space'[pos'[q]] = 1
             /\ pc'[q] \in LedExit => park_space'[pos'[q]] = 0
  BY <1>2 DEF LedOK, LedsInTurn, LedDue
<1>4. CASE EntryClaim(p) \/ ExitFree(p)
  <2> DEFINE i == pos[p]
             n == IF pc[p] = "e_claim" THEN 1 ELSE 0
  <2>1. /\ i \in Slots /\ led' = led /\ pos' = pos
        /\ park_space' = [park_space EXCEPT ![i] = n]
        /\ pc' = [pc EXCEPT ![p] = IF n = 1 THEN "e_plate" ELSE "x_V"]
    BY <1>4, SlotsOfSlots DEF EntryClaim, ExitFree, Go, IInv, PosInRange, ClaimLabels,
       FoundLabels, rest, locals
  <2>2. /\ pc'[p] \in LedEntry => park_space'[pos'[p]] = 1
        /\ pc'[p] \in LedExit => park_space'[pos'[p]] = 0
    BY <1>1, <2>1 DEF LedEntry, LedExit
  <2>3. LedDue(p)'
    BY <1>1, <2>1 DEF LedDue, LedEntry, LedExit
  <2> HIDE DEF n
  <2>4. ASSUME NEW j \in Slots
        PROVE  led'[j] = 1 - park_space'[j] \/ \E q \in Procs : LedDue(q)' /\ pos'[q] = j
    <3>1. CASE j = i
      BY <2>1, <2>3, <3>1
    <3>2. CASE j # i
      <4>1. led'[j] = led[j] /\ park_space'[j] = park_space[j]
        BY <1>1, <2>1, <3>2
      <4>2. \A q \in Procs : LedDue(q) /\ pos[q] = j => LedDue(q)' /\ pos'[q] = j
        BY <1>2, <2>1, <3>2 DEF LedDue
      <4> QED
        BY <4>1, <4>2 DEF LedOK
    <3> QED
      BY <3>1, <3>2
  <2> QED
    BY <1>3, <2>2, <2>4 DEF LedOK
<1>5. CASE EntryLed(p) \/ ExitLed(p)
  <2> DEFINE i == pos[p]
             n == IF pc[p] = "e_led" THEN 0 ELSE 1
  <2>1. /\ i \in Slots /\ led' = [led EXCEPT ![i] = n] /\ park_space' = park_space
        /\ pc[p] = (IF n = 0 THEN "e_led" ELSE "x_led") /\ pc'[p] \in {"e_reply", "done"}
    BY <1>1, <1>5, SlotsOfSlots DEF EntryLed, ExitLed, Return, Go, IInv, PosInRange,
       ClaimLabels, FoundLabels, store, spaces
  <2>2. n = 1 - park_space[i]
    BY <2>1 DEF LedOK, LedEntry, LedExit
  <2>3. pc'[p] \notin LedEntry /\ pc'[p] \notin LedExit
    BY <2>1 DEF LedEntry, LedExit
  <2> HIDE DEF n
  <2>4. ASSUME NEW j \in Slots
        PROVE  led'[j] = 1 - park_space'[j] \/ \E q \in Procs : LedDue(q)' /\ pos'[q] = j
    <3>1. CASE j = i
      BY <1>1, <2>1, <2>2, <3>1
    <3>2. CASE j # i
      <4>1. led'[j] = led[j] /\ park_space'[j] = park_space[j]
        BY <1>1, <2>1, <3>2
      <4>2. \A q \in Procs : LedDue(q) /\ pos[q] = j => LedDue(q)' /\ pos'[q] = j
        BY <1>2, <3>2 DEF LedDue
      <4> QED
        BY <4>1, <4>2 DEF LedOK
    <3> QED
      BY <3>1, <3>2
  <2> QED
    BY <1>3, <2>3, <2>4 DEF LedOK
<1>6. CASE /\ UNCHANGED <<park_space, led>>
           /\ pc'[p] \in LedEntry <=> pc[p] \in LedEntry
           /\ pc'[p] \in LedExit <=> pc[p] \in LedExit
           /\ LedDue(p) => pos'[p] = pos[p]
  <2>1. /\ pc'[p] \in LedEntry => park_space'[pos'[p]] = 1
        /\ pc'[p] \in LedExit => park_space'[pos'[p]] = 0
    BY <1>6 DEF LedOK, LedDue
  <2>2. \A q \in Procs : LedDue(q) => LedDue(q)' /\ pos'[q] = pos[q]
    BY <1>2, <1>6 DEF LedDue
  <2>3. ASSUME NEW j \in Slots
        PROVE  led'[j] = 1 - park_space'[j] \/ \E q \in Procs : LedDue(q)' /\ pos'[q] = j
    BY <1>6, <2>2 DEF LedOK
  <2> QED
    BY <1>3, <2>1, <2>3 DEF LedOK
<1> QED
  BY <1>1, <1>4, <1>5, <1>6, LedMoves

\* If no slot changes hands while a child has its LED still to write, the
\* display is right whenever the children have finished: LED writes that
\* overtake each other are the only way in which it goes wrong.
THEOREM LedsRightInTurn == Spec /\ [][LedsInTurn]_vars => []LedShowsOccupancy
<1>1. Init => LedOK
  BY DEF Init, LedOK, LedEntry, LedExit
<1>2. IInv /\ LedOK /\ [Next]_vars /\ [LedsInTurn]_vars => LedOK'
  <2> SUFFICES ASSUME IInv, LedOK, [Next]_vars, [LedsInTurn]_vars PROVE LedOK'
    OBVIOUS
  <2>1. CASE UNCHANGED <<store, led, pc, locals>>
    BY <2>1 DEF LedOK, LedDue, store, spaces, locals
  <2>2. ASSUME NEW p \in Procs, Step(p), LedsInTurn PROVE LedOK'
    BY <2>2, StepLed
  <2> QED
    BY <2>1, <2>2 DEF Next, Step, Tick, vars
<1>3. LedOK => LedShowsOccupancy
  BY DEF LedOK, LedShowsOccupancy, LedDue, LedEntry, LedExit
<1> QED
  BY <1>1, <1>2, <1>3, Invariance, PTL DEF Spec

=============================================================================
