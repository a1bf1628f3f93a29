---------------------------- MODULE ParkingServer ----------------------------
(***************************************************************************)
(* The parking lot server, FinalProject/server.c.                          *)
(*                                                                         *)
(* main() forks one child per connection; a child runs entry(),            *)
(* exitpark() or payment() and exits.  The children share, in System V     *)
(* shared memory, the table car[], the occupancy array park_space[], the   *)
(* counters space_left[] and *cash, and two System V semaphores.  They     *)
(* scan the table without a lock and write it under sem_mutex, so every    *)
(* shared access that another child can tell apart is a step of its own.   *)
(*                                                                         *)
(* The struct CAR of slot i is licence_plate[i], entry_t[i], pay_t[i] and  *)
(* elec[i]; its field pos always holds i and is left out.                  *)
(*                                                                         *)
(* An operator marked "Mutant" is no part of the model: it is the action   *)
(* after it with a bug, which one of the properties has to detect.         *)
(***************************************************************************)
EXTENDS Integers, FiniteSetsExt

CONSTANTS
    Procs,          \* the slots for concurrently running children (a bound)
    ElecPlates,     \* plates that start with 'E'
    FuelPlates,     \* all the other plates
    NoPlate,        \* the empty string of a free slot
    NumElec,        \* slots 0..NumElec-1 are for electric cars (8)
    NumFuel,        \* the next NumFuel slots are for fuel cars (8)
    PayStations,    \* initial value of sem_counting (2)
    Grace,          \* seconds a paid car has to leave (25)
    Period,         \* seconds per charging period (30)
    RateElec,       \* fee per period, electric (30)
    RateFuel,       \* fee per period, fuel (20)
    StartTime,      \* time(NULL) when the server starts
    MaxTime,        \* bound on the clock
    CashWidth,      \* *cash is an int: arithmetic modulo CashWidth (2^32)
    Hangups         \* whether customers may disconnect at the pay station

Plates == ElecPlates \cup FuelPlates
NumSpaces == NumElec + NumFuel
Slots == 0 .. NumSpaces - 1
Gates == {1, 2}

ASSUME PlatesAssumption ==
    /\ ElecPlates \cap FuelPlates = {}
    /\ NoPlate \notin Plates

ASSUME SizeAssumption ==
    /\ IsFiniteSet(Procs)
    /\ NumElec \in Nat
    /\ NumFuel \in Nat
    /\ PayStations \in Nat \ {0}
    /\ Hangups \in BOOLEAN

\* StartTime is a real date: -1, the "never" of pay_t, is long past the grace.
ASSUME TimeAssumption ==
    /\ Grace \in Nat
    /\ Period \in Nat \ {0}
    /\ StartTime \in Nat /\ StartTime + 1 > Grace /\ StartTime > 0
    /\ MaxTime \in Nat /\ MaxTime >= StartTime
    /\ RateElec \in Nat \ {0}
    /\ RateFuel \in Nat \ {0}
    /\ CashWidth \in Nat \ {0}

VARIABLES
    \* shared memory, semaphores, driver and clock
    licence_plate, entry_t, pay_t, elec,    \* struct CAR car[16]
    park_space,     \* 1 when a slot is taken
    space_left,     \* [0]: free fuel slots, [1]: free electric slots
    cash,
    sem_mutex, sem_counting,
    led,            \* last value written to /dev/etx_device for each slot
    now,            \* time(NULL)
    \* per child
    pc, plate, gate,
    pos,            \* pos of entry() and exitpark(), i of payment()
    t, fee,         \* locals of payment()
    reg,            \* the register of *cash += fee
    reply,          \* the answer sent on the connection
    \* history, read by no action's guard
    mutexLost,      \* a child died inside sem_mutex
    permitsLost,    \* children that died inside sem_counting
    received        \* money handed over by customers, modulo CashWidth

table  == <<licence_plate, entry_t, pay_t, elec>>
spaces == <<park_space, space_left>>
scratch == <<plate, gate, t, fee, reg>>
locals == <<scratch, pos, reply>>
lost   == <<mutexLost, permitsLost>>
rest   == <<led, now, lost>>
money  == <<cash, received>>

store  == <<table, spaces, money>>
sems   == <<sem_mutex, sem_counting>>

vars == <<store, sems, led, now, pc, locals, lost>>

-----------------------------------------------------------------------------
(* Helpers.                                                                *)

P(s) == s > 0 /\ s' = s - 1
V(s) == s' = s + 1

IsElec(c) == c \in ElecPlates
Class(c) == IF IsElec(c) THEN 1 ELSE 0          \* index into space_left
SlotsOf(c) == IF IsElec(c) THEN 0 .. NumElec - 1
                           ELSE NumElec .. NumSpaces - 1

\* The scan for a plate stops at the first slot that holds it.
Missing(c) == \A i \in Slots : licence_plate[i] # c
First(c, i) == /\ licence_plate[i] = c
               /\ \A j \in Slots : licence_plate[j] = c => i <= j

\* Gate 1 is at the low end of a row of slots, gate 2 at the high end.
Free(c) == {i \in SlotsOf(c) : park_space[i] = 0}
Nearest(i, S, g) == i \in S /\ \A j \in S : IF g = 1 THEN i <= j ELSE i >= j

FeeFor(i) ==
    (IF elec[i] # 0 THEN RateElec ELSE RateFuel)
        * ((now - entry_t[i]) \div Period + 1)

\* Child p moves from control point a to control point b.
Go(p, a, b) == pc[p] = a /\ pc' = [pc EXCEPT ![p] = b]

Answer(p, msg) == reply' = [reply EXCEPT ![p] = msg]

-----------------------------------------------------------------------------
Init ==
    /\ licence_plate = [i \in Slots |-> NoPlate]
    /\ entry_t = [i \in Slots |-> 0]
    /\ pay_t = [i \in Slots |-> 0]
    /\ elec = [i \in Slots |-> 0]
    /\ park_space = [i \in Slots |-> 0]
    /\ space_left = [k \in {0, 1} |-> IF k = 1 THEN NumElec ELSE NumFuel]
    /\ cash = 0
    /\ sem_mutex = 1
    /\ sem_counting = PayStations
    /\ led = [i \in Slots |-> 1]
    /\ now = StartTime
    /\ pc = [p \in Procs |-> "idle"]
    /\ plate = [p \in Procs |-> NoPlate]
    /\ gate = [p \in Procs |-> 1]
    /\ pos = [p \in Procs |-> -1]
    /\ t = [p \in Procs |-> 0]
    /\ fee = [p \in Procs |-> 0]
    /\ reg = [p \in Procs |-> 0]
    /\ reply = [p \in Procs |-> "none"]
    /\ mutexLost = FALSE
    /\ permitsLost = 0
    /\ received = 0

Tick ==
    /\ now < MaxTime
    /\ now' = now + 1
    /\ UNCHANGED <<store, sems, led, pc, locals, lost>>

-----------------------------------------------------------------------------
(* main(): accept, recv, fork; the child dispatches on the method.         *)

Accept(p, start, g, c) ==
    /\ Go(p, "idle", start)
    /\ plate' = [plate EXCEPT ![p] = c]
    /\ gate' = [gate EXCEPT ![p] = g]
    /\ UNCHANGED <<store, sems, rest, pos, t, fee, reg, reply>>

AcceptEntry(p, g, c) == Accept(p, "e_scan", g, c)
AcceptExit(p, c) == Accept(p, "x_scan", 1, c)
AcceptPay(p, c) == Accept(p, "p_P", 1, c)

\* The handler has returned: its locals are dead and forgotten.
Forget(p) ==
    /\ plate' = [plate EXCEPT ![p] = NoPlate]
    /\ gate' = [gate EXCEPT ![p] = 1]
    /\ pos' = [pos EXCEPT ![p] = -1]
    /\ t' = [t EXCEPT ![p] = 0]
    /\ fee' = [fee EXCEPT ![p] = 0]
    /\ reg' = [reg EXCEPT ![p] = 0]
Return(p, a) == Go(p, a, "done") /\ Forget(p)

\* A signal kills the child; its slot can serve the next connection.
Die(p, a) == Go(p, a, "idle") /\ Forget(p) /\ UNCHANGED reply

ChildExit(p) ==
    /\ Go(p, "done", "idle")
    /\ Answer(p, "none")
    /\ UNCHANGED <<store, sems, rest, scratch, pos>>

-----------------------------------------------------------------------------
(* entry(): refuse a plate that is already in the table, then under the    *)
(* mutex take the free slot nearest to the gate.                           *)

\* Mutant: a plate that is in the table already is let in again.
EntryScan_Any(p) ==
    /\ Go(p, "e_scan", "e_P")
    /\ UNCHANGED <<store, sems, rest, locals>>

EntryScan(p) ==
    /\ \/ /\ ~Missing(plate[p])
          /\ Return(p, "e_scan")
          /\ Answer(p, "already parked")
       \/ /\ Missing(plate[p])
          /\ Go(p, "e_scan", "e_P")
          /\ UNCHANGED locals
    /\ UNCHANGED <<store, sems, rest>>

\* Mutant: the slot is looked for without the mutex.
EntryP_NoP(p) ==
    /\ Go(p, "e_P", "e_find")
    /\ UNCHANGED <<store, sems, rest, locals>>

EntryP(p) ==
    /\ Go(p, "e_P", "e_find")
    /\ P(sem_mutex)
    /\ UNCHANGED <<store, sem_counting, rest, locals>>

EntryFind(p) ==
    /\ \/ /\ Go(p, "e_find", "e_claim")
          /\ \E i \in Slots : /\ Nearest(i, Free(plate[p]), gate[p])
                             /\ pos' = [pos EXCEPT ![p] = i]
       \/ /\ Free(plate[p]) = {}
          /\ Go(p, "e_find", "e_full")
          /\ UNCHANGED pos
    /\ UNCHANGED <<store, sems, rest, scratch, reply>>

\* Mutant: the refusal of a car returns without V(sem_mutex).
EntryFull_NoV(p) ==
    /\ Return(p, "e_full")
    /\ Answer(p, "No space")
    /\ UNCHANGED <<store, sems, rest>>

EntryFull(p) ==
    /\ Return(p, "e_full")
    /\ V(sem_mutex)
    /\ Answer(p, "No space")
    /\ UNCHANGED <<store, sem_counting, rest>>

\* Mutant: elec keeps the value of the car before.
EntryClaim_NoElec(p) ==
    /\ Go(p, "e_claim", "e_plate")
    /\ park_space' = [park_space EXCEPT ![pos[p]] = 1]
    /\ space_left' = [space_left EXCEPT ![Class(plate[p])] = @ - 1]
    /\ UNCHANGED <<table, money, sems, rest, locals>>

EntryClaim(p) ==
    /\ Go(p, "e_claim", "e_plate")
    /\ park_space' = [park_space EXCEPT ![pos[p]] = 1]
    /\ space_left' = [space_left EXCEPT ![Class(plate[p])] = @ - 1]
    /\ elec' = [elec EXCEPT ![pos[p]] = Class(plate[p])]
    /\ UNCHANGED <<licence_plate, entry_t, pay_t, money, sems, rest, locals>>

EntryPlate(p) ==
    /\ Go(p, "e_plate", "e_times")
    /\ licence_plate' = [licence_plate EXCEPT ![pos[p]] = plate[p]]
    /\ UNCHANGED <<entry_t, pay_t, elec, spaces, money, sems, rest, locals>>

EntryTimes(p) ==
    /\ Go(p, "e_times", "e_V")
    /\ entry_t' = [entry_t EXCEPT ![pos[p]] = now]
    /\ pay_t' = [pay_t EXCEPT ![pos[p]] = 0]
    /\ UNCHANGED <<licence_plate, elec, spaces, money, sems, rest, locals>>

EntryV(p) ==
    /\ Go(p, "e_V", "e_led")
    /\ V(sem_mutex)
    /\ UNCHANGED <<store, sem_counting, rest, locals>>

EntryLed(p) ==
    /\ Go(p, "e_led", "e_reply")
    /\ led' = [led EXCEPT ![pos[p]] = 0]
    /\ UNCHANGED <<store, sems, now, locals, lost>>

EntryReply(p) ==
    /\ Return(p, "e_reply")
    /\ Answer(p, "Entry Success")
    /\ UNCHANGED <<store, sems, rest>>

EntryStep(p) ==
    \/ EntryScan(p) \/ EntryP(p) \/ EntryFind(p) \/ EntryFull(p)
    \/ EntryClaim(p) \/ EntryPlate(p) \/ EntryTimes(p) \/ EntryV(p)
    \/ EntryLed(p) \/ EntryReply(p)

-----------------------------------------------------------------------------
(* exitpark(): both scans and the reads of pay_t are outside the mutex.    *)

ExitScan(p) ==
    /\ \/ /\ Missing(plate[p])
          /\ Return(p, "x_scan")
          /\ Answer(p, "Car doesn't exist")
       \/ /\ ~Missing(plate[p])
          /\ Go(p, "x_scan", "x_find")
          /\ UNCHANGED locals
    /\ UNCHANGED <<store, sems, rest>>

\* Mutant: the second scan stops before the last slot.
ExitFind_OffByOne(p) ==
    /\ Go(p, "x_find", "x_paid")
    /\ \/ \E i \in Slots : /\ First(plate[p], i) /\ i # NumSpaces - 1
                          /\ pos' = [pos EXCEPT ![p] = i]
       \/ /\ \A i \in Slots \ {NumSpaces - 1} : licence_plate[i] # plate[p]
          /\ pos' = [pos EXCEPT ![p] = -1]
    /\ UNCHANGED <<store, sems, rest, scratch, reply>>

\* The second scan; -1 when the plate has gone since the first.
ExitFind(p) ==
    /\ Go(p, "x_find", "x_paid")
    /\ \/ \E i \in Slots : /\ First(plate[p], i)
                          /\ pos' = [pos EXCEPT ![p] = i]
       \/ Missing(plate[p]) /\ pos' = [pos EXCEPT ![p] = -1]
    /\ UNCHANGED <<store, sems, rest, scratch, reply>>

\* car[-1] lies below the segment: the read faults or finds zero bytes.
ExitPaid(p) ==
    /\ \/ /\ Return(p, "x_paid")
          /\ pos[p] # -1 => pay_t[pos[p]] = 0
          /\ Answer(p, "Exit Failed, Please pay")
       \/ /\ Go(p, "x_paid", "x_grace")
          /\ pos[p] # -1 /\ pay_t[pos[p]] # 0
          /\ UNCHANGED locals
       \/ /\ Die(p, "x_paid")
          /\ pos[p] = -1
    /\ UNCHANGED <<store, sems, rest>>

ExitGrace(p) ==
    /\ \/ Go(p, "x_grace", "x_lateP") /\ now - pay_t[pos[p]] > Grace
       \/ Go(p, "x_grace", "x_P") /\ now - pay_t[pos[p]] <= Grace
    /\ UNCHANGED <<store, sems, rest, locals>>

ExitLateP(p) ==
    /\ Go(p, "x_lateP", "x_lateE")
    /\ P(sem_mutex)
    /\ UNCHANGED <<store, sem_counting, rest, locals>>

ExitLateEntry(p) ==
    /\ Go(p, "x_lateE", "x_lateT")
    /\ entry_t' = [entry_t EXCEPT ![pos[p]] = pay_t[pos[p]]]
    /\ UNCHANGED <<licence_plate, pay_t, elec, spaces, money, sems, rest,
                   locals>>

ExitLatePay(p) ==
    /\ Go(p, "x_lateT", "x_lateV")
    /\ pay_t' = [pay_t EXCEPT ![pos[p]] = -1]
    /\ UNCHANGED <<licence_plate, entry_t, elec, spaces, money, sems, rest,
                   locals>>

ExitLateV(p) ==
    /\ Return(p, "x_lateV")
    /\ V(sem_mutex)
    /\ Answer(p, "Exit Failed, Please Repay")
    /\ UNCHANGED <<store, sem_counting, rest>>

\* Mutant: the car is told to go before its slot is cleared.
ExitP_AnswerFirst(p) ==
    /\ Go(p, "x_P", "x_clear")
    /\ P(sem_mutex)
    /\ Answer(p, "Exit Success")
    /\ UNCHANGED <<store, sem_counting, rest, scratch, pos>>

ExitP(p) ==
    /\ Go(p, "x_P", "x_clear")
    /\ P(sem_mutex)
    /\ UNCHANGED <<store, sem_counting, rest, locals>>

\* Mutant: the times are reset and the plate is not.
ExitClear_KeepPlate(p) ==
    /\ Go(p, "x_clear", "x_count")
    /\ entry_t' = [entry_t EXCEPT ![pos[p]] = -1]
    /\ pay_t' = [pay_t EXCEPT ![pos[p]] = -1]
    /\ UNCHANGED <<licence_plate, elec, spaces, money, sems, rest, locals>>

ExitClear(p) ==
    /\ Go(p, "x_clear", "x_count")
    /\ licence_plate' = [licence_plate EXCEPT ![pos[p]] = NoPlate]
    /\ entry_t' = [entry_t EXCEPT ![pos[p]] = -1]
    /\ pay_t' = [pay_t EXCEPT ![pos[p]] = -1]
    /\ UNCHANGED <<elec, spaces, money, sems, rest, locals>>

\* Mutant: elec is not reset, so a second exit counts the slot again.
ExitCount_KeepElec(p) ==
    /\ Go(p, "x_count", "x_free")
    /\ space_left' = [space_left EXCEPT ![elec[pos[p]]] = @ + 1]
    /\ UNCHANGED <<table, park_space, money, sems, rest, locals>>

\* elec is -1 when another exit has cleared the slot: space_left[-1]++ faults
\* inside the critical section, or increments a word nobody uses.
ExitCount(p) ==
    /\ \/ /\ Go(p, "x_count", "x_free")
          /\ space_left' = IF elec[pos[p]] = -1 THEN space_left
                           ELSE [space_left EXCEPT ![elec[pos[p]]] = @ + 1]
          /\ elec' = [elec EXCEPT ![pos[p]] = -1]
          /\ UNCHANGED <<locals, mutexLost>>
       \/ /\ Die(p, "x_count")
          /\ elec[pos[p]] = -1
          /\ mutexLost' = TRUE
          /\ UNCHANGED <<elec, space_left>>
    /\ UNCHANGED <<licence_plate, entry_t, pay_t, park_space, money, sems, led,
                   now, permitsLost>>

\* Mutant: the slot is never released.
ExitFree_Taken(p) ==
    /\ Go(p, "x_free", "x_V")
    /\ UNCHANGED <<store, sems, rest, locals>>

ExitFree(p) ==
    /\ Go(p, "x_free", "x_V")
    /\ park_space' = [park_space EXCEPT ![pos[p]] = 0]
    /\ UNCHANGED <<table, space_left, money, sems, rest, locals>>

ExitV(p) ==
    /\ Go(p, "x_V", "x_reply")
    /\ V(sem_mutex)
    /\ UNCHANGED <<store, sem_counting, rest, locals>>

ExitReply(p) ==
    /\ Go(p, "x_reply", "x_led")
    /\ Answer(p, "Exit Success")
    /\ UNCHANGED <<store, sems, rest, scratch, pos>>

ExitLed(p) ==
    /\ Return(p, "x_led")
    /\ led' = [led EXCEPT ![pos[p]] = 1]
    /\ UNCHANGED <<store, sems, now, lost, reply>>

ExitStep(p) ==
    \/ ExitScan(p) \/ ExitFind(p) \/ ExitPaid(p) \/ ExitGrace(p)
    \/ ExitLateP(p) \/ ExitLateEntry(p) \/ ExitLatePay(p) \/ ExitLateV(p)
    \/ ExitP(p) \/ ExitClear(p) \/ ExitCount(p) \/ ExitFree(p) \/ ExitV(p)
    \/ ExitReply(p) \/ ExitLed(p)

-----------------------------------------------------------------------------
(* payment(): at most PayStations customers at a time; the index found by  *)
(* the scan is used again after the customer has paid.                     *)

PayP(p) ==
    /\ Go(p, "p_P", "p_scan")
    /\ P(sem_counting)
    /\ UNCHANGED <<store, sem_mutex, rest, locals>>

\* Mutant: "Cannot find your car" returns without V(sem_counting).
PayScan_NoV(p) ==
    /\ \/ /\ Missing(plate[p])
          /\ Return(p, "p_scan")
          /\ Answer(p, "Cannot find your car")
       \/ /\ Go(p, "p_scan", "p_quote")
          /\ \E i \in Slots : /\ First(plate[p], i)
                             /\ pos' = [pos EXCEPT ![p] = i]
          /\ UNCHANGED <<scratch, reply>>
    /\ UNCHANGED <<store, sems, rest>>

PayScan(p) ==
    /\ \/ /\ Missing(plate[p])
          /\ Go(p, "p_scan", "p_V")
          /\ Answer(p, "Cannot find your car")
          /\ UNCHANGED pos
       \/ /\ Go(p, "p_scan", "p_quote")
          /\ \E i \in Slots : /\ First(plate[p], i)
                             /\ pos' = [pos EXCEPT ![p] = i]
          /\ UNCHANGED reply
    /\ UNCHANGED <<store, sems, rest, scratch>>

\* The car counts as paid from here on, before any money is received.
PayQuote(p) ==
    /\ Go(p, "p_quote", "p_wait")
    /\ t' = [t EXCEPT ![p] = now]
    /\ fee' = [fee EXCEPT ![p] = FeeFor(pos[p])]
    /\ pay_t' = [pay_t EXCEPT ![pos[p]] = now]
    /\ UNCHANGED <<licence_plate, entry_t, elec, spaces, money, sems, rest,
                   plate, gate, pos, reg, reply>>

\* The customer sends the fee (a wrong amount is asked for again: no change).
PayReceive(p) ==
    /\ Go(p, "p_wait", "p_stampP")
    /\ received' = (received + fee[p]) % CashWidth
    /\ UNCHANGED <<table, spaces, cash, sems, rest, locals>>

\* The customer disconnects: the write of "Wrong Amount" raises SIGPIPE.
PayHangup(p) ==
    /\ Hangups
    /\ Die(p, "p_wait")
    /\ permitsLost' = permitsLost + 1
    /\ UNCHANGED <<store, sems, led, now, mutexLost>>

PayStampP(p) ==
    /\ Go(p, "p_stampP", "p_stamp")
    /\ P(sem_mutex)
    /\ UNCHANGED <<store, sem_counting, rest, locals>>

PayStamp(p) ==
    /\ Go(p, "p_stamp", "p_stampV")
    /\ pay_t' = [pay_t EXCEPT ![pos[p]] = t[p]]
    /\ UNCHANGED <<licence_plate, entry_t, elec, spaces, money, sems, rest,
                   locals>>

\* Mutant: the mutex is kept between the two critical sections.
PayStampV_NoV(p) ==
    /\ Go(p, "p_stampV", "p_cashP")
    /\ UNCHANGED <<store, sems, rest, locals>>

PayStampV(p) ==
    /\ Go(p, "p_stampV", "p_cashP")
    /\ V(sem_mutex)
    /\ UNCHANGED <<store, sem_counting, rest, locals>>

\* Mutant: *cash += fee without the mutex.
PayCashP_NoP(p) ==
    /\ Go(p, "p_cashP", "p_load")
    /\ UNCHANGED <<store, sems, rest, locals>>

PayCashP(p) ==
    /\ Go(p, "p_cashP", "p_load")
    /\ P(sem_mutex)
    /\ UNCHANGED <<store, sem_counting, rest, locals>>

PayCashLoad(p) ==
    /\ Go(p, "p_load", "p_store")
    /\ reg' = [reg EXCEPT ![p] = cash]
    /\ UNCHANGED <<store, sems, rest, plate, gate, pos, t, fee, reply>>

PayCashStore(p) ==
    /\ Go(p, "p_store", "p_cashV")
    /\ cash' = (reg[p] + fee[p]) % CashWidth
    /\ UNCHANGED <<table, spaces, received, sems, rest, locals>>

PayCashV(p) ==
    /\ Go(p, "p_cashV", "p_V")
    /\ V(sem_mutex)
    /\ Answer(p, "Payment Success")
    /\ UNCHANGED <<store, sem_counting, rest, scratch, pos>>

PayV(p) ==
    /\ Return(p, "p_V")
    /\ V(sem_counting)
    /\ UNCHANGED <<store, sem_mutex, rest, reply>>

\* Every step of payment() but the customer's.
PayServerStep(p) ==
    \/ PayP(p) \/ PayScan(p) \/ PayQuote(p)
    \/ PayStampP(p) \/ PayStamp(p) \/ PayStampV(p)
    \/ PayCashP(p) \/ PayCashLoad(p) \/ PayCashStore(p) \/ PayCashV(p)
    \/ PayV(p)

-----------------------------------------------------------------------------
(* The server with clients that may send any request at any time.          *)

ChildStep(p) == EntryStep(p) \/ ExitStep(p) \/ PayServerStep(p) \/ ChildExit(p)

Connect(p) ==
    \E c \in Plates :
        \/ \E g \in Gates : AcceptEntry(p, g, c)
        \/ AcceptExit(p, c)
        \/ AcceptPay(p, c)

Customer(p) == PayReceive(p) \/ PayHangup(p)

Next == Tick \/ \E p \in Procs : Connect(p) \/ ChildStep(p) \/ Customer(p)

Spec == Init /\ [][Next]_vars

-----------------------------------------------------------------------------
(* Properties.                                                             *)

EntryLabels == {"e_scan", "e_P", "e_find", "e_full", "e_claim", "e_plate",
                "e_times", "e_V", "e_led", "e_reply"}
ExitLabels == {"x_scan", "x_find", "x_paid", "x_grace", "x_lateP", "x_lateE",
               "x_lateT", "x_lateV", "x_P", "x_clear", "x_count", "x_free",
               "x_V", "x_reply", "x_led"}
PayLabels == {"p_P", "p_scan", "p_quote", "p_wait", "p_stampP", "p_stamp",
              "p_stampV", "p_cashP", "p_load", "p_store", "p_cashV", "p_V"}
Labels == {"idle", "done"} \cup EntryLabels \cup ExitLabels \cup PayLabels

Replies == {"none", "already parked", "No space", "Entry Success",
            "Car doesn't exist", "Exit Failed, Please pay",
            "Exit Failed, Please Repay", "Exit Success",
            "Cannot find your car", "Payment Success"}

Money == 0 .. CashWidth - 1

Past == -1 .. now       \* the times time(NULL) can have given, and "never"

SharedOK ==
    /\ licence_plate \in [Slots -> Plates \cup {NoPlate}]
    /\ entry_t \in [Slots -> Past]
    /\ pay_t \in [Slots -> Past]
    /\ elec \in [Slots -> {-1, 0, 1}]
    /\ park_space \in [Slots -> {0, 1}]
    /\ space_left \in [{0, 1} -> Int]
    /\ cash \in Money
    /\ received \in Money
    /\ sem_mutex \in Nat
    /\ sem_counting \in Nat
    /\ led \in [Slots -> {0, 1}]
    /\ now \in StartTime .. MaxTime
    /\ mutexLost \in BOOLEAN
    /\ permitsLost \in Nat

LocalOK ==
    /\ pc \in [Procs -> Labels]
    /\ plate \in [Procs -> Plates \cup {NoPlate}]
    /\ gate \in [Procs -> Gates]
    /\ pos \in [Procs -> Slots \cup {-1}]
    /\ t \in [Procs -> Past]
    /\ fee \in [Procs -> Nat]
    /\ reg \in [Procs -> Money]
    /\ reply \in [Procs -> Replies]

TypeOK == SharedOK /\ LocalOK

\* Control points between P(sem_mutex) and V(sem_mutex).
MutexLabels == {"e_find", "e_full", "e_claim", "e_plate", "e_times", "e_V",
                "x_lateE", "x_lateT", "x_lateV", "x_clear", "x_count",
                "x_free", "x_V", "p_stamp", "p_stampV", "p_load", "p_store",
                "p_cashV"}
InMutex == {p \in Procs : pc[p] \in MutexLabels}

\* Control points between P(sem_counting) and V(sem_counting).
AtStation == {p \in Procs : pc[p] \in PayLabels \ {"p_P"}}

\* sem_mutex is released once on every path of every handler, the refusal
\* paths included: at most one child is ever inside, and the semaphore is free
\* when none is and none has died there.
MutexExact ==
    sem_mutex + Cardinality(InMutex) + (IF mutexLost THEN 1 ELSE 0) = 1

\* The pay stations never serve more customers than sem_counting allows, and a
\* permit is missing only when its child died waiting for the customer.
PermitsExact ==
    sem_counting + Cardinality(AtStation) + permitsLost = PayStations

\* Whenever sem_mutex is free the two tables agree: park_space[i] is set iff
\* car[i] carries a plate, whatever stale positions the exits acted on.
SlotsAgree ==
    sem_mutex = 1 =>
        \A i \in Slots : park_space[i] = 1 <=> licence_plate[i] # NoPlate

RowOf(k) == IF k = 1 THEN 0 .. NumElec - 1 ELSE NumElec .. NumSpaces - 1
FreeIn(k) == {i \in RowOf(k) : park_space[i] = 0}

\* Whenever sem_mutex is free space_left[] counts exactly the free slots of
\* each row: no entry, double exit or eviction makes the counter drift.
SpaceLeftExact ==
    sem_mutex = 1 => \A k \in {0, 1} : space_left[k] = Cardinality(FreeIn(k))

\* A slot goes from free to taken only for the child that claims it, and it is
\* then still the free slot of the car's row nearest to its gate (README:83).
GuidedToNearest ==
    [][\A i \in Slots : park_space[i] = 0 /\ park_space'[i] = 1 =>
          \E p \in Procs : /\ pc[p] = "e_claim" /\ pc'[p] = "e_plate"
                           /\ Nearest(i, Free(plate[p]), gate[p])]_vars

\* The table car[] behaves as the abstract lot: parking is the strcpy of the
\* plate, leaving is its erasure, and every other step changes no slot.
Lot == INSTANCE ParkingLot WITH lot <- licence_plate
ImplementsLot == Lot!Spec

\* Children that have a customer's money and have not yet booked it.
UnbookedLabels == {"p_stampP", "p_stamp", "p_stampV", "p_cashP", "p_load",
                   "p_store"}
Unbooked == {p \in Procs : pc[p] \in UnbookedLabels}

\* *cash += fee loses no payment: the till and the money still on its way to
\* it add up to what the customers handed over.
CashExact ==
    (cash + SumFunctionOnSet(fee, Unbooked)) % CashWidth = received

-----------------------------------------------------------------------------
(* The inductive invariant behind the theorems of ParkingServer_proofs.    *)

\* Control points at which pos holds the slot a car is being put into, and at
\* which it holds the slot found by a scan.
ClaimLabels == {"e_claim", "e_plate", "e_times", "e_V", "e_led", "e_reply"}
FoundLabels == {"x_grace", "x_lateP", "x_lateE", "x_lateT", "x_lateV", "x_P",
                "x_clear", "x_count", "x_free", "x_V", "x_reply", "x_led",
                "p_quote", "p_wait", "p_stampP", "p_stamp", "p_stampV",
                "p_cashP", "p_load", "p_store", "p_cashV"}

PosInRange ==
    \A p \in Procs :
        /\ pc[p] \in ClaimLabels => pos[p] \in SlotsOf(plate[p])
        /\ pc[p] \in FoundLabels => pos[p] \in Slots
        /\ pc[p] \notin {"idle", "done"} => plate[p] \in Plates

\* At most one child is inside sem_mutex, and the semaphore tells whether one
\* is, or has died there.
MutexOwned ==
    /\ sem_mutex \in {0, 1}
    /\ sem_mutex = 1 <=> InMutex = {} /\ ~mutexLost
    /\ mutexLost => InMutex = {}
    /\ \A p, q \in InMutex : p = q

\* The two tables differ only at the slot the owner of sem_mutex works on, or
\* at one a child died over.
AtWork(i) == \E p \in Procs : pc[p] \in {"e_plate", "x_count", "x_free"}
                              /\ pos[p] = i
TablesAgree ==
    /\ \A p \in Procs :
          /\ pc[p] = "e_claim" => Nearest(pos[p], Free(plate[p]), gate[p])
          /\ pc[p] = "e_plate" => /\ park_space[pos[p]] = 1
                                  /\ licence_plate[pos[p]] = NoPlate
          /\ pc[p] \in {"x_count", "x_free"} => licence_plate[pos[p]] = NoPlate
    /\ \A i \in Slots :
          /\ licence_plate[i] # NoPlate => park_space[i] = 1
          /\ park_space[i] = 1 /\ ~mutexLost => licence_plate[i] # NoPlate \/ AtWork(i)

\* space_left is exact up to the exit that has counted its slot as free and
\* not yet released it.  A slot an exit may act on was taken before: either it
\* is taken still, or elec says that it has been given up.
RowClass(i) == IF i < NumElec THEN 1 ELSE 0
Clearing(i) == \E p \in Procs : pc[p] = "x_free" /\ pos[p] = i
Counted(k) == IF \E i \in RowOf(k) : Clearing(i) /\ park_space[i] = 1
              THEN 1 ELSE 0
SpaceCounted ==
    /\ \A i \in Slots :
          park_space[i] = 1 => elec[i] = RowClass(i) \/ Clearing(i)
    /\ \A p \in Procs :
          /\ pc[p] \in ExitLabels \ {"x_scan", "x_find"} /\ pos[p] # -1
                => park_space[pos[p]] = 1 \/ elec[pos[p]] = -1
          /\ pc[p] = "x_free" => elec[pos[p]] = -1
    /\ ~mutexLost => \A k \in {0, 1} :
          space_left[k] = Cardinality(FreeIn(k)) + Counted(k)

IInv == /\ TypeOK /\ PosInRange /\ MutexOwned /\ TablesAgree
        /\ SpaceCounted /\ PermitsExact

\* The till is exact, and the child about to store has the current *cash in
\* its register: nobody else has written it since it was loaded.
TillOK == /\ CashExact
          /\ \A p \in Procs : pc[p] = "p_store" => reg[p] = cash

-----------------------------------------------------------------------------
(* Statements of the documentation, which TLC refutes.                     *)

\* README:98, "ensure that when a process ends, it releases the occupied ...
\* semaphores": every pay station permit is free or held by a live child.
PermitsReleased == sem_counting + Cardinality(AtStation) = PayStations

\* README:92, the LEDs are the "parking space display (light: parked, dark:
\* free)": when every child has finished, LED i shows the state of slot i.
LedShowsOccupancy ==
    (\A p \in Procs : pc[p] \in {"idle", "done"}) =>
        \A i \in Slots : led[i] = 1 - park_space[i]

\* server.c:238 "Exit Failed, Please pay the bill": no car gets out while
\* nobody has handed over any money yet.
NoExitBeforePayment ==
    [][received = 0 => \A i \in Slots :
          licence_plate[i] # NoPlate => licence_plate'[i] # NoPlate]_vars

=============================================================================
