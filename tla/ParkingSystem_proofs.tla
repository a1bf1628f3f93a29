------------------------- MODULE ParkingSystem_proofs -------------------------
(***************************************************************************)
(* Proofs about ParkingSystem, for every value of its constants.  The      *)
(* server in the system is the one of ParkingServer (SystemServes), so IInv *)
(* holds in it.  SInv adds the client: a child works for one camera, that  *)
(* camera for one car, and Deal(p, c) says what the table holds of car c   *)
(* at each control point of the child p that works for it.                 *)
(***************************************************************************)
EXTENDS ParkingSystem, ParkingServer_proofs

-----------------------------------------------------------------------------
(* The invariant.                                                          *)

CameraReplies == {"already parked", "No space", "Entry Success",
                  "Car doesn't exist", "Exit Failed, Please pay",
                  "Exit Failed, Please Repay", "Exit Success"}

ClientTypes ==
    /\ view \in [Cameras -> Plates \cup {NoPlate}]
    /\ conn \in [Cameras -> Procs \cup {NoProc}]
    /\ inside \subseteq Plates

\* A car is at one camera, a child works for one camera and its car.
Serves(g) == conn[g] # NoProc
Paired ==
    /\ \A g, h \in Cameras : view[g] = view[h] /\ view[g] # NoPlate => g = h
    /\ \A g, h \in Cameras : conn[g] = conn[h] /\ Serves(g) => g = h
    /\ \A g \in Cameras : Serves(g) =>
          /\ view[g] # NoPlate
          /\ pc[conn[g]] \in EntryLabels \cup ExitLabels \cup {"done"}
          /\ pc[conn[g]] # "done" => plate[conn[g]] = view[g]

\* Only a camera can have asked for an entry or an exit, and it waits until
\* there is a reply.
Asked == EntryLabels \cup (ExitLabels \ {"x_led"})
Watched ==
    /\ \A p \in Procs : pc[p] \in Asked => \E g \in Cameras : conn[g] = p
    /\ \A p \in Procs : pc[p] \notin {"done", "p_V", "x_led"} => reply[p] = "none"
    /\ \A p \in Procs : pc[p] = "x_led" => reply[p] = "Exit Success"

Agree(c) == c \in inside <=> Parked(c)
In(c) == c \in inside /\ Parked(c)
Out(c) == c \notin inside /\ ~Parked(c)

Deal(p, c) ==
    /\ pc[p] \in {"e_scan", "x_scan"} => Agree(c)
    /\ pc[p] \in {"e_P", "e_find", "e_full", "e_claim", "e_plate"} => Out(c)
    /\ pc[p] \in {"e_times", "e_V", "e_led", "e_reply"} =>
          c \notin inside /\ pos[p] \in Slots /\ licence_plate[pos[p]] = c
    /\ pc[p] = "x_find" => In(c)
    /\ pc[p] \in {"x_paid", "x_grace", "x_lateP", "x_lateE", "x_lateT",
                  "x_lateV", "x_P", "x_clear"} =>
          c \in inside /\ pos[p] \in Slots /\ licence_plate[pos[p]] = c
    /\ pc[p] \in {"x_count", "x_free", "x_V", "x_reply", "x_led"} =>
          c \in inside /\ ~Parked(c)
    /\ pc[p] = "done" =>
          /\ reply[p] \in CameraReplies
          /\ reply[p] \in {"already parked", "Exit Failed, Please pay",
                           "Exit Failed, Please Repay"} => In(c)
          /\ reply[p] = "Entry Success" => c \notin inside /\ Parked(c)
          /\ reply[p] = "Exit Success" => c \in inside /\ ~Parked(c)
          /\ reply[p] \in {"No space", "Car doesn't exist"} => Out(c)
Deals == \A g \in Cameras : Serves(g) => Deal(conn[g], view[g])

\* The slot that is being counted as free has not been counted before.
CountsOnce == \A p \in Procs : pc[p] = "x_count" => elec[pos[p]] # -1

CInv == /\ ClientTypes /\ Paired /\ Watched /\ Deals /\ CountsOnce
        /\ NoDuplicatePlate /\ ToldMatchesTable
SInv == IInv /\ CInv

-----------------------------------------------------------------------------
(* What the steps of one child do to itself and to the others.             *)

\* entry() goes on for the same car and has no reply until it is done.
LEMMA EntryMoves ==
  ASSUME TypeOK, NEW p \in Procs, EntryStep(p)
  PROVE  /\ pc[p] \in EntryLabels
         /\ pc'[p] \in EntryLabels \cup {"done"}
         /\ pc'[p] # "done" => plate'[p] = plate[p] /\ reply'[p] = reply[p]
<1> USE DEF TypeOK, LocalOK, EntryLabels, Go, Return, locals, scratch
<1>1. CASE EntryScan(p) \/ EntryP(p) \/ EntryFind(p)
  BY <1>1 DEF EntryScan, EntryP, EntryFind
<1>2. CASE EntryFull(p) \/ EntryClaim(p) \/ EntryPlate(p) \/ EntryTimes(p)
  BY <1>2 DEF EntryFull, EntryClaim, EntryPlate, EntryTimes
<1>3. CASE EntryV(p) \/ EntryLed(p) \/ EntryReply(p)
  BY <1>3 DEF EntryV, EntryLed, EntryReply
<1> QED
  BY <1>1, <1>2, <1>3 DEF EntryStep

\* So does exitpark(), which answers at x_reply already, unless it dies of an
\* index -1.
LEMMA ExitMoves ==
  ASSUME TypeOK, NEW p \in Procs, ExitStep(p),
         pc[p] = "x_paid" => pos[p] # -1,
         pc[p] = "x_count" => elec[pos[p]] # -1
  PROVE  /\ pc[p] \in ExitLabels
         /\ pc'[p] \in ExitLabels \cup {"done"}
         /\ pc'[p] # "done" => plate'[p] = plate[p]
         /\ pc[p] = "x_led" => pc'[p] = "done"
         /\ pc'[p] \notin {"done", "x_led"} => reply'[p] = reply[p]
         /\ pc'[p] = "x_led" => reply'[p] = "Exit Success"
<1> USE DEF TypeOK, LocalOK, ExitLabels, Go, Return, Answer, locals, scratch
<1>1. CASE ExitScan(p) \/ ExitFind(p)
  BY <1>1 DEF ExitScan, ExitFind
<1>2. CASE ExitPaid(p)
  BY <1>2 DEF ExitPaid, Die
<1>3. CASE ExitGrace(p) \/ ExitLateP(p) \/ ExitLateEntry(p) \/ ExitLatePay(p)
  BY <1>3 DEF ExitGrace, ExitLateP, ExitLateEntry, ExitLatePay
<1>4. CASE ExitLateV(p) \/ ExitP(p) \/ ExitClear(p)
  BY <1>4 DEF ExitLateV, ExitP, ExitClear
<1>5. CASE ExitCount(p)
  BY <1>5 DEF ExitCount, Die
<1>6. CASE ExitFree(p) \/ ExitV(p) \/ ExitReply(p) \/ ExitLed(p)
  BY <1>6 DEF ExitFree, ExitV, ExitReply, ExitLed
<1> QED
  BY <1>1, <1>2, <1>3, <1>4, <1>5, <1>6 DEF ExitStep

\* payment() and its customer stay among themselves.
LEMMA PayMoves ==
  ASSUME TypeOK, NEW p \in Procs, PayServerStep(p) \/ Customer(p)
  PROVE  /\ pc[p] \in PayLabels
         /\ pc'[p] \in PayLabels \cup {"done", "idle"}
         /\ pc'[p] \notin {"done", "p_V"} => reply'[p] = reply[p] /\ pc[p] # "p_V"
<1> USE DEF TypeOK, LocalOK, PayLabels, Go, Return, locals, scratch
<1>1. CASE PayP(p) \/ PayScan(p) \/ PayQuote(p)
  BY <1>1 DEF PayP, PayScan, PayQuote
<1>2. CASE PayStampP(p) \/ PayStamp(p) \/ PayStampV(p)
  BY <1>2 DEF PayStampP, PayStamp, PayStampV
<1>3. CASE PayCashP(p) \/ PayCashLoad(p) \/ PayCashStore(p)
  BY <1>3 DEF PayCashP, PayCashLoad, PayCashStore
<1>4. CASE PayCashV(p) \/ PayV(p)
  BY <1>4 DEF PayCashV, PayV
<1>5. CASE Customer(p)
  BY <1>5 DEF Customer, PayReceive, PayHangup, Die
<1> QED
  BY <1>1, <1>2, <1>3, <1>4, <1>5 DEF PayServerStep

\* A child answers nobody but its own client.
LEMMA OwnReply ==
  ASSUME TypeOK, NEW p \in Procs, Step(p), NEW q \in Procs, q # p
  PROVE  reply'[q] = reply[q]
<1> USE DEF TypeOK, LocalOK, Answer, locals
<1>1. CASE Connect(p) \/ ChildExit(p) \/ Customer(p)
  BY <1>1 DEF Connect, AcceptEntry, AcceptExit, AcceptPay, Accept, ChildExit,
     Customer, PayReceive, PayHangup, Die
<1>2. CASE EntryStep(p)
  BY <1>2 DEF EntryStep, EntryScan, EntryP, EntryFind, EntryFull, EntryClaim,
     EntryPlate, EntryTimes, EntryV, EntryLed, EntryReply
<1>3. CASE ExitStep(p)
  BY <1>3 DEF ExitStep, ExitScan, ExitFind, ExitPaid, ExitGrace, ExitLateP,
     ExitLateEntry, ExitLatePay, ExitLateV, ExitP, ExitClear, ExitCount,
     ExitFree, ExitV, ExitReply, ExitLed, Die
<1>4. CASE PayServerStep(p)
  BY <1>4 DEF PayServerStep, PayP, PayScan, PayQuote, PayStampP, PayStamp,
     PayStampV, PayCashP, PayCashLoad, PayCashStore, PayCashV, PayV
<1> QED
  BY <1>1, <1>2, <1>3, <1>4 DEF Step, ChildStep

\* Only the claim of entry() and the count of exitpark() write elec.
LEMMA ElecWriters ==
  ASSUME NEW p \in Procs, Step(p)
  PROVE  UNCHANGED elec \/ EntryClaim(p) \/ ExitCount(p)
<1> USE DEF store, table, spaces
<1>1. CASE Connect(p) \/ ChildExit(p) \/ Customer(p)
  BY <1>1 DEF Connect, AcceptEntry, AcceptExit, AcceptPay, Accept, ChildExit,
     Customer, PayReceive, PayHangup
<1>2. CASE EntryStep(p)
  BY <1>2 DEF EntryStep, EntryScan, EntryP, EntryFind, EntryFull, EntryClaim,
     EntryPlate, EntryTimes, EntryV, EntryLed, EntryReply
<1>3. CASE ExitStep(p)
  BY <1>3 DEF ExitStep, ExitScan, ExitFind, ExitPaid, ExitGrace, ExitLateP,
     ExitLateEntry, ExitLatePay, ExitLateV, ExitP, ExitClear, ExitCount,
     ExitFree, ExitV, ExitReply, ExitLed
<1>4. CASE PayServerStep(p)
  BY <1>4 DEF PayServerStep, PayP, PayScan, PayQuote, PayStampP, PayStamp,
     PayStampV, PayCashP, PayCashLoad, PayCashStore, PayCashV, PayV
<1> QED
  BY <1>1, <1>2, <1>3, <1>4 DEF Step, ChildStep

-----------------------------------------------------------------------------
(* The server in the system is the server with arbitrary clients.          *)

\* NoProc is no child.
LEMMA NoChild == NoProc \notin Procs
  BY ClientAssumption

\* The steps of the system that are steps of a child.
ChildMoves(p) ==
    \/ ServerStep(p) \/ CustomerStep(p)
    \/ \E g \in Cameras : Scan(g, p)
    \/ \E c \in Plates : PayConnect(c, p)

\* Each of them is one: the client only chooses which request comes when.
LEMMA ChildMovesStep ==
  ASSUME ClientTypes, NEW p \in Procs, ChildMoves(p)
  PROVE  Step(p)
<1>1. CASE ServerStep(p)
  BY <1>1 DEF ServerStep, Step, ChildStep
<1>2. CASE CustomerStep(p)
  BY <1>2 DEF CustomerStep, Step
<1>3. ASSUME NEW g \in Cameras, Scan(g, p) PROVE Step(p)
  <2>1. view[g] \in Plates
    BY <1>3 DEF Scan, ClientTypes
  <2>2. CASE g \in EntryCameras /\ AcceptEntry(p, g, view[g])
    BY <2>1, <2>2 DEF EntryCameras, Step, Connect
  <2>3. CASE AcceptExit(p, view[g])
    BY <2>1, <2>3 DEF Step, Connect
  <2> QED
    BY <1>3, <2>2, <2>3 DEF Scan
<1>4. ASSUME NEW c \in Plates, PayConnect(c, p) PROVE Step(p)
  BY <1>4 DEF PayConnect, Step, Connect
<1> QED
  BY <1>1, <1>2, <1>3, <1>4 DEF ChildMoves

\* Every step of the system is a step of the server or of its environment.
LEMMA SystemStep ==
  ASSUME ClientTypes, [SysNext]_sysvars
  PROVE  [Next]_vars
<1>1. CASE UNCHANGED sysvars
  BY <1>1 DEF sysvars
<1>2. CASE Tick
  BY <1>2 DEF Next
<1>3. CASE \E g \in Cameras : DriveOn(g) \/ Receive(g)
  BY <1>3 DEF DriveOn, Receive
<1>4. CASE \E g \in Cameras, c \in Plates : Arrive(g, c)
  BY <1>4 DEF Arrive
<1>5. ASSUME NEW p \in Procs, ChildMoves(p) PROVE Next
  BY <1>5, ChildMovesStep DEF Next, Step
<1> QED
  BY <1>1, <1>2, <1>3, <1>4, <1>5 DEF SysNext, ChildMoves

-----------------------------------------------------------------------------
(* The table, as the camera of each car sees it.                           *)

\* The child of an entry or an exit works for one camera and its car.
LEMMA ServedBy ==
  ASSUME CInv, NEW p \in Procs, pc[p] \in Asked
  PROVE  \E g \in Cameras : /\ conn[g] = p /\ Serves(g)
                            /\ plate[p] = view[g] /\ Deal(p, view[g])
<1>1. PICK g \in Cameras : conn[g] = p
  BY DEF CInv, Watched
<1>2. Serves(g)
  BY <1>1, NoChild DEF Serves
<1>3. pc[p] # "done"
  BY DEF Asked, EntryLabels, ExitLabels
<1> QED
  BY <1>1, <1>2, <1>3 DEF CInv, Paired, Deals

\* The two writers of licence_plate write the plate of their own car only:
\* for every other car the table stays as it is.
LEMMA TableElse ==
  ASSUME SInv, NEW p \in Procs, Step(p), NEW c \in Plates,
         pc[p] \in {"e_plate", "x_clear"} => plate[p] # c
  PROVE  \A i \in Slots : licence_plate'[i] = c <=> licence_plate[i] = c
<1>1. CASE UNCHANGED licence_plate
  BY <1>1
<1>2. CASE EntryPlate(p)
  <2>1. /\ pc[p] = "e_plate"
        /\ licence_plate' = [licence_plate EXCEPT ![pos[p]] = plate[p]]
    BY <1>2 DEF EntryPlate, Go
  <2>2. licence_plate[pos[p]] = NoPlate /\ c # NoPlate
    BY <2>1, PlatesAssumption DEF SInv, IInv, TablesAgree
  <2> QED
    BY <2>1, <2>2 DEF SInv, IInv, TypeOK, SharedOK
<1>3. CASE ExitClear(p)
  <2>1. /\ pc[p] = "x_clear"
        /\ licence_plate' = [licence_plate EXCEPT ![pos[p]] = NoPlate]
    BY <1>3 DEF ExitClear, Go
  <2>2. pc[p] \in Asked
    BY <2>1 DEF Asked, ExitLabels
  <2>3. PICK g \in Cameras : plate[p] = view[g] /\ Deal(p, view[g])
    BY <2>2, ServedBy DEF SInv
  <2>4. licence_plate[pos[p]] = plate[p]
    BY <2>1, <2>3 DEF Deal
  <2> QED
    BY <2>1, <2>4, PlatesAssumption DEF SInv, IInv, TypeOK, SharedOK
<1> QED
  BY <1>1, <1>2, <1>3, Writers

\* What a deal depends on.
LEMMA DealSame ==
  ASSUME NEW p, NEW c, Deal(p, c),
         pc'[p] = pc[p], pos'[p] = pos[p], reply'[p] = reply[p],
         c \in inside' <=> c \in inside,
         \A i \in Slots : licence_plate'[i] = c <=> licence_plate[i] = c
  PROVE  Deal(p, c)'
<1>1. Parked(c)' <=> Parked(c)
  BY DEF Parked, Slots
<1> QED
  BY <1>1 DEF Deal, Agree, In, Out, Slots

-----------------------------------------------------------------------------
(* A step of the child that works for a camera keeps the deal.             *)

\* entry() keeps it: the car is in the table from the strcpy to the reply.
LEMMA EntryDeal ==
  ASSUME SInv, NEW p \in Procs, NEW c \in Plates, EntryStep(p), UNCHANGED client,
         plate[p] = c, Deal(p, c)
  PROVE  Deal(p, c)'
<1> USE DEF Go, Return, Forget, Answer, locals, scratch, store, table, spaces, client
<1>0. /\ pc \in [Procs -> Labels] /\ pos \in [Procs -> Slots \cup {-1}]
      /\ reply \in [Procs -> Replies]
      /\ licence_plate \in [Slots -> Plates \cup {NoPlate}]
  BY DEF SInv, IInv, TypeOK, LocalOK, SharedOK
<1>1. CASE EntryScan(p)
  <2>1. UNCHANGED licence_plate /\ pc[p] = "e_scan" /\ Agree(c)
    BY <1>1 DEF EntryScan, Deal
  <2>2. CASE Missing(c)
    BY <1>0, <1>1, <2>1, <2>2 DEF EntryScan, Deal, Missing, Agree, Out, Parked
  <2>3. CASE ~Missing(c)
    BY <1>0, <1>1, <2>1, <2>3
    DEF EntryScan, Deal, Missing, Agree, In, Parked, CameraReplies
  <2> QED
    BY <2>2, <2>3
<1>2. CASE EntryP(p) \/ EntryFind(p) \/ EntryFull(p)
  <2>1. UNCHANGED licence_plate /\ Out(c)
    BY <1>2 DEF EntryP, EntryFind, EntryFull, Deal
  <2>2. Out(c)'
    BY <2>1 DEF Out, Parked, Slots
  <2> QED
    BY <1>0, <1>2, <2>2 DEF EntryP, EntryFind, EntryFull, Deal, CameraReplies
<1>3. CASE EntryClaim(p)
  <2>1. UNCHANGED licence_plate /\ Out(c)
    BY <1>3 DEF EntryClaim, Deal
  <2>2. Out(c)'
    BY <2>1 DEF Out, Parked, Slots
  <2> QED
    BY <1>0, <1>3, <2>2 DEF EntryClaim, Deal
<1>4. CASE EntryPlate(p)
  <2>1. pc[p] = "e_plate" /\ Out(c)
    BY <1>4 DEF EntryPlate, Deal
  <2>2. pos[p] \in Slots
    BY <2>1, SlotsOfSlots DEF SInv, IInv, PosInRange, ClaimLabels
  <2> QED
    BY <1>0, <1>4, <2>1, <2>2 DEF EntryPlate, Deal, Out, Slots
<1>5. CASE EntryTimes(p) \/ EntryV(p) \/ EntryLed(p)
  BY <1>0, <1>5 DEF EntryTimes, EntryV, EntryLed, Deal, Slots
<1>6. CASE EntryReply(p)
  <2>1. /\ UNCHANGED licence_plate /\ c \notin inside
        /\ pos[p] \in Slots /\ licence_plate[pos[p]] = c
    BY <1>6 DEF EntryReply, Deal
  <2>2. c \notin inside' /\ Parked(c)'
    BY <2>1 DEF Parked, Slots
  <2> QED
    BY <1>0, <1>6, <2>2 DEF EntryReply, Deal, CameraReplies
<1> QED
  BY <1>1, <1>2, <1>3, <1>4, <1>5, <1>6 DEF EntryStep

\* So does exitpark(): the slot found by the scan is the car's until it is
\* cleared, and nobody else clears it.
LEMMA ExitDeal ==
  ASSUME SInv, NEW p \in Procs, NEW c \in Plates, ExitStep(p), UNCHANGED client,
         plate[p] = c, Deal(p, c)
  PROVE  Deal(p, c)'
<1> USE DEF Go, Return, Forget, Answer, Die, locals, scratch, store, table, spaces, client
<1>0. /\ pc \in [Procs -> Labels] /\ pos \in [Procs -> Slots \cup {-1}]
      /\ reply \in [Procs -> Replies]
      /\ licence_plate \in [Slots -> Plates \cup {NoPlate}]
  BY DEF SInv, IInv, TypeOK, LocalOK, SharedOK
<1>01. -1 \notin Slots
  BY DEF Slots
<1>1. CASE ExitScan(p)
  <2>1. UNCHANGED licence_plate /\ pc[p] = "x_scan" /\ Agree(c)
    BY <1>1 DEF ExitScan, Deal
  <2>2. CASE Missing(c)
    BY <1>0, <1>1, <2>1, <2>2
    DEF ExitScan, Deal, Missing, Agree, Out, Parked, CameraReplies
  <2>3. CASE ~Missing(c)
    BY <1>0, <1>1, <2>1, <2>3 DEF ExitScan, Deal, Missing, Agree, In, Parked
  <2> QED
    BY <2>2, <2>3
<1>2. CASE ExitFind(p)
  <2>1. UNCHANGED <<licence_plate, inside>> /\ pc[p] = "x_find" /\ In(c)
    BY <1>2 DEF ExitFind, Deal
  <2>2. /\ pc'[p] = "x_paid"
        /\ pos'[p] \in Slots /\ licence_plate[pos'[p]] = c
    BY <1>0, <1>2, <2>1 DEF ExitFind, Missing, First, In, Parked
  <2> QED
    BY <2>1, <2>2 DEF Deal, In
<1>3. CASE ExitPaid(p)
  <2>1. /\ UNCHANGED licence_plate /\ c \in inside
        /\ pos[p] \in Slots /\ licence_plate[pos[p]] = c
    BY <1>3 DEF ExitPaid, Deal
  <2>2. In(c)'
    BY <2>1 DEF In, Parked, Slots
  <2> QED
    BY <1>0, <1>01, <1>3, <2>1, <2>2 DEF ExitPaid, Deal, CameraReplies
<1>4. CASE ExitGrace(p) \/ ExitLateP(p) \/ ExitLateEntry(p) \/ ExitLatePay(p)
  BY <1>0, <1>4 DEF ExitGrace, ExitLateP, ExitLateEntry, ExitLatePay, Deal
<1>5. CASE ExitLateV(p)
  <2>1. /\ UNCHANGED licence_plate /\ c \in inside
        /\ pos[p] \in Slots /\ licence_plate[pos[p]] = c
    BY <1>5 DEF ExitLateV, Deal
  <2>2. In(c)'
    BY <2>1 DEF In, Parked, Slots
  <2> QED
    BY <1>0, <1>5, <2>2 DEF ExitLateV, Deal, CameraReplies
<1>6. CASE ExitP(p)
  BY <1>0, <1>6 DEF ExitP, Deal
<1>7. CASE ExitClear(p)
  <2>1. /\ pc[p] = "x_clear" /\ c \in inside
        /\ pos[p] \in Slots /\ licence_plate[pos[p]] = c
    BY <1>7 DEF ExitClear, Deal
  <2>2. \A i \in Slots : licence_plate[i] = c => i = pos[p]
    BY <2>1, PlatesAssumption DEF SInv, CInv, NoDuplicatePlate
  <2>3. \A i \in Slots : licence_plate'[i] # c
    BY <1>0, <1>7, <2>1, <2>2, PlatesAssumption DEF ExitClear
  <2>4. ~Parked(c)'
    BY <2>3 DEF Parked, Slots
  <2> QED
    BY <1>0, <1>7, <2>1, <2>4 DEF ExitClear, Deal
<1>8. CASE ExitCount(p)
  <2>1. /\ UNCHANGED licence_plate /\ pc[p] = "x_count"
        /\ c \in inside /\ ~Parked(c)
    BY <1>8 DEF ExitCount, Deal
  <2>2. c \in inside' /\ ~Parked(c)'
    BY <2>1 DEF Parked, Slots
  <2>3. elec[pos[p]] # -1
    BY <2>1 DEF SInv, CInv, CountsOnce
  <2> QED
    BY <1>0, <1>8, <2>2, <2>3 DEF ExitCount, Deal
<1>9. CASE ExitFree(p) \/ ExitV(p) \/ ExitReply(p) \/ ExitLed(p)
  <2>1. /\ UNCHANGED licence_plate /\ c \in inside /\ ~Parked(c)
    BY <1>9 DEF ExitFree, ExitV, ExitReply, ExitLed, Deal
  <2>2. c \in inside' /\ ~Parked(c)'
    BY <2>1 DEF Parked, Slots
  <2>3. pc[p] = "x_led" => reply[p] = "Exit Success"
    BY DEF SInv, CInv, Watched
  <2> QED
    BY <1>0, <1>9, <2>2, <2>3
    DEF ExitFree, ExitV, ExitReply, ExitLed, Deal, CameraReplies
<1> QED
  BY <1>1, <1>2, <1>3, <1>4, <1>5, <1>6, <1>7, <1>8, <1>9 DEF ExitStep

\* A slot that an exit clears was taken, so its count is still to come.
LEMMA CountsOnceStep ==
  ASSUME SInv, NEW p \in Procs, Step(p), NEW q \in Procs, pc'[q] = "x_count"
  PROVE  elec'[pos'[q]] # -1
<1>0. /\ pc \in [Procs -> Labels] /\ pos \in [Procs -> Slots \cup {-1}]
  BY DEF SInv, IInv, TypeOK, LocalOK
<1>1. CASE q # p
  <2>1. pc[q] = "x_count" /\ pos'[q] = pos[q]
    BY <1>1, OthersStill DEF SInv, IInv, Still
  <2>2. elec[pos[q]] # -1
    BY <2>1 DEF SInv, CInv, CountsOnce
  <2>3. ~(EntryClaim(p) \/ ExitCount(p))
    <3>1. q \in InMutex
      BY <2>1 DEF InMutex, MutexLabels
    <3>2. p \notin InMutex
      BY <1>1, <3>1 DEF SInv, IInv, MutexOwned
    <3> QED
      BY <3>2 DEF InMutex, MutexLabels, EntryClaim, ExitCount, Go, Die
  <2> QED
    BY <2>1, <2>2, <2>3, ElecWriters
<1>2. CASE q = p
  <2>1. ExitClear(p)
    <3>1. ASSUME Connect(p) PROVE FALSE
      BY <1>0, <1>2, <3>1
      DEF Connect, AcceptEntry, AcceptExit, AcceptPay, Accept, Go
    <3>2. ASSUME ChildExit(p) PROVE FALSE
      BY <1>0, <1>2, <3>2 DEF ChildExit, Go
    <3>3. ASSUME PayServerStep(p) \/ Customer(p) PROVE FALSE
      BY <1>2, <3>3, PayMoves DEF SInv, IInv, PayLabels
    <3>4. ASSUME EntryStep(p) PROVE FALSE
      BY <1>2, <3>4, EntryMoves DEF SInv, IInv, EntryLabels
    <3>5. CASE ExitStep(p)
      BY <1>0, <1>2, <3>5
      DEF ExitStep, ExitScan, ExitFind, ExitPaid, ExitGrace, ExitLateP,
          ExitLateEntry, ExitLatePay, ExitLateV, ExitP, ExitCount, ExitFree,
          ExitV, ExitReply, ExitLed, Go, Return, Die
    <3> QED
      BY <3>1, <3>2, <3>3, <3>4, <3>5 DEF Step, ChildStep
  <2>2. pc[p] = "x_clear" /\ UNCHANGED elec /\ UNCHANGED pos
    BY <2>1 DEF ExitClear, Go, locals
  <2>3. PICK g \in Cameras : Serves(g) /\ plate[p] = view[g] /\ Deal(p, view[g])
    BY <2>2, ServedBy DEF SInv, Asked, ExitLabels
  <2>4. pos[p] \in Slots /\ licence_plate[pos[p]] # NoPlate
    BY <2>2, <2>3 DEF Deal, SInv, CInv, Paired
  <2>5. park_space[pos[p]] = 1
    BY <2>4 DEF SInv, IInv, TablesAgree
  <2>6. ~Clearing(pos[p])
    <3> SUFFICES ASSUME NEW r \in Procs, pc[r] = "x_free" PROVE FALSE
      BY DEF Clearing
    <3>1. r \in InMutex
      BY DEF InMutex, MutexLabels
    <3>2. p \in InMutex
      BY <2>2 DEF InMutex, MutexLabels
    <3> QED
      BY <2>2, <3>1, <3>2 DEF SInv, IInv, MutexOwned
  <2>7. elec[pos[p]] \in {0, 1}
    BY <2>4, <2>5, <2>6 DEF SInv, IInv, SpaceCounted, RowClass
  <2> QED
    BY <1>2, <2>2, <2>7
<1> QED
  BY <1>1, <1>2

-----------------------------------------------------------------------------
(* Steps of the server.                                                    *)

\* What a step of the server does to the child that takes it.
Onward(p) ==
    \/ /\ pc[p] \in EntryLabels \cup ExitLabels
       /\ pc'[p] \in EntryLabels \cup ExitLabels \cup {"done"}
       /\ pc'[p] # "done" => plate'[p] = plate[p]
       /\ pc'[p] \in Asked => pc[p] \in Asked
       /\ pc'[p] \notin {"done", "x_led"} => reply'[p] = "none"
       /\ pc'[p] = "x_led" => reply'[p] = "Exit Success"
    \/ /\ pc[p] \notin EntryLabels \cup ExitLabels
       /\ pc'[p] \notin EntryLabels \cup ExitLabels
       /\ \A g \in Cameras : conn[g] # p
       /\ pc'[p] \notin {"done", "p_V"} => reply'[p] = "none"

\* Every step is of that kind: camera children go on, the others stay apart.
LEMMA OnwardStep ==
  ASSUME SInv, NEW p \in Procs, ServerStep(p) \/ CustomerStep(p)
  PROVE  Onward(p)
<1>0. TypeOK
  BY DEF SInv, IInv
<1>1. CASE EntryStep(p)
  <2>1. reply[p] = "none"
    BY <1>0, <1>1, EntryMoves DEF SInv, CInv, Watched, EntryLabels
  <2>2. pc[p] \in Asked /\ "x_led" \notin EntryLabels \cup {"done"}
    BY <1>0, <1>1, EntryMoves DEF Asked, EntryLabels
  <2> QED
    BY <1>0, <1>1, <2>1, <2>2, EntryMoves DEF Onward
<1>2. CASE ExitStep(p)
  <2>1. pc[p] = "x_count" => elec[pos[p]] # -1
    BY DEF SInv, CInv, CountsOnce
  <2>2. pc[p] = "x_paid" => pos[p] # -1
    <3> SUFFICES ASSUME pc[p] = "x_paid" PROVE pos[p] # -1
      OBVIOUS
    <3>1. PICK g \in Cameras : Deal(p, view[g])
      BY ServedBy DEF SInv, Asked, ExitLabels
    <3> QED
      BY <3>1 DEF Deal, Slots
  <2>3. pc[p] # "x_led" => reply[p] = "none"
    BY <1>0, <1>2, <2>1, <2>2, ExitMoves DEF SInv, CInv, Watched, ExitLabels
  <2>4. "done" \notin Asked
    BY DEF Asked, EntryLabels, ExitLabels
  <2>5. /\ pc[p] \in ExitLabels
        /\ pc'[p] \in ExitLabels \cup {"done"}
        /\ pc'[p] # "done" => plate'[p] = plate[p]
        /\ pc[p] = "x_led" => pc'[p] = "done"
        /\ pc'[p] \notin {"done", "x_led"} => reply'[p] = reply[p]
        /\ pc'[p] = "x_led" => reply'[p] = "Exit Success"
    BY <1>0, <1>2, <2>1, <2>2, ExitMoves
  <2>6. pc'[p] \in Asked => pc[p] \in Asked
    BY <2>4, <2>5 DEF Asked
  <2>7. pc'[p] \notin {"done", "x_led"} => reply'[p] = "none"
    BY <2>3, <2>5
  <2> QED
    BY <2>5, <2>6, <2>7 DEF Onward
<1>3. CASE PayServerStep(p) \/ Customer(p)
  <2>1. /\ pc[p] \in PayLabels
        /\ pc'[p] \in PayLabels \cup {"done", "idle"}
        /\ pc'[p] \notin {"done", "p_V"} => reply'[p] = reply[p] /\ pc[p] # "p_V"
    BY <1>0, <1>3, PayMoves
  <2>2. PayLabels \cap (EntryLabels \cup ExitLabels \cup {"done", "idle", "x_led"}) = {}
        /\ {"done", "idle"} \cap (EntryLabels \cup ExitLabels) = {}
    BY DEF PayLabels, EntryLabels, ExitLabels
  <2>3. \A g \in Cameras : conn[g] # p
    BY <2>1, <2>2, NoChild DEF SInv, CInv, Paired, Serves
  <2>4. pc'[p] \notin {"done", "p_V"} => reply'[p] = "none"
    BY <2>1, <2>2 DEF SInv, CInv, Watched
  <2> QED
    BY <2>1, <2>2, <2>3, <2>4 DEF Onward
<1>4. CASE ChildExit(p) /\ \A g \in Cameras : conn[g] # p
  BY <1>0, <1>4
  DEF Onward, ChildExit, Go, Answer, TypeOK, LocalOK, EntryLabels, ExitLabels
<1> QED
  BY <1>1, <1>2, <1>3, <1>4 DEF ServerStep, CustomerStep

\* Each camera keeps its child and its car,
LEMMA ServerPaired ==
  ASSUME SInv, NEW p \in Procs, ServerStep(p) \/ CustomerStep(p)
  PROVE  Paired'
<1>1. UNCHANGED <<view, conn>>
  BY DEF ServerStep, CustomerStep, client
<1>2. ASSUME NEW g \in Cameras, Serves(g)
      PROVE  /\ view[g] # NoPlate
             /\ pc'[conn[g]] \in EntryLabels \cup ExitLabels \cup {"done"}
             /\ pc'[conn[g]] # "done" => plate'[conn[g]] = view[g]
  <2>1. conn[g] \in Procs
    BY <1>2 DEF SInv, CInv, ClientTypes, Serves
  <2>2. /\ view[g] # NoPlate
        /\ pc[conn[g]] \in EntryLabels \cup ExitLabels \cup {"done"}
        /\ pc[conn[g]] # "done" => plate[conn[g]] = view[g]
    BY <1>2 DEF SInv, CInv, Paired
  <2>3. CASE conn[g] = p
    <3>1. "done" \notin EntryLabels \cup ExitLabels
      BY DEF EntryLabels, ExitLabels
    <3> QED
      BY <2>2, <2>3, <3>1, OnwardStep DEF Onward
  <2>4. CASE conn[g] # p
    <3>1. Step(p)
      BY ChildMovesStep DEF ChildMoves, SInv, CInv
    <3>2. Still(conn[g])
      BY <2>1, <2>4, <3>1, OthersStill DEF SInv, IInv
    <3> QED
      BY <2>2, <3>2 DEF Still
  <2> QED
    BY <2>3, <2>4
<1>3. \A g \in Cameras : Serves(g)' <=> Serves(g)
  BY <1>1 DEF Serves
<1> QED
  BY <1>1, <1>2, <1>3 DEF SInv, CInv, Paired

\* no request is left without a camera and no reply comes early,
LEMMA ServerWatched ==
  ASSUME SInv, NEW p \in Procs, ServerStep(p) \/ CustomerStep(p)
  PROVE  Watched'
<1>1. UNCHANGED conn
  BY DEF ServerStep, CustomerStep, client
<1>2. Step(p)
  BY ChildMovesStep DEF ChildMoves, SInv, CInv
<1>3. ASSUME NEW q \in Procs
      PROVE  /\ pc'[q] \in Asked => \E g \in Cameras : conn[g] = q
             /\ pc'[q] \notin {"done", "p_V", "x_led"} => reply'[q] = "none"
             /\ pc'[q] = "x_led" => reply'[q] = "Exit Success"
  <2>1. CASE q = p
    <3>1. Asked \subseteq EntryLabels \cup ExitLabels /\ "x_led" \in ExitLabels
      BY DEF Asked, ExitLabels
    <3>2. Onward(p)
      BY OnwardStep
    <3>3. pc'[p] \in Asked => pc[p] \in Asked
      BY <3>1, <3>2 DEF Onward
    <3>4. pc[p] \in Asked => \E g \in Cameras : conn[g] = p
      BY DEF SInv, CInv, Watched
    <3>5. /\ pc'[p] \notin {"done", "p_V", "x_led"} => reply'[p] = "none"
          /\ pc'[p] = "x_led" => reply'[p] = "Exit Success"
      BY <3>1, <3>2 DEF Onward
    <3> QED
      BY <2>1, <3>3, <3>4, <3>5
  <2>2. CASE q # p
    <3>1. pc'[q] = pc[q] /\ reply'[q] = reply[q]
      BY <1>2, <2>2, OthersStill, OwnReply DEF SInv, IInv, Still
    <3> QED
      BY <3>1 DEF SInv, CInv, Watched
  <2> QED
    BY <2>1, <2>2
<1> QED
  BY <1>1, <1>3 DEF Watched

\* the deal of every camera is kept,
LEMMA ServerDeals ==
  ASSUME SInv, NEW p \in Procs, ServerStep(p) \/ CustomerStep(p)
  PROVE  Deals'
<1>1. UNCHANGED client /\ UNCHANGED <<view, conn, inside>>
  BY DEF ServerStep, CustomerStep, client
<1>2. Step(p)
  BY ChildMovesStep DEF ChildMoves, SInv, CInv
<1>3. ASSUME NEW g \in Cameras, Serves(g), NEW q, q = conn[g], NEW c, c = view[g]
      PROVE  Deal(q, c)'
  <2>1. q \in Procs /\ c \in Plates /\ Deal(q, c)
    BY <1>3 DEF SInv, CInv, ClientTypes, Paired, Serves, Deals
  <2>2. pc[q] # "done" => plate[q] = c
    BY <1>3 DEF SInv, CInv, Paired
  <2>3. CASE q = p
    <3>1. CASE EntryStep(p)
      <4>1. plate[p] = c
        BY <2>2, <2>3, <3>1, EntryMoves DEF SInv, IInv, EntryLabels
      <4> QED
        BY <1>1, <2>1, <2>3, <3>1, <4>1, EntryDeal
    <3>2. CASE ExitStep(p)
      <4>1. pc[p] # "done"
        BY <3>2 DEF ExitStep, ExitScan, ExitFind, ExitPaid, ExitGrace, ExitLateP,
           ExitLateEntry, ExitLatePay, ExitLateV, ExitP, ExitClear, ExitCount,
           ExitFree, ExitV, ExitReply, ExitLed, Go, Return, Die
      <4> QED
        BY <1>1, <2>1, <2>2, <2>3, <3>2, <4>1, ExitDeal
    <3>3. ASSUME PayServerStep(p) \/ Customer(p) PROVE FALSE
      <4>1. pc[p] \in PayLabels
        BY <3>3, PayMoves DEF SInv, IInv
      <4>2. pc[p] \in EntryLabels \cup ExitLabels \cup {"done"}
        BY <1>3, <2>3 DEF SInv, CInv, Paired
      <4> QED
        BY <4>1, <4>2 DEF PayLabels, EntryLabels, ExitLabels
    <3> QED
      BY <1>3, <2>3, <3>1, <3>2, <3>3 DEF ServerStep, CustomerStep
  <2>4. CASE q # p
    <3>1. pc'[q] = pc[q] /\ pos'[q] = pos[q] /\ reply'[q] = reply[q]
      BY <1>2, <2>1, <2>4, OthersStill, OwnReply DEF SInv, IInv, Still
    <3>2. pc[p] \in {"e_plate", "x_clear"} => plate[p] # c
      <4> SUFFICES ASSUME pc[p] \in {"e_plate", "x_clear"}, plate[p] = c PROVE FALSE
        OBVIOUS
      <4>1. PICK h \in Cameras : conn[h] = p /\ plate[p] = view[h]
        BY ServedBy DEF SInv, Asked, EntryLabels, ExitLabels
      <4> QED
        BY <1>3, <2>4, <4>1 DEF SInv, CInv, Paired
    <3>3. \A i \in Slots : licence_plate'[i] = c <=> licence_plate[i] = c
      BY <1>2, <2>1, <3>2, TableElse
    <3> QED
      BY <1>1, <2>1, <3>1, <3>3, DealSame
  <2> QED
    BY <2>3, <2>4
<1> SUFFICES ASSUME NEW g \in Cameras, Serves(g)' PROVE Deal(conn[g], view[g])'
  BY DEF Deals
<1>4. Serves(g)
  BY <1>1 DEF Serves
<1>5. PICK q, c : q = conn[g] /\ c = view[g]
  OBVIOUS
<1>6. Deal(q, c)'
  BY <1>3, <1>4, <1>5
<1> QED
  BY <1>1, <1>5, <1>6 DEF Deal, Agree, In, Out, Parked

\* no plate comes into the table twice,
LEMMA ServerNoDuplicate ==
  ASSUME SInv, NEW p \in Procs, ServerStep(p) \/ CustomerStep(p)
  PROVE  NoDuplicatePlate'
<1>1. Step(p)
  BY ChildMovesStep DEF ChildMoves, SInv, CInv
<1>2. licence_plate \in [Slots -> Plates \cup {NoPlate}]
  BY DEF SInv, IInv, TypeOK, SharedOK
<1>3. CASE UNCHANGED licence_plate
  BY <1>3 DEF SInv, CInv, NoDuplicatePlate
<1>4. CASE EntryPlate(p)
  <2>1. /\ pc[p] = "e_plate"
        /\ licence_plate' = [licence_plate EXCEPT ![pos[p]] = plate[p]]
    BY <1>4 DEF EntryPlate, Go
  <2>2. PICK g \in Cameras : plate[p] = view[g] /\ Deal(p, view[g])
    BY <2>1, ServedBy DEF SInv, Asked, EntryLabels
  <2>3. \A i \in Slots : licence_plate[i] # plate[p]
    BY <2>1, <2>2 DEF Deal, Out, Parked
  <2> QED
    BY <1>2, <2>1, <2>3 DEF SInv, CInv, NoDuplicatePlate
<1>5. CASE ExitClear(p)
  <2>1. licence_plate' = [licence_plate EXCEPT ![pos[p]] = NoPlate]
    BY <1>5 DEF ExitClear
  <2> QED
    BY <1>2, <2>1 DEF SInv, CInv, NoDuplicatePlate
<1> QED
  BY <1>1, <1>3, <1>4, <1>5, Writers

\* and the table changes only for a car whose camera waits for the reply.
LEMMA ServerTold ==
  ASSUME SInv, NEW p \in Procs, ServerStep(p) \/ CustomerStep(p)
  PROVE  ToldMatchesTable'
<1>1. UNCHANGED <<view, conn, inside>>
  BY DEF ServerStep, CustomerStep, client
<1>2. Step(p)
  BY ChildMovesStep DEF ChildMoves, SInv, CInv
<1>3. ASSUME NEW c \in Plates, \A g \in Cameras : view[g] = c => conn[g] = NoProc
      PROVE  c \in inside <=> Parked(c)'
  <2>1. pc[p] \in {"e_plate", "x_clear"} => plate[p] # c
    <3> SUFFICES ASSUME pc[p] \in {"e_plate", "x_clear"}, plate[p] = c PROVE FALSE
      OBVIOUS
    <3>1. PICK h \in Cameras : conn[h] = p /\ plate[p] = view[h]
      BY ServedBy DEF SInv, Asked, EntryLabels, ExitLabels
    <3> QED
      BY <1>3, <3>1, NoChild
  <2>2. \A i \in Slots : licence_plate'[i] = c <=> licence_plate[i] = c
    BY <1>2, <2>1, TableElse
  <2>3. Parked(c)' <=> Parked(c)
    BY <2>2 DEF Parked, Slots
  <2> QED
    BY <1>3, <2>3 DEF SInv, CInv, ToldMatchesTable
<1> QED
  BY <1>1, <1>3 DEF ToldMatchesTable

\* Together: a step of the server keeps the client's part of the invariant.
LEMMA ServerInv ==
  ASSUME SInv, NEW p \in Procs, ServerStep(p) \/ CustomerStep(p)
  PROVE  CInv'
<1>1. Step(p) /\ UNCHANGED <<view, conn, inside>>
  BY ChildMovesStep DEF ChildMoves, SInv, CInv, ServerStep, CustomerStep, client
<1>2. ClientTypes'
  BY <1>1 DEF SInv, CInv, ClientTypes
<1>3. CountsOnce'
  BY <1>1, CountsOnceStep DEF CountsOnce
<1> QED
  BY <1>2, <1>3, ServerPaired, ServerWatched, ServerDeals, ServerNoDuplicate,
     ServerTold DEF CInv

-----------------------------------------------------------------------------
(* Steps of the client.                                                    *)

\* A new child takes the place of an idle one and changes nothing else.
LEMMA AcceptOne ==
  ASSUME TypeOK, NEW p \in Procs, NEW l, NEW g, NEW c, Accept(p, l, g, c)
  PROVE  /\ pc[p] = "idle" /\ pc'[p] = l /\ plate'[p] = c
         /\ \A q \in Procs : q # p => pc'[q] = pc[q] /\ plate'[q] = plate[q]
         /\ UNCHANGED <<licence_plate, elec, pos, reply>>
  BY DEF TypeOK, LocalOK, Accept, Go, store, table

\* Nobody waits for an idle child.
LEMMA IdleFree ==
  ASSUME CInv, NEW p \in Procs, pc[p] = "idle", NEW g \in Cameras
  PROVE  conn[g] # p
  BY NoChild DEF CInv, Paired, Serves, EntryLabels, ExitLabels

\* A camera sends its plate: what the table holds of a car nobody is asked
\* about is what the car was told.
LEMMA ScanInv ==
  ASSUME SInv, NEW g \in Cameras, NEW p \in Procs, Scan(g, p)
  PROVE  CInv'
<1>1. PICK l, n : l \in {"e_scan", "x_scan"} /\ Accept(p, l, n, view[g])
  BY DEF Scan, AcceptEntry, AcceptExit
<1>2. /\ pc[p] = "idle" /\ pc'[p] = l /\ plate'[p] = view[g]
      /\ \A q \in Procs : q # p => pc'[q] = pc[q] /\ plate'[q] = plate[q]
      /\ UNCHANGED <<licence_plate, elec, pos, reply>>
  BY <1>1, AcceptOne DEF SInv, IInv
<1>3. /\ conn[g] = NoProc /\ view[g] \in Plates
      /\ conn' = [conn EXCEPT ![g] = p] /\ UNCHANGED <<view, inside>>
  BY DEF Scan, SInv, CInv, ClientTypes
<1>4. \A h \in Cameras : conn[h] # p
  BY <1>2, IdleFree DEF SInv
<1>5. /\ conn \in [Cameras -> Procs \cup {NoProc}]
      /\ conn'[g] = p /\ \A h \in Cameras : h # g => conn'[h] = conn[h]
  BY <1>3 DEF SInv, CInv, ClientTypes
<1>6. /\ l \in EntryLabels \cup ExitLabels
      /\ l \notin {"done", "p_V", "x_led", "x_count", "idle"}
  BY <1>1 DEF EntryLabels, ExitLabels
<1>7. ClientTypes'
  BY <1>3, <1>5 DEF SInv, CInv, ClientTypes
<1>8. Paired'
  <2>1. ASSUME NEW h \in Cameras, Serves(h)'
        PROVE  /\ view[h] # NoPlate
               /\ pc'[conn'[h]] \in EntryLabels \cup ExitLabels \cup {"done"}
               /\ pc'[conn'[h]] # "done" => plate'[conn'[h]] = view[h]
    <3>1. CASE h = g
      BY <1>2, <1>3, <1>5, <1>6, <3>1, PlatesAssumption
    <3>2. CASE h # g
      <4>1. Serves(h) /\ conn[h] \in Procs /\ conn[h] # p
        BY <1>4, <1>5, <2>1, <3>2 DEF Serves
      <4> QED
        BY <1>2, <1>5, <3>2, <4>1 DEF SInv, CInv, Paired
    <3> QED
      BY <3>1, <3>2
  <2>2. \A h, k \in Cameras : conn'[h] = conn'[k] /\ Serves(h)' => h = k
    BY <1>4, <1>5 DEF SInv, CInv, Paired, Serves
  <2> QED
    BY <1>3, <2>1, <2>2 DEF Paired, SInv, CInv
<1>9. Watched'
  <2>1. ASSUME NEW q \in Procs, pc'[q] \in Asked
        PROVE  \E h \in Cameras : conn'[h] = q
    <3>1. CASE q = p
      BY <1>5, <3>1
    <3>2. CASE q # p
      <4>1. PICK h \in Cameras : conn[h] = q
        BY <1>2, <2>1, <3>2 DEF SInv, CInv, Watched
      <4>2. h # g
        BY <1>3, <4>1, NoChild
      <4> QED
        BY <1>5, <4>1, <4>2
    <3> QED
      BY <3>1, <3>2
  <2>2. ASSUME NEW q \in Procs
        PROVE  /\ pc'[q] \notin {"done", "p_V", "x_led"} => reply'[q] = "none"
               /\ pc'[q] = "x_led" => reply'[q] = "Exit Success"
    BY <1>2, <1>6 DEF SInv, CInv, Watched
  <2> QED
    BY <2>1, <2>2 DEF Watched
<1>10. Deals'
  <2>1. ASSUME NEW h \in Cameras, Serves(h)', NEW q, q = conn'[h], NEW c, c = view[h]
        PROVE  Deal(q, c)'
    <3>1. CASE h = g
      <4>1. q = p /\ c \in Plates
        BY <1>3, <1>5, <2>1, <3>1
      <4>2. \A k \in Cameras : view[k] = c => conn[k] = NoProc
        BY <1>3, <2>1, <3>1, PlatesAssumption DEF SInv, CInv, Paired
      <4>3. c \in inside <=> Parked(c)
        BY <4>1, <4>2 DEF SInv, CInv, ToldMatchesTable
      <4>4. Agree(c)'
        BY <1>2, <1>3, <4>3 DEF Agree, Parked, Slots
      <4> QED
        BY <1>1, <1>2, <4>1, <4>4 DEF Deal
    <3>2. CASE h # g
      <4>1. Serves(h) /\ q = conn[h] /\ q \in Procs /\ q # p
        BY <1>4, <1>5, <2>1, <3>2 DEF Serves
      <4>2. Deal(q, c)
        BY <2>1, <4>1 DEF SInv, CInv, Deals
      <4>3. pc'[q] = pc[q] /\ pos'[q] = pos[q] /\ reply'[q] = reply[q]
        BY <1>2, <4>1
      <4> QED
        BY <1>2, <1>3, <4>2, <4>3, DealSame
    <3> QED
      BY <3>1, <3>2
  <2> SUFFICES ASSUME NEW h \in Cameras, Serves(h)' PROVE Deal(conn[h], view[h])'
    BY DEF Deals
  <2>2. PICK q, c : q = conn'[h] /\ c = view[h]
    OBVIOUS
  <2>3. Deal(q, c)'
    BY <2>1, <2>2
  <2> QED
    BY <1>3, <2>2, <2>3 DEF Deal, Agree, In, Out, Parked
<1>11. CountsOnce'
  BY <1>2, <1>6 DEF SInv, CInv, CountsOnce
<1>12. NoDuplicatePlate'
  BY <1>2 DEF SInv, CInv, NoDuplicatePlate
<1>13. ToldMatchesTable'
  <2>1. ASSUME NEW c \in Plates, \A h \in Cameras : view[h] = c => conn'[h] = NoProc
        PROVE  c \in inside <=> Parked(c)
    <3>1. \A h \in Cameras : view[h] = c => conn[h] = NoProc
      BY <1>3, <1>5, <2>1
    <3> QED
      BY <3>1 DEF SInv, CInv, ToldMatchesTable
  <2> QED
    BY <1>2, <1>3, <2>1 DEF ToldMatchesTable, Parked
<1> QED
  BY <1>7, <1>8, <1>9, <1>10, <1>11, <1>12, <1>13 DEF CInv

\* A PAY thread's child is nobody's camera's child, so it disturbs nothing.
LEMMA PayConnectInv ==
  ASSUME SInv, NEW c \in Plates, NEW p \in Procs, PayConnect(c, p)
  PROVE  CInv'
<1>1. PICK n : Accept(p, "p_P", n, c)
  BY DEF PayConnect, AcceptPay
<1>2. /\ pc[p] = "idle" /\ pc'[p] = "p_P"
      /\ \A q \in Procs : q # p => pc'[q] = pc[q] /\ plate'[q] = plate[q]
      /\ UNCHANGED <<licence_plate, elec, pos, reply>>
  BY <1>1, AcceptOne DEF SInv, IInv
<1>3. UNCHANGED <<view, conn, inside>>
  BY DEF PayConnect
<1>4. \A h \in Cameras : conn[h] # p
  BY <1>2, IdleFree DEF SInv
<1>5. "p_P" \notin Asked \cup {"done", "p_V", "x_led", "x_count"}
  BY DEF Asked, EntryLabels, ExitLabels
<1>6. ClientTypes'
  BY <1>3 DEF SInv, CInv, ClientTypes
<1>7. ASSUME NEW h \in Cameras, Serves(h)
      PROVE  /\ conn[h] \in Procs /\ pc'[conn[h]] = pc[conn[h]]
             /\ plate'[conn[h]] = plate[conn[h]]
  <2>1. conn[h] \in Procs /\ conn[h] # p
    BY <1>4, <1>7 DEF SInv, CInv, ClientTypes, Serves
  <2> QED
    BY <1>2, <2>1
<1>8. Paired'
  BY <1>3, <1>7 DEF SInv, CInv, Paired, Serves
<1>9. Watched'
  <2>1. ASSUME NEW q \in Procs, pc'[q] \in Asked
        PROVE  \E h \in Cameras : conn'[h] = q
    <3>1. q # p
      BY <1>2, <1>5, <2>1
    <3>2. pc[q] \in Asked
      BY <1>2, <2>1, <3>1
    <3> QED
      BY <1>3, <3>2 DEF SInv, CInv, Watched
  <2>2. ASSUME NEW q \in Procs
        PROVE  /\ pc'[q] \notin {"done", "p_V", "x_led"} => reply'[q] = "none"
               /\ pc'[q] = "x_led" => reply'[q] = "Exit Success"
    BY <1>2, <1>5 DEF SInv, CInv, Watched
  <2> QED
    BY <2>1, <2>2 DEF Watched
<1>10. Deals'
  <2> SUFFICES ASSUME NEW h \in Cameras, Serves(h)' PROVE Deal(conn[h], view[h])'
    BY DEF Deals
  <2>1. Serves(h)
    BY <1>3 DEF Serves
  <2>2. PICK q, d : q = conn[h] /\ d = view[h]
    OBVIOUS
  <2>3. Deal(q, d)
    BY <2>1, <2>2 DEF SInv, CInv, Deals
  <2>4. pc'[q] = pc[q] /\ pos'[q] = pos[q] /\ reply'[q] = reply[q]
    BY <1>2, <1>7, <2>1, <2>2
  <2>5. Deal(q, d)'
    BY <1>2, <1>3, <2>3, <2>4, DealSame
  <2> QED
    BY <1>3, <2>2, <2>5 DEF Deal, Agree, In, Out, Parked
<1>11. CountsOnce'
  BY <1>2, <1>5 DEF SInv, CInv, CountsOnce
<1>12. NoDuplicatePlate'
  BY <1>2 DEF SInv, CInv, NoDuplicatePlate
<1>13. ToldMatchesTable'
  BY <1>2, <1>3 DEF SInv, CInv, ToldMatchesTable, Parked
<1> QED
  BY <1>6, <1>8, <1>9, <1>10, <1>11, <1>12, <1>13 DEF CInv

\* Where there is a reply for a camera, the child is done with the table.
LEMMA Replied ==
  ASSUME SInv, NEW g \in Cameras, Receive(g)
  PROVE  /\ conn[g] \in Procs /\ view[g] \in Plates
         /\ pc[conn[g]] \in {"done", "x_led"}
         /\ reply[conn[g]] # "none"
         /\ Deal(conn[g], view[g])
<1>1. Serves(g) /\ conn[g] \in Procs
  BY DEF Receive, Serves, SInv, CInv, ClientTypes
<1>2. view[g] \in Plates /\ Deal(conn[g], view[g])
  BY <1>1 DEF SInv, CInv, ClientTypes, Paired, Deals
<1>3. reply[conn[g]] # "none"
  BY DEF Receive
<1>4. pc[conn[g]] \in EntryLabels \cup ExitLabels \cup {"done"}
  BY <1>1 DEF SInv, CInv, Paired
<1>5. "p_V" \notin EntryLabels \cup ExitLabels \cup {"done"}
  BY DEF EntryLabels, ExitLabels
<1>6. pc[conn[g]] \in {"done", "x_led"}
  BY <1>1, <1>3, <1>4, <1>5 DEF SInv, CInv, Watched
<1> QED
  BY <1>1, <1>2, <1>3, <1>6

\* What the car is told agrees with the table.
LEMMA ToldNow ==
  ASSUME SInv, NEW g \in Cameras, Receive(g)
  PROVE  view[g] \in inside' <=> Parked(view[g])
<1> DEFINE q == conn[g]
           c == view[g]
<1>1. /\ pc[q] \in {"done", "x_led"} /\ reply[q] # "none" /\ Deal(q, c)
  BY Replied
<1>2. CASE pc[q] = "x_led"
  <2>1. reply[q] = "Exit Success" /\ ~Parked(c)
    BY <1>1, <1>2, Replied DEF SInv, CInv, Watched, Deal
  <2>2. inside' = inside \ {c}
    BY <2>1 DEF Receive
  <2> QED
    BY <2>1, <2>2
<1>3. CASE pc[q] = "done"
  <2>1. CASE reply[q] = "Entry Success"
    <3>1. Parked(c)
      BY <1>1, <1>3, <2>1 DEF Deal
    <3>2. inside' = inside \cup {c}
      BY <2>1 DEF Receive
    <3> QED
      BY <3>1, <3>2
  <2>2. CASE reply[q] = "Exit Success"
    <3>1. ~Parked(c)
      BY <1>1, <1>3, <2>2 DEF Deal
    <3>2. inside' = inside \ {c}
      BY <2>2 DEF Receive
    <3> QED
      BY <3>1, <3>2
  <2>3. CASE reply[q] \notin {"Entry Success", "Exit Success"}
    <3>1. inside' = inside
      BY <2>3 DEF Receive
    <3>2. reply[q] \in {"already parked", "Exit Failed, Please pay",
                        "Exit Failed, Please Repay", "No space", "Car doesn't exist"}
      BY <1>1, <1>3, <2>3 DEF Deal, CameraReplies
    <3>3. In(c) \/ Out(c)
      BY <1>1, <1>3, <3>2 DEF Deal
    <3> QED
      BY <3>1, <3>3 DEF In, Out
  <2> QED
    BY <2>1, <2>2, <2>3
<1> QED
  BY <1>1, <1>2, <1>3

\* A camera reads its reply and lets its child go.
LEMMA ReceiveInv ==
  ASSUME SInv, NEW g \in Cameras, Receive(g)
  PROVE  CInv'
<1>1. /\ UNCHANGED <<vars, view>> /\ conn' = [conn EXCEPT ![g] = NoProc]
  BY DEF Receive
<1>2. UNCHANGED <<licence_plate, elec, pos, reply, pc, plate>>
  BY <1>1 DEF vars, store, table, locals, scratch
<1>3. \A c : c # view[g] => (c \in inside' <=> c \in inside)
  BY DEF Receive
<1>4. inside' \subseteq Plates
  BY Replied DEF Receive, SInv, CInv, ClientTypes
<1>5. /\ conn \in [Cameras -> Procs \cup {NoProc}]
      /\ conn'[g] = NoProc /\ \A h \in Cameras : h # g => conn'[h] = conn[h]
  BY <1>1 DEF SInv, CInv, ClientTypes
<1>6. ClientTypes'
  BY <1>1, <1>4, <1>5 DEF SInv, CInv, ClientTypes
<1>7. \A h \in Cameras : Serves(h)' => Serves(h) /\ h # g /\ conn'[h] = conn[h]
  BY <1>5 DEF Serves
<1>8. Paired'
  <2>1. \A h, k \in Cameras : view'[h] = view'[k] /\ view'[h] # NoPlate => h = k
    BY <1>1 DEF SInv, CInv, Paired
  <2>2. \A h, k \in Cameras : conn'[h] = conn'[k] /\ Serves(h)' => h = k
    BY <1>5, <1>7 DEF SInv, CInv, Paired, Serves
  <2>3. ASSUME NEW h \in Cameras, Serves(h)'
        PROVE  /\ view[h] # NoPlate
               /\ pc[conn'[h]] \in EntryLabels \cup ExitLabels \cup {"done"}
               /\ pc[conn'[h]] # "done" => plate[conn'[h]] = view[h]
    BY <1>7, <2>3 DEF SInv, CInv, Paired
  <2> QED
    BY <1>1, <1>2, <2>1, <2>2, <2>3 DEF Paired
<1>9. Watched'
  <2>1. ASSUME NEW q \in Procs, pc[q] \in Asked
        PROVE  \E h \in Cameras : conn'[h] = q
    <3>1. PICK h \in Cameras : conn[h] = q
      BY <2>1 DEF SInv, CInv, Watched
    <3>2. {"done", "x_led"} \cap Asked = {}
      BY DEF Asked, EntryLabels, ExitLabels
    <3>3. h # g
      BY <2>1, <3>1, <3>2, Replied
    <3> QED
      BY <1>5, <3>1, <3>3
  <2> QED
    BY <1>2, <2>1 DEF SInv, CInv, Watched
<1>10. Deals'
  <2> SUFFICES ASSUME NEW h \in Cameras, Serves(h)' PROVE Deal(conn[h], view[h])'
    BY DEF Deals
  <2>1. Serves(h) /\ h # g /\ conn'[h] = conn[h]
    BY <1>7
  <2>2. PICK q, c : q = conn[h] /\ c = view[h]
    OBVIOUS
  <2>3. Deal(q, c)
    BY <2>1, <2>2 DEF SInv, CInv, Deals
  <2>4. c # view[g]
    BY <2>1, <2>2 DEF SInv, CInv, Paired
  <2>5. Deal(q, c)'
    BY <1>2, <1>3, <2>3, <2>4, DealSame
  <2> QED
    BY <1>1, <2>1, <2>2, <2>5 DEF Deal, Agree, In, Out, Parked
<1>11. CountsOnce' /\ NoDuplicatePlate'
  BY <1>2 DEF SInv, CInv, CountsOnce, NoDuplicatePlate
<1>12. ToldMatchesTable'
  <2>1. ASSUME NEW c \in Plates, \A h \in Cameras : view[h] = c => conn'[h] = NoProc
        PROVE  c \in inside' <=> Parked(c)
    <3>1. CASE c = view[g]
      BY <3>1, ToldNow
    <3>2. CASE c # view[g]
      <4>1. \A h \in Cameras : view[h] = c => conn[h] = NoProc
        BY <1>5, <2>1, <3>2
      <4>2. c \in inside <=> Parked(c)
        BY <4>1 DEF SInv, CInv, ToldMatchesTable
      <4> QED
        BY <1>3, <3>2, <4>2
    <3> QED
      BY <3>1, <3>2
  <2> QED
    BY <1>1, <1>2, <2>1 DEF ToldMatchesTable, Parked
<1> QED
  BY <1>6, <1>8, <1>9, <1>10, <1>11, <1>12 DEF CInv

\* Cars come and go only in front of cameras that wait for nothing.
LEMMA CarsInv ==
  ASSUME SInv, NEW g \in Cameras,
         DriveOn(g) \/ \E c \in Plates : Arrive(g, c)
  PROVE  CInv'
<1>1. UNCHANGED <<vars, conn, inside>>
  BY DEF DriveOn, Arrive
<1>2. UNCHANGED <<licence_plate, elec, pos, reply, pc, plate>>
  BY <1>1 DEF vars, store, table, locals, scratch
<1>3. PICK d \in Plates \cup {NoPlate} :
        /\ view' = [view EXCEPT ![g] = d]
        /\ d # NoPlate => \A h \in Cameras : view[h] # d
  BY DEF DriveOn, Arrive
<1>4. ~Serves(g)
  BY DEF DriveOn, Arrive, SInv, CInv, Paired, Serves
<1>5. /\ view \in [Cameras -> Plates \cup {NoPlate}]
      /\ view'[g] = d /\ \A h \in Cameras : h # g => view'[h] = view[h]
  BY <1>3 DEF SInv, CInv, ClientTypes
<1>6. ClientTypes'
  BY <1>1, <1>3, <1>5 DEF SInv, CInv, ClientTypes
<1>7. Paired'
  <2>1. \A h, k \in Cameras : view'[h] = view'[k] /\ view'[h] # NoPlate => h = k
    BY <1>3, <1>5 DEF SInv, CInv, Paired
  <2>2. \A h \in Cameras : Serves(h)' => h # g /\ Serves(h)
    BY <1>1, <1>4 DEF Serves
  <2>3. ASSUME NEW h \in Cameras, Serves(h)'
        PROVE  /\ view'[h] # NoPlate
               /\ pc[conn[h]] \in EntryLabels \cup ExitLabels \cup {"done"}
               /\ pc[conn[h]] # "done" => plate[conn[h]] = view'[h]
    BY <1>5, <2>2, <2>3 DEF SInv, CInv, Paired
  <2>4. \A h, k \in Cameras : conn[h] = conn[k] /\ Serves(h) => h = k
    BY DEF SInv, CInv, Paired
  <2> QED
    BY <1>1, <1>2, <2>1, <2>2, <2>3, <2>4 DEF Paired
<1>8. Watched'
  BY <1>1, <1>2 DEF SInv, CInv, Watched
<1>9. Deals'
  <2> SUFFICES ASSUME NEW h \in Cameras, Serves(h)' PROVE Deal(conn[h], view[h])'
    BY DEF Deals
  <2>1. Serves(h) /\ h # g
    BY <1>1, <1>4 DEF Serves
  <2>2. PICK q, c : q = conn[h] /\ c = view[h]
    OBVIOUS
  <2>3. Deal(q, c)
    BY <2>1, <2>2 DEF SInv, CInv, Deals
  <2>4. Deal(q, c)'
    BY <1>1, <1>2, <2>3, DealSame
  <2> QED
    BY <1>1, <1>5, <2>1, <2>2, <2>4 DEF Deal, Agree, In, Out, Parked
<1>10. CountsOnce' /\ NoDuplicatePlate'
  BY <1>2 DEF SInv, CInv, CountsOnce, NoDuplicatePlate
<1>11. ToldMatchesTable'
  <2>1. ASSUME NEW c \in Plates, \A h \in Cameras : view'[h] = c => conn[h] = NoProc
        PROVE  c \in inside <=> Parked(c)
    <3>1. \A h \in Cameras : view[h] = c => conn[h] = NoProc
      BY <1>4, <1>5, <2>1 DEF Serves
    <3> QED
      BY <3>1 DEF SInv, CInv, ToldMatchesTable
  <2> QED
    BY <1>1, <1>2, <2>1 DEF ToldMatchesTable, Parked
<1> QED
  BY <1>6, <1>7, <1>8, <1>9, <1>10, <1>11 DEF CInv

\* The clock, and steps in which nothing moves.
LEMMA StillInv ==
  ASSUME SInv, UNCHANGED <<licence_plate, elec, pos, reply, pc, plate>>,
         UNCHANGED <<view, conn, inside>>
  PROVE  CInv'
<1>1. UNCHANGED <<view, conn, inside>>
  OBVIOUS
<1>2. ClientTypes' /\ CountsOnce' /\ NoDuplicatePlate'
  BY <1>1 DEF SInv, CInv, ClientTypes, CountsOnce, NoDuplicatePlate
<1>3. Paired'
  BY <1>1 DEF SInv, CInv, Paired, Serves
<1>6. Watched'
  BY <1>1 DEF SInv, CInv, Watched
<1>4. Deals'
  <2> SUFFICES ASSUME NEW h \in Cameras, Serves(h)' PROVE Deal(conn[h], view[h])'
    BY DEF Deals
  <2>1. Serves(h)
    BY <1>1 DEF Serves
  <2>2. PICK q, d : q = conn[h] /\ d = view[h]
    OBVIOUS
  <2>3. Deal(q, d)
    BY <2>1, <2>2 DEF SInv, CInv, Deals
  <2>4. Deal(q, d)'
    BY <1>1, <2>3, DealSame
  <2> QED
    BY <1>1, <2>2, <2>4 DEF Deal, Agree, In, Out, Parked
<1>5. ToldMatchesTable'
  BY <1>1 DEF SInv, CInv, ToldMatchesTable, Parked, Slots
<1> QED
  BY <1>2, <1>3, <1>4, <1>5, <1>6 DEF CInv

-----------------------------------------------------------------------------
(* The invariant holds.                                                    *)

\* At the start nobody is parked, inside or at a camera.
LEMMA SysInitInv == SysInit => SInv
<1> SUFFICES ASSUME SysInit PROVE SInv
  OBVIOUS
<1>1. IInv
  BY InitInv DEF SysInit
<1>2. /\ view = [g \in Cameras |-> NoPlate] /\ conn = [g \in Cameras |-> NoProc]
      /\ inside = {}
  BY DEF SysInit
<1>3. /\ \A i \in Slots : licence_plate[i] = NoPlate
      /\ \A p \in Procs : pc[p] = "idle" /\ reply[p] = "none"
  BY DEF SysInit, Init
<1>4. \A g \in Cameras : ~Serves(g)
  BY <1>2 DEF Serves
<1>5. ClientTypes
  BY <1>2 DEF ClientTypes
<1>6. Paired
  BY <1>2, <1>4 DEF Paired
<1>7. Watched
  BY <1>3 DEF Watched, Asked, EntryLabels, ExitLabels
<1>8. Deals /\ CountsOnce
  BY <1>3, <1>4 DEF Deals, CountsOnce
<1>9. NoDuplicatePlate
  BY <1>3 DEF NoDuplicatePlate
<1>10. ToldMatchesTable
  BY <1>2, <1>3, PlatesAssumption DEF ToldMatchesTable, Parked
<1> QED
  BY <1>1, <1>5, <1>6, <1>7, <1>8, <1>9, <1>10 DEF SInv, CInv

\* Every step of the system keeps it.
LEMMA SysNextInv == SInv /\ [SysNext]_sysvars => SInv'
<1> SUFFICES ASSUME SInv, [SysNext]_sysvars PROVE SInv'
  OBVIOUS
<1>1. IInv'
  BY SystemStep, NextInv DEF SInv, CInv
<1>2. ASSUME UNCHANGED sysvars PROVE CInv'
  <2>1. /\ UNCHANGED <<licence_plate, elec, pos, reply, pc, plate>>
        /\ UNCHANGED <<view, conn, inside>>
    BY <1>2 DEF sysvars, client, vars, store, table, locals, scratch
  <2> QED
    BY <2>1, StillInv
<1>3. ASSUME Tick, UNCHANGED client PROVE CInv'
  <2>1. /\ UNCHANGED <<licence_plate, elec, pos, reply, pc, plate>>
        /\ UNCHANGED <<view, conn, inside>>
    BY <1>3 DEF Tick, client, store, table, locals, scratch
  <2> QED
    BY <2>1, StillInv
<1>4. ASSUME NEW g \in Cameras, DriveOn(g) \/ \E c \in Plates : Arrive(g, c)
      PROVE  CInv'
  BY <1>4, CarsInv
<1>5. ASSUME NEW g \in Cameras, Receive(g) PROVE CInv'
  BY <1>5, ReceiveInv
<1>6. ASSUME NEW p \in Procs, ServerStep(p) \/ CustomerStep(p) PROVE CInv'
  BY <1>6, ServerInv
<1>7. ASSUME NEW p \in Procs, NEW g \in Cameras, Scan(g, p) PROVE CInv'
  BY <1>7, ScanInv
<1>8. ASSUME NEW p \in Procs, NEW c \in Plates, PayConnect(c, p) PROVE CInv'
  BY <1>8, PayConnectInv
<1>9. CInv'
  <2>1. CASE \E g \in Cameras : DriveOn(g) \/ Receive(g)
    BY <2>1, <1>4, <1>5
  <2>2. CASE \E g \in Cameras, c \in Plates : Arrive(g, c)
    BY <2>2, <1>4
  <2>3. ASSUME NEW p \in Procs, ChildMoves(p) PROVE CInv'
    BY <2>3, <1>6, <1>7, <1>8 DEF ChildMoves
  <2> QED
    BY <1>2, <1>3, <2>1, <2>2, <2>3 DEF SysNext, ChildMoves, client
<1> QED
  BY <1>1, <1>9 DEF SInv

\* SInv holds in every reachable state of the lot with its clients.
THEOREM SystemInvariance == SysSpec => []SInv
<1> QED
  BY SysInitInv, SysNextInv, PTL DEF SysSpec

\* The server as its clients drive it is the server of ParkingServer, so what
\* is proved of that one for arbitrary clients holds in the system.
THEOREM SystemServes == SysSpec => Spec
<1>1. SysInit => Init
  BY DEF SysInit
<1>2. SInv /\ [SysNext]_sysvars => [Next]_vars
  BY SystemStep DEF SInv, CInv
<1> QED
  BY <1>1, <1>2, SystemInvariance, PTL DEF SysSpec, Spec

-----------------------------------------------------------------------------
(* What follows from it.                                                   *)

\* CashExact: with the client's requests the till loses no payment either.
THEOREM SystemTill == SysSpec => []CashExact
<1> QED
  BY SystemServes, TillExact, PTL

\* NoDuplicatePlate: entry() scans for the plate before it takes sem_mutex,
\* and still no car is parked twice.
THEOREM SystemNoDuplicate == SysSpec => []NoDuplicatePlate
<1>1. SInv => NoDuplicatePlate
  BY DEF SInv, CInv
<1> QED
  BY <1>1, SystemInvariance, PTL

\* NoStrayIndex: exitpark() never uses the index -1 of a failed scan or of a
\* slot that is already counted as free.
THEOREM SystemNoStray == SysSpec => []NoStrayIndex
<1>1. SInv => NoStrayIndex
  <2> SUFFICES ASSUME SInv, NEW p \in Procs
               PROVE  /\ pc[p] \in {"x_paid", "x_grace"} => pos[p] # -1
                      /\ pc[p] = "x_count" => elec[pos[p]] # -1
    BY DEF NoStrayIndex
  <2>1. ASSUME pc[p] \in {"x_paid", "x_grace"} PROVE pos[p] # -1
    <3>1. pc[p] \in Asked
      BY <2>1 DEF Asked, ExitLabels
    <3>2. PICK g \in Cameras : Deal(p, view[g])
      BY <3>1, ServedBy DEF SInv
    <3>3. pos[p] \in Slots
      BY <2>1, <3>2 DEF Deal
    <3> QED
      BY <3>3 DEF Slots
  <2> QED
    BY <2>1 DEF SInv, CInv, CountsOnce
<1> QED
  BY <1>1, SystemInvariance, PTL

\* ToldMatchesTable: what the gates told the cars agrees with car[].
THEOREM SystemTold == SysSpec => []ToldMatchesTable
<1>1. SInv => ToldMatchesTable
  BY DEF SInv, CInv
<1> QED
  BY <1>1, SystemInvariance, PTL

\* ExitClearsOwnCar: the slot that exitpark() found before it took sem_mutex
\* still holds its own car when it clears it.
THEOREM SystemExitClears == SysSpec => ExitClearsOwnCar
<1> DEFINE A == \A i \in Slots : licence_plate[i] # NoPlate /\ licence_plate'[i] = NoPlate
              => \E p \in Procs : /\ pc[p] = "x_clear" /\ pc'[p] = "x_count"
                                  /\ pos[p] = i
                                  /\ plate[p] = licence_plate[i]
<1>1. SInv /\ [SysNext]_sysvars => [A]_sysvars
  <2> SUFFICES ASSUME SInv, SysNext, NEW i \in Slots,
                      licence_plate[i] # NoPlate, licence_plate'[i] = NoPlate
               PROVE  \E p \in Procs : /\ pc[p] = "x_clear" /\ pc'[p] = "x_count"
                                       /\ pos[p] = i
                                       /\ plate[p] = licence_plate[i]
    OBVIOUS
  <2>1. [Next]_vars
    BY SystemStep DEF SInv, CInv
  <2>2. licence_plate' # licence_plate
    OBVIOUS
  <2>3. PICK p \in Procs : Step(p)
    BY <2>1, <2>2 DEF Next, Step, Tick, vars, store, table
  <2>4. EntryPlate(p) \/ ExitClear(p)
    BY <2>2, <2>3, Writers
  <2>5. /\ licence_plate \in [Slots -> Plates \cup {NoPlate}]
        /\ pc \in [Procs -> Labels]
    BY DEF SInv, IInv, TypeOK, LocalOK, SharedOK
  <2>6. ~EntryPlate(p)
    <3> SUFFICES ASSUME EntryPlate(p) PROVE FALSE
      OBVIOUS
    <3>1. /\ pc[p] = "e_plate"
          /\ licence_plate' = [licence_plate EXCEPT ![pos[p]] = plate[p]]
      BY DEF EntryPlate, Go
    <3>2. PICK g \in Cameras : Serves(g) /\ plate[p] = view[g]
      BY <3>1, ServedBy DEF SInv, Asked, EntryLabels
    <3>3. plate[p] # NoPlate
      BY <3>2 DEF SInv, CInv, Paired
    <3> QED
      BY <2>5, <3>1, <3>3
  <2>7. /\ pc[p] = "x_clear" /\ pc'[p] = "x_count"
        /\ licence_plate' = [licence_plate EXCEPT ![pos[p]] = NoPlate]
    BY <2>4, <2>5, <2>6 DEF ExitClear, Go
  <2>8. pos[p] = i
    BY <2>5, <2>7
  <2>9. PICK g \in Cameras : plate[p] = view[g] /\ Deal(p, view[g])
    BY <2>7, ServedBy DEF SInv, Asked, ExitLabels
  <2>10. plate[p] = licence_plate[pos[p]]
    BY <2>7, <2>9 DEF Deal
  <2> QED
    BY <2>7, <2>8, <2>10
<1> QED
  BY <1>1, SystemInvariance, PTL DEF SysSpec, ExitClearsOwnCar

-----------------------------------------------------------------------------
(* The lot with gates.                                                     *)

\* A car has a slot where the table says that it is parked.
LEMMA SlotNamesParked ==
  /\ Slots = 0 .. NumElec + NumFuel - 1
  /\ \A c : WithGates!HasSlot(c) <=> Parked(c)
<1>1. Slots = 0 .. NumElec + NumFuel - 1
  BY SlotNames
<1> QED
  BY <1>1 DEF WithGates!HasSlot, Parked

\* A reply that moves a barrier is LetIn or LetOut.
LEMMA ReceiveGates ==
  ASSUME SInv, NEW g \in Cameras, Receive(g)
  PROVE  [WithGates!GatesNext]_<<licence_plate, inside>>
<1> DEFINE c == view[g]
<1>1. c \in ElecPlates \cup FuelPlates /\ (c \in inside' <=> Parked(c))
  BY Replied, ToldNow DEF Plates
<1>2. /\ inside' \in {inside, inside \cup {c}, inside \ {c}}
      /\ UNCHANGED licence_plate
  BY DEF Receive, vars, store, table
<1>3. CASE inside' = inside
  BY <1>2, <1>3
<1>4. CASE c \notin inside /\ inside' = inside \cup {c}
  BY <1>1, <1>2, <1>4, SlotNamesParked DEF WithGates!LetIn, WithGates!GatesNext
<1>5. CASE c \in inside /\ inside' = inside \ {c}
  BY <1>1, <1>2, <1>5, SlotNamesParked DEF WithGates!LetOut, WithGates!GatesNext
<1> QED
  BY <1>2, <1>3, <1>4, <1>5

\* The strcpy of entry() reserves the slot for a car that has none and is
\* outside; the strcpy of exitpark() vacates that of a car inside.
LEMMA TableGates ==
  ASSUME SInv, NEW p \in Procs, Step(p), UNCHANGED inside
  PROVE  [WithGates!GatesNext]_<<licence_plate, inside>>
<1>1. CASE UNCHANGED licence_plate
  BY <1>1
<1>2. CASE EntryPlate(p)
  <2>1. /\ pc[p] = "e_plate"
        /\ licence_plate' = [licence_plate EXCEPT ![pos[p]] = plate[p]]
    BY <1>2 DEF EntryPlate, Go
  <2>2. /\ plate[p] \in Plates
        /\ pos[p] \in SlotsOf(plate[p])
        /\ licence_plate[pos[p]] = NoPlate
    BY <2>1 DEF SInv, IInv, PosInRange, ClaimLabels, TablesAgree
  <2>3. WithGates!Park(plate[p], pos[p])
    <3>1. SlotsOf(plate[p]) = WithGates!RowFor(plate[p])
      BY SlotNames DEF Lot!RowFor, WithGates!RowFor
    <3> QED
      BY <2>1, <2>2, <3>1 DEF WithGates!Park
  <2>4. plate[p] \notin inside /\ ~Parked(plate[p])
    <3>1. pc[p] \in Asked
      BY <2>1 DEF Asked, EntryLabels
    <3>2. PICK g \in Cameras : plate[p] = view[g] /\ Deal(p, view[g])
      BY <3>1, ServedBy DEF SInv
    <3> QED
      BY <2>1, <3>2 DEF Deal, Out
  <2>5. WithGates!Reserve(plate[p], pos[p])
    BY <2>3, <2>4, SlotNamesParked DEF WithGates!Reserve
  <2>6. /\ pos[p] \in 0 .. NumElec + NumFuel - 1
        /\ plate[p] \in ElecPlates \cup FuelPlates
    BY <2>2, SlotsOfSlots, SlotNames DEF Plates
  <2> QED
    BY <2>5, <2>6 DEF WithGates!GatesNext
<1>3. CASE ExitClear(p)
  <2>1. /\ pc[p] = "x_clear"
        /\ licence_plate' = [licence_plate EXCEPT ![pos[p]] = NoPlate]
    BY <1>3 DEF ExitClear, Go
  <2>2. PICK g \in Cameras : Serves(g) /\ Deal(p, view[g])
    BY <2>1, ServedBy DEF SInv, Asked, ExitLabels
  <2>3. /\ view[g] \in inside /\ view[g] # NoPlate
        /\ pos[p] \in Slots /\ licence_plate[pos[p]] = view[g]
    BY <2>1, <2>2 DEF Deal, SInv, CInv, Paired
  <2>4. WithGates!Vacate(pos[p])
    BY <2>1, <2>3 DEF WithGates!Vacate, WithGates!Leave
  <2> QED
    BY <2>3, <2>4, SlotNames DEF WithGates!GatesNext
<1> QED
  BY <1>1, <1>2, <1>3, Writers

\* ImplementsGates: server and client together take every car through the
\* four steps of ParkingGates, in their order.
THEOREM SystemGates == SysSpec => ImplementsGates
<1>1. SysInit => WithGates!GatesInit
  BY SlotNames DEF SysInit, Init, WithGates!GatesInit, WithGates!Init
<1>2. SInv /\ [SysNext]_sysvars => [WithGates!GatesNext]_<<licence_plate, inside>>
  <2> SUFFICES ASSUME SInv, [SysNext]_sysvars
               PROVE  [WithGates!GatesNext]_<<licence_plate, inside>>
    OBVIOUS
  <2>1. ASSUME NEW g \in Cameras, Receive(g)
        PROVE  [WithGates!GatesNext]_<<licence_plate, inside>>
    BY <2>1, ReceiveGates
  <2>2. ASSUME NEW p \in Procs, ChildMoves(p)
        PROVE  [WithGates!GatesNext]_<<licence_plate, inside>>
    <3>1. UNCHANGED inside
      BY <2>2 DEF ChildMoves, ServerStep, CustomerStep, Scan, PayConnect, client
    <3> QED
      BY <2>2, <3>1, ChildMovesStep, TableGates DEF SInv, CInv
  <2>3. CASE UNCHANGED <<licence_plate, inside>>
    BY <2>3
  <2>4. CASE UNCHANGED sysvars
    BY <2>3, <2>4 DEF sysvars, client, vars, store, table
  <2>5. CASE Tick /\ UNCHANGED client
    BY <2>3, <2>5 DEF Tick, client, store, table
  <2>6. ASSUME NEW g \in Cameras, DriveOn(g) \/ \E c \in Plates : Arrive(g, c)
        PROVE  UNCHANGED <<licence_plate, inside>>
    BY <2>6 DEF DriveOn, Arrive, vars, store, table
  <2> QED
    BY <2>1, <2>2, <2>3, <2>4, <2>5, <2>6 DEF SysNext, ChildMoves
<1>3. SysSpec => WithGates!GatesSpec
  BY <1>1, <1>2, SystemInvariance, PTL DEF SysSpec, WithGates!GatesSpec
<1> QED
  BY <1>3 DEF ImplementsGates

=============================================================================
