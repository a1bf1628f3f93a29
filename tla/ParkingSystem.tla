---------------------------- MODULE ParkingSystem ----------------------------
(***************************************************************************)
(* The server of ParkingServer together with its client,                   *)
(* FinalProject/client.py: one process per camera, each with one request   *)
(* outstanding, and a PAY thread for every "Entry Success" and every       *)
(* "Exit Failed" reply.  Cameras 1 and 2 are the entry gates, 3 and 4 the  *)
(* exits.  The cars are the physical world: a car is in front of at most   *)
(* one camera, is scanned any number of times there, and goes in and out   *)
(* only when it is told to.                                                *)
(***************************************************************************)
EXTENDS ParkingServer

CONSTANTS
    Cameras,        \* the cameras in use, a subset of 1..4
    NoProc,         \* no connection
    MaxPayers       \* bound on the sleeping PAY threads of one plate

ASSUME ClientAssumption ==
    /\ Cameras \subseteq 1 .. 4
    /\ NoProc \notin Procs
    /\ MaxPayers \in Nat \ {0}

VARIABLES
    view,           \* the plate in front of each camera
    conn,           \* the child each camera waits for
    payers,         \* PAY threads that have not connected yet, per plate
    inside          \* the cars that were let in and not let out

client == <<view, conn, payers, inside>>
sysvars == <<vars, client>>

EntryCameras == Cameras \cap Gates
ExitCameras == Cameras \ Gates

SysInit ==
    /\ Init
    /\ view = [g \in Cameras |-> NoPlate]
    /\ conn = [g \in Cameras |-> NoProc]
    /\ payers = [c \in Plates |-> 0]
    /\ inside = {}

-----------------------------------------------------------------------------
(* The cars.                                                               *)

Arrive(g, c) ==
    /\ view[g] = NoPlate
    /\ \A h \in Cameras : view[h] # c
    /\ c \in inside <=> g \in ExitCameras
    /\ view' = [view EXCEPT ![g] = c]
    /\ UNCHANGED <<vars, conn, payers, inside>>

DriveOn(g) ==
    /\ view[g] # NoPlate
    /\ conn[g] = NoProc
    /\ view' = [view EXCEPT ![g] = NoPlate]
    /\ UNCHANGED <<vars, conn, payers, inside>>

-----------------------------------------------------------------------------
(* process_camera(): send the plate, wait for the reply, act on it.        *)

\* Mutant: a camera that got no reply yet sends its request again.
Scan_Impatient(g, p) ==
    /\ view[g] # NoPlate
    /\ payers[view[g]] < MaxPayers
    /\ \/ g \in EntryCameras /\ AcceptEntry(p, g, view[g])
       \/ g \in ExitCameras /\ AcceptExit(p, view[g])
    /\ conn' = [conn EXCEPT ![g] = p]
    /\ UNCHANGED <<view, payers, inside>>

Scan(g, p) ==
    /\ conn[g] = NoProc
    /\ view[g] # NoPlate
    /\ payers[view[g]] < MaxPayers
    /\ \/ g \in EntryCameras /\ AcceptEntry(p, g, view[g])
       \/ g \in ExitCameras /\ AcceptExit(p, view[g])
    /\ conn' = [conn EXCEPT ![g] = p]
    /\ UNCHANGED <<view, payers, inside>>

StartPay(c) == payers' = [payers EXCEPT ![c] = @ + 1]

Receive(g) ==
    /\ conn[g] # NoProc
    /\ LET r == reply[conn[g]]
           c == view[g]
       IN  \/ /\ r = "Entry Success"
              /\ inside' = inside \cup {c}
              /\ StartPay(c)
           \/ /\ r = "Exit Success"
              /\ inside' = inside \ {c}
              /\ UNCHANGED payers
           \/ /\ r \in {"Exit Failed, Please pay", "Exit Failed, Please Repay"}
              /\ StartPay(c)
              /\ UNCHANGED inside
           \/ /\ r \in {"No space", "already parked", "Car doesn't exist"}
              /\ UNCHANGED <<payers, inside>>
    /\ conn' = [conn EXCEPT ![g] = NoProc]
    /\ UNCHANGED <<vars, view>>

-----------------------------------------------------------------------------
(* PAY(): connects some time after it was started, and pays what is asked. *)

PayConnect(c, p) ==
    /\ payers[c] > 0
    /\ payers' = [payers EXCEPT ![c] = @ - 1]
    /\ AcceptPay(p, c)
    /\ UNCHANGED <<view, conn, inside>>

\* A reply is kept by the kernel until its camera reads it.
ServerStep(p) ==
    /\ EntryStep(p) \/ ExitStep(p) \/ PayServerStep(p)
         \/ (ChildExit(p) /\ \A g \in Cameras : conn[g] # p)
    /\ UNCHANGED client

CustomerStep(p) == Customer(p) /\ UNCHANGED client

SysNext ==
    \/ Tick /\ UNCHANGED client
    \/ \E g \in Cameras : DriveOn(g) \/ Receive(g)
    \/ \E g \in Cameras, c \in Plates : Arrive(g, c)
    \/ \E p \in Procs :
          \/ ServerStep(p) \/ CustomerStep(p)
          \/ \E g \in Cameras : Scan(g, p)
          \/ \E c \in Plates : PayConnect(c, p)

SysSpec == SysInit /\ [][SysNext]_sysvars

-----------------------------------------------------------------------------
(* Fairness: the scheduler runs every child and every client process that  *)
(* can run, and the kernel hands a System V semaphore to its waiters in    *)
(* order of arrival, so no child is overtaken for ever in P().  Nothing is *)
(* assumed of the cars, of the PAY threads or of the customers.            *)

WaitMutex(p) ==
    /\ EntryP(p) \/ ExitLateP(p) \/ ExitP(p) \/ PayStampP(p) \/ PayCashP(p)
    /\ UNCHANGED client
WaitStation(p) == PayP(p) /\ UNCHANGED client

Fairness ==
    /\ \A p \in Procs : /\ WF_sysvars(ServerStep(p))
                        /\ SF_sysvars(WaitMutex(p))
                        /\ SF_sysvars(WaitStation(p))
    /\ \A g \in Cameras : WF_sysvars(Receive(g))

FairSysSpec == SysSpec /\ Fairness

-----------------------------------------------------------------------------
(* Properties.                                                             *)

Parked(c) == \E i \in Slots : licence_plate[i] = c

\* The scan for a plate that is already parked runs outside sem_mutex
\* (server.c:90-107); a car that is at one gate at a time is still never
\* parked twice.
NoDuplicatePlate ==
    \A i, j \in Slots :
        licence_plate[i] = licence_plate[j] /\ licence_plate[i] # NoPlate => i = j

\* exitpark() never uses index -1: the plate does not vanish between its two
\* scans, and no other exit has cleared the slot it is about to count.
NoStrayIndex ==
    \A p \in Procs :
        /\ pc[p] \in {"x_paid", "x_grace"} => pos[p] # -1
        /\ pc[p] = "x_count" => elec[pos[p]] # -1

\* exitpark() clears the slot of the plate it was asked about, although it
\* found the slot before it took sem_mutex.
ExitClearsOwnCar ==
    [][\A i \in Slots : licence_plate[i] # NoPlate /\ licence_plate'[i] = NoPlate
          => \E p \in Procs : /\ pc[p] = "x_clear" /\ pc'[p] = "x_count"
                              /\ pos[p] = i
                              /\ plate[p] = licence_plate[i]]_sysvars

\* What the cars were told agrees with the table: when no camera waits for a
\* reply about car c, c was let in and not out exactly if the table has it.
ToldMatchesTable ==
    \A c \in Plates :
        (\A g \in Cameras : view[g] = c => conn[g] = NoProc)
            => (c \in inside <=> Parked(c))

\* Server and client together implement the lot with gates: slots and barriers
\* serve every car in the same order (reserved, let in, vacated, let out),
\* although replies travel, scans run without the mutex and each car is seen
\* by several children and PAY threads.
WithGates == INSTANCE ParkingGates WITH lot <- licence_plate
ImplementsGates == WithGates!GatesSpec

\* Every camera gets an answer, even if the customers at the pay stations
\* never pay: no child waits for a customer while it holds sem_mutex.
CamerasAnswered == \A g \in Cameras : conn[g] # NoProc ~> conn[g] = NoProc

\* A customer whose money was taken gets it booked, the car stamped and the
\* receipt: waiting for sem_mutex inside sem_counting cannot deadlock.
PaymentsBooked ==
    \A p \in Procs : pc[p] = "p_stampP" ~> reply[p] = "Payment Success"

=============================================================================
