-------------------------- MODULE ParkingLifecycle --------------------------
(***************************************************************************)
(* Starting and stopping the parking server: main() up to its accept loop  *)
(* and the SIGINT handler of FinalProject/server.c.                        *)
(*                                                                         *)
(* The server creates two semaphores (which must not exist yet) and four   *)
(* shared memory segments (which it takes over when they do).  They belong *)
(* to the kernel and survive the process; SIGINT is what removes them.     *)
(* Ctrl-C reaches the children too, and every child has inherited the      *)
(* handler, so several processes remove the same six objects at once.      *)
(***************************************************************************)
EXTENDS Integers

CONSTANTS
    Main,           \* the process that runs main()
    Children,       \* the slots for forked children (a bound)
    Capacity,       \* parking spaces (16)
    Crashes,        \* whether processes may end without their handler
    MaxId           \* bound on the kernel objects created in a behaviour

ASSUME LifecycleAssumption ==
    /\ Main \notin Children
    /\ Capacity \in Nat
    /\ Crashes \in BOOLEAN
    /\ MaxId \in Nat

Processes == Children \cup {Main}

\* The objects in the order in which main() creates and handler() removes them.
Mutex == 1
Counting == 2
Car == 3
Cash == 4
Space == 5
Left == 6
Objects == 1 .. 6
Semaphores == {Mutex, Counting}
Segments == Objects \ Semaphores

VARIABLES
    id,             \* the id the kernel has for each key, 0 when there is none
    nextId,
    cars,           \* number of plates in the segment of car[]
    taken,          \* number of slots set in the segment of park_space[]
    left,           \* free spaces according to the segment of space_left[]
    mode,           \* where each process is
    step,           \* the object it is about to create or to remove
    got,            \* the id a semget or shmget has returned to main(), or 0
    myId,           \* its globals sem_mutex, ..., shmid_left, 0 at first
    unclean         \* history: a process was killed, or an id never stored

content == <<cars, taken, left>>
vars == <<id, nextId, content, mode, step, got, myId, unclean>>

Modes == {"off", "start", "serve", "stop"}

Init ==
    /\ id = [o \in Objects |-> 0]
    /\ nextId = 1
    /\ cars = 0 /\ taken = 0 /\ left = 0
    /\ mode = [p \in Processes |-> "off"]
    /\ step = [p \in Processes |-> 1]
    /\ myId = [p \in Processes |-> [o \in Objects |-> 0]]
    /\ got = 0
    /\ unclean = FALSE

Alive == {p \in Processes : mode[p] # "off"}

\* The process ends; what it has created stays.
End(p) ==
    /\ mode' = [mode EXCEPT ![p] = "off"]
    /\ step' = [step EXCEPT ![p] = 1]
    /\ myId' = [myId EXCEPT ![p] = [o \in Objects |-> 0]]

-----------------------------------------------------------------------------
(* main().                                                                 *)

\* Mutant: the server is started while one that holds the port still stops.
Start_AnyPort ==
    /\ mode[Main] = "off"
    /\ mode' = [mode EXCEPT ![Main] = "start"]
    /\ UNCHANGED <<id, nextId, content, step, got, myId, unclean>>

\* bind() succeeds only when no process holds the port: the children have
\* inherited the listening socket.
Start ==
    /\ Alive = {}
    /\ mode' = [mode EXCEPT ![Main] = "start"]
    /\ UNCHANGED <<id, nextId, content, step, got, myId, unclean>>

Advance(p) == step' = [step EXCEPT ![p] = @ + 1]

Opening(o) == mode[Main] = "start" /\ step[Main] = o /\ got = 0

\* A new segment is filled with zeros.
Fresh(o) ==
    /\ cars' = IF o = Car THEN 0 ELSE cars
    /\ taken' = IF o = Space THEN 0 ELSE taken
    /\ left' = IF o = Left THEN 0 ELSE left

\* semget(IPC_CREAT | IPC_EXCL) or shmget(IPC_CREAT) for a key without object.
Create(o) ==
    /\ Opening(o) /\ id[o] = 0
    /\ nextId <= MaxId
    /\ id' = [id EXCEPT ![o] = nextId]
    /\ nextId' = nextId + 1
    /\ got' = nextId
    /\ Fresh(o)
    /\ UNCHANGED <<mode, step, myId, unclean>>

\* The segment is there already and is used with what it holds.
TakeOver(o) ==
    /\ Opening(o) /\ o \in Segments /\ id[o] # 0
    /\ got' = id[o]
    /\ UNCHANGED <<id, nextId, content, mode, step, myId, unclean>>

\* The semaphore is there already: exit(-1), leaving what was created so far.
Refuse(o) ==
    /\ Opening(o) /\ o \in Semaphores /\ id[o] # 0
    /\ End(Main)
    /\ UNCHANGED <<id, nextId, content, got, unclean>>

\* The global is assigned; only now can the SIGINT handler find the object.
Store ==
    /\ mode[Main] = "start" /\ got # 0
    /\ myId' = [myId EXCEPT ![Main][step[Main]] = got]
    /\ got' = 0
    /\ Advance(Main)
    /\ UNCHANGED <<id, nextId, content, mode, unclean>>

\* space_left[] and *cash are set, car[] and park_space[] are not.
Serve ==
    /\ mode[Main] = "start" /\ step[Main] = 7
    /\ mode' = [mode EXCEPT ![Main] = "serve"]
    /\ left' = Capacity
    /\ UNCHANGED <<id, nextId, cars, taken, step, got, myId, unclean>>

Fork(c) ==
    /\ mode[Main] = "serve" /\ mode[c] = "off"
    /\ mode' = [mode EXCEPT ![c] = "serve"]
    /\ myId' = [myId EXCEPT ![c] = myId[Main]]
    /\ UNCHANGED <<id, nextId, content, step, got, unclean>>

-----------------------------------------------------------------------------
(* The children.  One entry or exit is one step here (ParkingServer has    *)
(* its details).  A segment removed under a child stays attached to it, so *)
(* the children of one server see the same contents until the last ends.   *)

\* Mutant: a full lot takes one more car.
Work_Full(c) ==
    /\ mode[c] = "serve" /\ c # Main
    /\ \/ /\ cars' = cars + 1 /\ taken' = taken + 1 /\ left' = left - 1
       \/ /\ cars > 0
          /\ cars' = cars - 1 /\ taken' = taken - 1 /\ left' = left + 1
    /\ End(c)
    /\ UNCHANGED <<id, nextId, got, unclean>>

Work(c) ==
    /\ mode[c] = "serve" /\ c # Main
    /\ \/ /\ taken < Capacity
          /\ cars' = cars + 1 /\ taken' = taken + 1 /\ left' = left - 1
       \/ /\ cars > 0
          /\ cars' = cars - 1 /\ taken' = taken - 1 /\ left' = left + 1
    /\ End(c)
    /\ UNCHANGED <<id, nextId, got, unclean>>

-----------------------------------------------------------------------------
(* SIGINT.                                                                 *)

\* Sent to main() alone, or to it and any of its children.
Interrupt(S) ==
    /\ mode[Main] \in {"start", "serve"}
    /\ Main \in S /\ \A p \in S : mode[p] \in {"start", "serve"}
    /\ mode' = [p \in Processes |-> IF p \in S THEN "stop" ELSE mode[p]]
    /\ step' = [p \in Processes |-> IF p \in S THEN 1 ELSE step[p]]
    /\ got' = 0
    /\ unclean' = IF got # 0 THEN TRUE ELSE unclean
    /\ UNCHANGED <<id, nextId, content, myId>>

\* IPC_RMID succeeds for the id of an object that exists.  No other program's
\* object has the id 0 that a global has before it is set.
Owns(p, o) == myId[p][o] # 0 /\ myId[p][o] = id[o]
Removable(p) ==
    mode[p] = "stop" /\ step[p] \in Objects /\ Owns(p, step[p])

\* Mutant: the handler forgets park_space.
Remove_NotSpace(p) ==
    /\ Removable(p)
    /\ id' = IF step[p] = Space THEN id ELSE [id EXCEPT ![step[p]] = 0]
    /\ Advance(p)
    /\ UNCHANGED <<nextId, content, mode, got, myId, unclean>>

Remove(p) ==
    /\ Removable(p)
    /\ id' = [id EXCEPT ![step[p]] = 0]
    /\ Advance(p)
    /\ UNCHANGED <<nextId, content, mode, got, myId, unclean>>

\* A semaphore that cannot be removed is reported, a segment ends the handler.
Miss(p) ==
    /\ mode[p] = "stop" /\ step[p] \in Objects /\ ~Removable(p)
    /\ \/ step[p] \in Semaphores /\ Advance(p) /\ UNCHANGED <<mode, myId>>
       \/ step[p] \in Segments /\ End(p)
    /\ UNCHANGED <<id, nextId, content, got, unclean>>

HandlerExit(p) ==
    /\ mode[p] = "stop" /\ step[p] = 7
    /\ End(p)
    /\ UNCHANGED <<id, nextId, content, got, unclean>>

-----------------------------------------------------------------------------
(* What happens to the server from outside.                                *)

\* SIGKILL, or an error exit of a system call.
Kill(p) ==
    /\ Crashes = TRUE
    /\ p \in Alive
    /\ End(p)
    /\ got' = IF p = Main THEN 0 ELSE got
    /\ unclean' = TRUE
    /\ UNCHANGED <<id, nextId, content>>

\* After "Sem creation failed" the operator removes the semaphores (ipcrm -S).
RemoveSemaphores ==
    /\ Crashes = TRUE
    /\ Alive = {}
    /\ id' = [o \in Objects |-> IF o \in Semaphores THEN 0 ELSE id[o]]
    /\ UNCHANGED <<nextId, content, mode, step, got, myId, unclean>>

Next ==
    \/ Start \/ Store \/ Serve \/ RemoveSemaphores
    \/ \E o \in Objects : Create(o) \/ TakeOver(o) \/ Refuse(o)
    \/ \E c \in Children : Fork(c) \/ Work(c)
    \/ \E S \in SUBSET Processes : Interrupt(S)
    \/ \E p \in Processes : Remove(p) \/ Miss(p) \/ HandlerExit(p) \/ Kill(p)

Spec == Init /\ [][Next]_vars

-----------------------------------------------------------------------------
(* Properties.                                                             *)

TypeOK ==
    /\ id \in [Objects -> 0 .. MaxId]
    /\ nextId \in 1 .. MaxId + 1
    /\ cars \in 0 .. Capacity /\ taken \in 0 .. Capacity
    /\ left \in 0 .. 2 * Capacity
    /\ mode \in [Processes -> Modes]
    /\ step \in [Processes -> 1 .. 7]
    /\ got \in 0 .. MaxId
    /\ myId \in [Processes -> [Objects -> 0 .. MaxId]]
    /\ unclean \in BOOLEAN

\* README:98, "when a process ends, it releases the occupied shared memory and
\* semaphores": once the last process of a server that was stopped by SIGINT
\* has ended, no object is left, however far its start had come (but for an id
\* it had no time to store) and however the handlers interfered.
StopReleasesAll ==
    Alive = {} /\ unclean = FALSE => \A o \in Objects : id[o] = 0

\* A server in its accept loop works on the objects of the keys: no handler of
\* an earlier server removes them from under it, whatever was killed before.
ServesOwnObjects ==
    mode[Main] = "serve" => \A o \in Objects : Owns(Main, o)

\* A server that was always stopped by SIGINT can be started again: its counts
\* and tables agree from the first request on (server.c:38).
RestartAgrees ==
    mode[Main] = "serve" /\ unclean = FALSE => left = Capacity - taken /\ cars = taken

=============================================================================
