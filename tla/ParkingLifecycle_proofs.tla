----------------------- MODULE ParkingLifecycle_proofs -----------------------
(***************************************************************************)
(* Proofs about starting and stopping the parking server: the types,       *)
(* StopReleasesAll, ServesOwnObjects and RestartAgrees, for any number of  *)
(* children, any capacity, and with and without crashes.                   *)
(***************************************************************************)
EXTENDS ParkingLifecycle, TLAPS

USE LifecycleAssumption DEF LifecycleAssumption

-----------------------------------------------------------------------------
(* The invariant.                                                          *)

\* A process that has ended knows nothing, a child never runs main(), and only
\* main() has something between a shmget and the assignment of its result.
ProcessOK ==
    /\ \A p \in Processes :
           mode[p] = "off" => step[p] = 1 /\ \A o \in Objects : myId[p][o] = 0
    /\ \A c \in Children : mode[c] # "start"
    /\ got # 0 => mode[Main] = "start"

\* While main() starts the server it is alone, and what it has stored is there.
StartOK ==
    mode[Main] = "start" =>
        /\ \A c \in Children : mode[c] = "off"
        /\ \A o \in Objects : o < step[Main] => Owns(Main, o)
        /\ got # 0 => step[Main] \in Objects /\ got = id[step[Main]]

\* After a clean stop it has created all that is there, so nothing that was
\* left from before is in the segments.
CleanStartOK ==
    mode[Main] = "start" /\ unclean = FALSE =>
        /\ \A o \in Objects : id[o] # 0 => o < step[Main] \/ (o = step[Main] /\ got # 0)
        /\ id[Car] # 0 => cars = 0
        /\ id[Space] # 0 => taken = 0

\* The server and its children know the same objects.
ServeOK ==
    mode[Main] = "serve" =>
        /\ \A o \in Objects : Owns(Main, o)
        /\ \A c \in Children :
               /\ mode[c] \in {"off", "serve"}
               /\ mode[c] = "serve" => myId[c] = myId[Main]
        /\ unclean = FALSE => left = Capacity - taken /\ cars = taken

\* Every object that is left after a clean stop has a handler on its way to it,
\* and no segment before it is missing, which would end that handler.  When
\* another handler removes such a segment, it takes over the rest.
CleanStopOK ==
    mode[Main] \in {"off", "stop"} /\ unclean = FALSE =>
        \A o \in Objects : id[o] # 0 =>
            /\ \A p \in Processes : mode[p] = "stop" => Owns(p, o)
            /\ \E p \in Processes :
                   /\ mode[p] = "stop" /\ step[p] <= o
                   /\ \A s \in Segments : step[p] <= s /\ s < o => id[s] # 0

\* Handlers remove car[] before park_space[], so a crash never leaves a car in
\* car[] for which there is no slot.
CountsOK ==
    /\ cars <= taken
    /\ (\E p \in Processes : mode[p] = "serve") =>
           Capacity <= left + taken /\ left + taken <= 2 * Capacity
    /\ id[Space] = 0 /\ id[Car] # 0 =>
           cars = 0 /\ \A c \in Children : mode[c] = "off"
    /\ \A p \in Processes : mode[p] = "stop" /\ step[p] > Car => id[Car] = 0

LInv ==
    /\ TypeOK /\ ProcessOK /\ StartOK /\ CleanStartOK /\ ServeOK /\ CleanStopOK
    /\ CountsOK

\* At the start there is no object and no process.
LEMMA LifecycleInitInv == Init => LInv
<1> SUFFICES ASSUME Init PROVE LInv
  OBVIOUS
<1> USE DEF Init, Processes, Modes, Objects, Car, Space, Segments, content, Owns
<1>1. TypeOK
  <2>1. unclean \in BOOLEAN
    BY DEF Init
  <2>2. myId \in [Processes -> [Objects -> 0 .. MaxId]]
    OBVIOUS
  <2>3. mode \in [Processes -> Modes] /\ step \in [Processes -> 1 .. 7]
    OBVIOUS
  <2>4. QED
    BY <2>1, <2>2, <2>3 DEF TypeOK
<1>2. ProcessOK /\ StartOK /\ CleanStartOK /\ ServeOK /\ CleanStopOK /\ CountsOK
  BY DEF ProcessOK, StartOK, CleanStartOK, ServeOK, CleanStopOK, CountsOK
<1>3. QED
  BY <1>1, <1>2 DEF LInv

-----------------------------------------------------------------------------
(* Every step preserves each part of it.                                   *)

\* Every step keeps the types,
LEMMA LifecycleTypeStep ==
    ASSUME LInv, [Next]_vars
    PROVE  TypeOK'
<1> USE DEF Processes, Modes, Objects, Mutex, Counting, Car, Cash, Space, Left, Semaphores,
          Segments, content, Owns, Advance
<1>1. CASE Start
  BY <1>1 DEF LInv, TypeOK, Start, Alive
<1>2. CASE Store
  BY <1>2 DEF LInv, TypeOK, StartOK, Store
<1>3. CASE Serve
  BY <1>3 DEF LInv, TypeOK, Serve
<1>4. CASE RemoveSemaphores
  BY <1>4 DEF LInv, TypeOK, RemoveSemaphores, Alive
<1>5. ASSUME NEW o \in Objects, Create(o) PROVE TypeOK'
  BY <1>5 DEF LInv, TypeOK, Create, Opening, Fresh
<1>6. ASSUME NEW o \in Objects, TakeOver(o) PROVE TypeOK'
  BY <1>6 DEF LInv, TypeOK, TakeOver, Opening
<1>7. ASSUME NEW o \in Objects, Refuse(o) PROVE TypeOK'
  BY <1>7 DEF LInv, TypeOK, Refuse, Opening, End
<1>8. ASSUME NEW c \in Children, Fork(c) PROVE TypeOK'
  BY <1>8 DEF LInv, TypeOK, Fork
<1>9. ASSUME NEW c \in Children, Work(c) PROVE TypeOK'
  BY <1>9 DEF LInv, TypeOK, CountsOK, Work, End
<1>10. ASSUME NEW S \in SUBSET Processes, Interrupt(S) PROVE TypeOK'
  <2>1. unclean' \in BOOLEAN
    BY <1>10 DEF LInv, TypeOK, Interrupt
  <2>2. mode' \in [Processes -> Modes] /\ step' \in [Processes -> 1 .. 7]
    BY <1>10 DEF LInv, TypeOK, Interrupt
  <2>3. got' = 0 /\ UNCHANGED <<id, nextId, content, myId>>
    BY <1>10 DEF Interrupt
  <2>4. QED
    BY <2>1, <2>2, <2>3 DEF LInv, TypeOK
<1>11. ASSUME NEW p \in Processes, Remove(p) PROVE TypeOK'
  BY <1>11 DEF LInv, TypeOK, Remove, Removable
<1>12. ASSUME NEW p \in Processes, Miss(p) PROVE TypeOK'
  BY <1>12 DEF LInv, TypeOK, Miss, Removable, End
<1>13. ASSUME NEW p \in Processes, HandlerExit(p) PROVE TypeOK'
  BY <1>13 DEF LInv, TypeOK, HandlerExit, End
<1>14. ASSUME NEW p \in Processes, Kill(p) PROVE TypeOK'
  BY <1>14 DEF LInv, TypeOK, Kill, End, Alive
<1>15. CASE UNCHANGED vars
  BY <1>15 DEF LInv, TypeOK, vars
<1>16. QED
  BY <1>1, <1>2, <1>3, <1>4, <1>5, <1>6, <1>7, <1>8, <1>9,
     <1>10, <1>11, <1>12, <1>13, <1>14, <1>15 DEF Next

\* what a process may know,
LEMMA ProcessStep ==
    ASSUME LInv, [Next]_vars
    PROVE  ProcessOK'
<1> USE DEF Processes, Modes, Objects, Mutex, Counting, Car, Cash, Space, Left, Semaphores,
          Segments, content, Owns, Advance
<1>1. CASE Start
  BY <1>1 DEF LInv, ProcessOK, Start, Alive
<1>2. CASE Store
  BY <1>2 DEF LInv, ProcessOK, Store
<1>3. CASE Serve
  BY <1>3 DEF LInv, ProcessOK, StartOK, Serve
<1>4. CASE RemoveSemaphores
  BY <1>4 DEF LInv, ProcessOK, RemoveSemaphores, Alive
<1>5. ASSUME NEW o \in Objects, Create(o) PROVE ProcessOK'
  BY <1>5 DEF LInv, ProcessOK, Create, Opening, Fresh
<1>6. ASSUME NEW o \in Objects, TakeOver(o) PROVE ProcessOK'
  BY <1>6 DEF LInv, ProcessOK, TakeOver, Opening
<1>7. ASSUME NEW o \in Objects, Refuse(o) PROVE ProcessOK'
  BY <1>7 DEF LInv, TypeOK, ProcessOK, Refuse, Opening, End
<1>8. ASSUME NEW c \in Children, Fork(c) PROVE ProcessOK'
  BY <1>8 DEF LInv, TypeOK, ProcessOK, Fork
<1>9. ASSUME NEW c \in Children, Work(c) PROVE ProcessOK'
  BY <1>9 DEF LInv, TypeOK, ProcessOK, Work, End
<1>10. ASSUME NEW S \in SUBSET Processes, Interrupt(S) PROVE ProcessOK'
  BY <1>10 DEF LInv, ProcessOK, Interrupt
<1>11. ASSUME NEW p \in Processes, Remove(p) PROVE ProcessOK'
  BY <1>11 DEF LInv, ProcessOK, Remove, Removable
<1>12. ASSUME NEW p \in Processes, Miss(p) PROVE ProcessOK'
  BY <1>12 DEF LInv, TypeOK, ProcessOK, Miss, Removable, End
<1>13. ASSUME NEW p \in Processes, HandlerExit(p) PROVE ProcessOK'
  BY <1>13 DEF LInv, TypeOK, ProcessOK, HandlerExit, End
<1>14. ASSUME NEW p \in Processes, Kill(p) PROVE ProcessOK'
  BY <1>14 DEF LInv, TypeOK, ProcessOK, Kill, End, Alive
<1>15. CASE UNCHANGED vars
  BY <1>15 DEF LInv, ProcessOK, vars
<1>16. QED
  BY <1>1, <1>2, <1>3, <1>4, <1>5, <1>6, <1>7, <1>8, <1>9,
     <1>10, <1>11, <1>12, <1>13, <1>14, <1>15 DEF Next

\* what main() has stored while it starts,
LEMMA StartStep ==
    ASSUME LInv, [Next]_vars
    PROVE  StartOK'
<1> USE DEF Processes, Modes, Objects, Mutex, Counting, Car, Cash, Space, Left, Semaphores,
          Segments, content, Owns, Advance
<1>1. CASE Start
  BY <1>1 DEF LInv, ProcessOK, StartOK, Start, Alive
<1>2. CASE Store
  BY <1>2 DEF LInv, TypeOK, StartOK, Store
<1>3. CASE Serve
  BY <1>3 DEF LInv, StartOK, Serve
<1>4. CASE RemoveSemaphores
  BY <1>4 DEF LInv, StartOK, RemoveSemaphores, Alive
<1>5. ASSUME NEW o \in Objects, Create(o) PROVE StartOK'
  BY <1>5 DEF LInv, TypeOK, StartOK, Create, Opening, Fresh
<1>6. ASSUME NEW o \in Objects, TakeOver(o) PROVE StartOK'
  BY <1>6 DEF LInv, StartOK, TakeOver, Opening
<1>7. ASSUME NEW o \in Objects, Refuse(o) PROVE StartOK'
  BY <1>7 DEF LInv, TypeOK, StartOK, Refuse, Opening, End
<1>8. ASSUME NEW c \in Children, Fork(c) PROVE StartOK'
  BY <1>8 DEF LInv, StartOK, Fork
<1>9. ASSUME NEW c \in Children, Work(c) PROVE StartOK'
  BY <1>9 DEF LInv, StartOK, Work, End
<1>10. ASSUME NEW S \in SUBSET Processes, Interrupt(S) PROVE StartOK'
  BY <1>10 DEF LInv, StartOK, Interrupt
<1>11. ASSUME NEW p \in Processes, Remove(p) PROVE StartOK'
  BY <1>11 DEF LInv, StartOK, Remove, Removable
<1>12. ASSUME NEW p \in Processes, Miss(p) PROVE StartOK'
  BY <1>12 DEF LInv, TypeOK, StartOK, Miss, Removable, End
<1>13. ASSUME NEW p \in Processes, HandlerExit(p) PROVE StartOK'
  BY <1>13 DEF LInv, StartOK, HandlerExit, End
<1>14. ASSUME NEW p \in Processes, Kill(p) PROVE StartOK'
  BY <1>14 DEF LInv, TypeOK, StartOK, Kill, End, Alive
<1>15. CASE UNCHANGED vars
  BY <1>15 DEF LInv, StartOK, vars
<1>16. QED
  BY <1>1, <1>2, <1>3, <1>4, <1>5, <1>6, <1>7, <1>8, <1>9,
     <1>10, <1>11, <1>12, <1>13, <1>14, <1>15 DEF Next

\* that a clean start finds nothing left,
LEMMA CleanStartStep ==
    ASSUME LInv, [Next]_vars
    PROVE  CleanStartOK'
<1> USE DEF Processes, Modes, Objects, Mutex, Counting, Car, Cash, Space, Left, Semaphores,
          Segments, content, Owns, Advance
<1>1. CASE Start
  BY <1>1 DEF LInv, CleanStartOK, CleanStopOK, Start, Alive
<1>2. CASE Store
  BY <1>2 DEF LInv, TypeOK, CleanStartOK, Store
<1>3. CASE Serve
  BY <1>3 DEF LInv, CleanStartOK, Serve
<1>4. CASE RemoveSemaphores
  BY <1>4 DEF LInv, CleanStartOK, RemoveSemaphores, Alive
<1>5. ASSUME NEW o \in Objects, Create(o) PROVE CleanStartOK'
  BY <1>5 DEF LInv, CleanStartOK, Create, Opening, Fresh
<1>6. ASSUME NEW o \in Objects, TakeOver(o) PROVE CleanStartOK'
  BY <1>6 DEF LInv, CleanStartOK, TakeOver, Opening
<1>7. ASSUME NEW o \in Objects, Refuse(o) PROVE CleanStartOK'
  BY <1>7 DEF LInv, CleanStartOK, Refuse, Opening, End
<1>8. ASSUME NEW c \in Children, Fork(c) PROVE CleanStartOK'
  BY <1>8 DEF LInv, CleanStartOK, Fork
<1>9. ASSUME NEW c \in Children, Work(c) PROVE CleanStartOK'
  BY <1>9 DEF LInv, StartOK, CleanStartOK, Work, End
<1>10. ASSUME NEW S \in SUBSET Processes, Interrupt(S) PROVE CleanStartOK'
  BY <1>10 DEF LInv, CleanStartOK, Interrupt
<1>11. ASSUME NEW p \in Processes, Remove(p) PROVE CleanStartOK'
  BY <1>11 DEF LInv, CleanStartOK, Remove, Removable
<1>12. ASSUME NEW p \in Processes, Miss(p) PROVE CleanStartOK'
  BY <1>12 DEF LInv, TypeOK, CleanStartOK, Miss, Removable, End
<1>13. ASSUME NEW p \in Processes, HandlerExit(p) PROVE CleanStartOK'
  BY <1>13 DEF LInv, CleanStartOK, HandlerExit, End
<1>14. ASSUME NEW p \in Processes, Kill(p) PROVE CleanStartOK'
  BY <1>14 DEF LInv, CleanStartOK, Kill, End, Alive
<1>15. CASE UNCHANGED vars
  BY <1>15 DEF LInv, CleanStartOK, vars
<1>16. QED
  BY <1>1, <1>2, <1>3, <1>4, <1>5, <1>6, <1>7, <1>8, <1>9,
     <1>10, <1>11, <1>12, <1>13, <1>14, <1>15 DEF Next

\* that all processes of a server know the same objects,
LEMMA ServeStep ==
    ASSUME LInv, [Next]_vars
    PROVE  ServeOK'
<1> USE DEF Processes, Modes, Objects, Mutex, Counting, Car, Cash, Space, Left, Semaphores,
          Segments, content, Owns, Advance
<1>1. CASE Start
  BY <1>1 DEF LInv, ServeOK, Start, Alive
<1>2. CASE Store
  BY <1>2 DEF LInv, ServeOK, Store
<1>3. CASE Serve
  BY <1>3 DEF LInv, StartOK, CleanStartOK, ServeOK, Serve
<1>4. CASE RemoveSemaphores
  BY <1>4 DEF LInv, ServeOK, RemoveSemaphores, Alive
<1>5. ASSUME NEW o \in Objects, Create(o) PROVE ServeOK'
  BY <1>5 DEF LInv, ServeOK, Create, Opening, Fresh
<1>6. ASSUME NEW o \in Objects, TakeOver(o) PROVE ServeOK'
  BY <1>6 DEF LInv, ServeOK, TakeOver, Opening
<1>7. ASSUME NEW o \in Objects, Refuse(o) PROVE ServeOK'
  BY <1>7 DEF LInv, ServeOK, Refuse, Opening, End
<1>8. ASSUME NEW c \in Children, Fork(c) PROVE ServeOK'
  BY <1>8 DEF LInv, TypeOK, ServeOK, Fork
<1>9. ASSUME NEW c \in Children, Work(c) PROVE ServeOK'
  BY <1>9 DEF LInv, TypeOK, ServeOK, Work, End
<1>10. ASSUME NEW S \in SUBSET Processes, Interrupt(S) PROVE ServeOK'
  BY <1>10 DEF LInv, ServeOK, Interrupt
<1>11. ASSUME NEW p \in Processes, Remove(p) PROVE ServeOK'
  BY <1>11 DEF LInv, ServeOK, Remove, Removable
<1>12. ASSUME NEW p \in Processes, Miss(p) PROVE ServeOK'
  BY <1>12 DEF LInv, TypeOK, ServeOK, Miss, Removable, End
<1>13. ASSUME NEW p \in Processes, HandlerExit(p) PROVE ServeOK'
  BY <1>13 DEF LInv, ServeOK, HandlerExit, End
<1>14. ASSUME NEW p \in Processes, Kill(p) PROVE ServeOK'
  BY <1>14 DEF LInv, TypeOK, ServeOK, Kill, End, Alive
<1>15. CASE UNCHANGED vars
  BY <1>15 DEF LInv, ServeOK, vars
<1>16. QED
  BY <1>1, <1>2, <1>3, <1>4, <1>5, <1>6, <1>7, <1>8, <1>9,
     <1>10, <1>11, <1>12, <1>13, <1>14, <1>15 DEF Next

\* that some handler is on its way to each object that is left,
LEMMA CleanStopStep ==
    ASSUME LInv, [Next]_vars
    PROVE  CleanStopOK'
<1> USE DEF Processes, Modes, Objects, Mutex, Counting, Car, Cash, Space, Left, Semaphores,
          Segments, content, Owns, Advance
<1>1. CASE Start
  BY <1>1 DEF LInv, CleanStopOK, Start, Alive
<1>2. CASE Store
  BY <1>2 DEF LInv, CleanStopOK, Store
<1>3. CASE Serve
  BY <1>3 DEF LInv, CleanStopOK, Serve
<1>4. CASE RemoveSemaphores
  BY <1>4 DEF LInv, CleanStopOK, RemoveSemaphores, Alive
<1>5. ASSUME NEW o \in Objects, Create(o) PROVE CleanStopOK'
  BY <1>5 DEF LInv, CleanStopOK, Create, Opening, Fresh
<1>6. ASSUME NEW o \in Objects, TakeOver(o) PROVE CleanStopOK'
  BY <1>6 DEF LInv, CleanStopOK, TakeOver, Opening
<1>7. ASSUME NEW o \in Objects, Refuse(o) PROVE CleanStopOK'
  BY <1>7 DEF LInv, CleanStartOK, CleanStopOK, Refuse, Opening, End
<1>8. ASSUME NEW c \in Children, Fork(c) PROVE CleanStopOK'
  BY <1>8 DEF LInv, CleanStopOK, Fork
<1>9. ASSUME NEW c \in Children, Work(c) PROVE CleanStopOK'
  BY <1>9 DEF LInv, CleanStopOK, Work, End
<1>10. ASSUME NEW S \in SUBSET Processes, Interrupt(S) PROVE CleanStopOK'
  BY <1>10 DEF LInv, TypeOK, StartOK, CleanStartOK, ServeOK, CleanStopOK, Interrupt
<1>11. ASSUME NEW p \in Processes, Remove(p) PROVE CleanStopOK'
  BY <1>11 DEF LInv, TypeOK, CleanStopOK, Remove, Removable
<1>12. ASSUME NEW p \in Processes, Miss(p) PROVE CleanStopOK'
  BY <1>12 DEF LInv, TypeOK, CleanStopOK, Miss, Removable, End
<1>13. ASSUME NEW p \in Processes, HandlerExit(p) PROVE CleanStopOK'
  BY <1>13 DEF LInv, TypeOK, CleanStopOK, HandlerExit, End
<1>14. ASSUME NEW p \in Processes, Kill(p) PROVE CleanStopOK'
  BY <1>14 DEF LInv, CleanStopOK, Kill, End, Alive
<1>15. CASE UNCHANGED vars
  BY <1>15 DEF LInv, CleanStopOK, vars
<1>16. QED
  BY <1>1, <1>2, <1>3, <1>4, <1>5, <1>6, <1>7, <1>8, <1>9,
     <1>10, <1>11, <1>12, <1>13, <1>14, <1>15 DEF Next

\* and the order of the two tables.
LEMMA CountsStep ==
    ASSUME LInv, [Next]_vars
    PROVE  CountsOK'
<1> USE DEF Processes, Modes, Objects, Mutex, Counting, Car, Cash, Space, Left, Semaphores,
          Segments, content, Owns, Advance
<1>1. CASE Start
  BY <1>1 DEF LInv, CountsOK, Start, Alive
<1>2. CASE Store
  BY <1>2 DEF LInv, CountsOK, Store
<1>3. CASE Serve
  BY <1>3 DEF LInv, TypeOK, CountsOK, Serve
<1>4. CASE RemoveSemaphores
  BY <1>4 DEF LInv, CountsOK, RemoveSemaphores, Alive
<1>5. ASSUME NEW o \in Objects, Create(o) PROVE CountsOK'
  BY <1>5 DEF LInv, TypeOK, StartOK, CountsOK, Create, Opening, Fresh
<1>6. ASSUME NEW o \in Objects, TakeOver(o) PROVE CountsOK'
  BY <1>6 DEF LInv, CountsOK, TakeOver, Opening
<1>7. ASSUME NEW o \in Objects, Refuse(o) PROVE CountsOK'
  BY <1>7 DEF LInv, CountsOK, Refuse, Opening, End
<1>8. ASSUME NEW c \in Children, Fork(c) PROVE CountsOK'
  BY <1>8 DEF LInv, ServeOK, CountsOK, Fork
<1>9. ASSUME NEW c \in Children, Work(c) PROVE CountsOK'
  BY <1>9 DEF LInv, TypeOK, CountsOK, Work, End
<1>10. ASSUME NEW S \in SUBSET Processes, Interrupt(S) PROVE CountsOK'
  <2>1. /\ \A p \in Processes : mode'[p] = "serve" => mode[p] = "serve"
        /\ \A p \in Processes : mode'[p] = "stop" =>
               step'[p] = 1 \/ (mode[p] = "stop" /\ step'[p] = step[p])
        /\ \A c \in Children : mode[c] = "off" => mode'[c] = "off"
    BY <1>10 DEF LInv, Interrupt
  <2>2. UNCHANGED <<id, content>>
    BY <1>10 DEF Interrupt
  <2>3. QED
    BY <2>1, <2>2 DEF LInv, CountsOK
<1>11. ASSUME NEW p \in Processes, Remove(p) PROVE CountsOK'
  BY <1>11 DEF LInv, TypeOK, CountsOK, Remove, Removable
<1>12. ASSUME NEW p \in Processes, Miss(p) PROVE CountsOK'
  BY <1>12 DEF LInv, TypeOK, CountsOK, Miss, Removable, End
<1>13. ASSUME NEW p \in Processes, HandlerExit(p) PROVE CountsOK'
  BY <1>13 DEF LInv, CountsOK, HandlerExit, End
<1>14. ASSUME NEW p \in Processes, Kill(p) PROVE CountsOK'
  BY <1>14 DEF LInv, CountsOK, Kill, End, Alive
<1>15. CASE UNCHANGED vars
  BY <1>15 DEF LInv, CountsOK, vars
<1>16. QED
  BY <1>1, <1>2, <1>3, <1>4, <1>5, <1>6, <1>7, <1>8, <1>9,
     <1>10, <1>11, <1>12, <1>13, <1>14, <1>15 DEF Next

\* LInv holds in every reachable state.
LEMMA LifecycleInductive == Spec => []LInv
<1>1. Init => LInv
  BY LifecycleInitInv
<1>2. LInv /\ [Next]_vars => LInv'
  BY LifecycleTypeStep, ProcessStep, StartStep, CleanStartStep, ServeStep, CleanStopStep,
     CountsStep DEF LInv
<1>3. QED
  BY <1>1, <1>2, PTL DEF Spec

-----------------------------------------------------------------------------
\* The variables keep their types: however crashes and restarts mix old and
\* new segments, the free spaces and the plates stay within the lot.
THEOREM LifecycleTypeCorrect == Spec => []TypeOK
<1>1. LInv => TypeOK
  BY DEF LInv
<1>2. QED
  BY <1>1, LifecycleInductive, PTL

\* README:98: when the last process of a server that was stopped by SIGINT has
\* ended, no semaphore or segment is left, for every interleaving of the
\* handlers and every point of main() at which the signal comes.
THEOREM LifecycleReleasesAll == Spec => []StopReleasesAll
<1>1. LInv => StopReleasesAll
  BY DEF LInv, CleanStopOK, StopReleasesAll, Alive, Processes, Modes
<1>2. QED
  BY <1>1, LifecycleInductive, PTL

\* A server in its accept loop owns its six objects, whatever was killed before.
THEOREM LifecycleServesOwn == Spec => []ServesOwnObjects
<1>1. LInv => ServesOwnObjects
  BY DEF LInv, ServeOK, ServesOwnObjects
<1>2. QED
  BY <1>1, LifecycleInductive, PTL

\* server.c:38: the counts of a server that was always stopped by SIGINT agree,
\* also after a restart.
THEOREM LifecycleRestartAgrees == Spec => []RestartAgrees
<1>1. LInv => RestartAgrees
  BY DEF LInv, ServeOK, RestartAgrees
<1>2. QED
  BY <1>1, LifecycleInductive, PTL

=============================================================================
