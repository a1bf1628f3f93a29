---------------------------- MODULE Delivery_proofs ----------------------------
(***************************************************************************)
(* Proofs about the delivery platform: the types, LongWaitOnlyIfAsked,     *)
(* OneRidePerOrder and NoPhantomWork, for any number of connections, shops *)
(* and dishes.                                                             *)
(***************************************************************************)
EXTENDS Delivery, Sums

USE DeliveryAssumption DEF DeliveryAssumption

-----------------------------------------------------------------------------
(* The rides of one connection: what is true of c by the point its thread  *)
(* is at.                                                                  *)

\* A thread that has a courier in mind was offered it, or has booked it, and
\* has an order with a price.
OfferedBefore(c) ==
    who[c] # Nobody => (asked[c] \/ pc[c] \in {"ride", "done"}) /\ price[c] > 0

Priced(c) == pc[c] \in {"temp2", "choose"} => price[c] > 0

NoRideYet(c) == pc[c] \in {"off", "recv", "temp2", "choose"} => trips[c] = 0

RideOnce(c) == trips[c] <= 1 /\ (trips[c] = 1 => price[c] > 0)

Warned(c) == told[c] >= Threshold => asked[c]

Rides(c) == /\ OfferedBefore(c) /\ Priced(c) /\ NoRideYet(c) /\ RideOnce(c)
            /\ Warned(c)

DInv == TypeOK /\ \A c \in Clients : Rides(c)

\* At the start nobody has an order.
LEMMA DeliveryInitInv == Init => DInv
<1> SUFFICES ASSUME Init PROVE DInv
  OBVIOUS
<1>1. TypeOK
  BY DEF Init, TypeOK, Couriers, Nobody
<1>2. ASSUME NEW c \in Clients PROVE Rides(c)
  BY DEF Init, Rides, OfferedBefore, Priced, NoRideYet, RideOnce, Warned
<1>3. QED
  BY <1>1, <1>2 DEF DInv

-----------------------------------------------------------------------------
(* Types.                                                                  *)

\* Dishes do not make an order cheaper.
LEMMA PriceGrows ==
    ASSUME NEW p \in Nat, NEW n \in Nat, NEW k \in Nat \ {0}
    PROVE  p + n * k \in Nat /\ p + n * k >= p
<1>1. n * k \in Nat
  OBVIOUS
<1> DEFINE m == n * k
<1>2. m \in Nat => p + m \in Nat /\ p + m >= p
  <2> HIDE DEF m
  <2> QED OBVIOUS
<1>3. QED
  BY <1>1, <1>2

\* The courier that Delivery_platform() prefers has the shorter queue.
LEMMA ShorterIsCourier ==
    ASSUME TypeOK, NEW c \in Clients
    PROVE  /\ Shorter(c) \in Couriers
           /\ \A k \in Couriers : temp[c][Shorter(c)] <= temp[c][k]
BY DEF TypeOK, Shorter, Couriers

\* A booking keeps the types of what it writes.
LEMMA BookType ==
    ASSUME TypeOK, NEW c \in Clients, NEW k \in Couriers, NEW s \in Nat,
           Book(c, k, s)
    PROVE  /\ delivery_waiting_time' \in [Couriers -> Nat]
           /\ told' \in [Clients -> Nat] /\ trips' \in [Clients -> Nat]
           /\ owed' \in [Couriers -> Nat]
BY DEF TypeOK, Book

\* Every step keeps the types.
LEMMA DeliveryTypeStep ==
    ASSUME TypeOK, [Next]_vars
    PROVE  TypeOK'
<1> USE DEF order
<1>1. CASE Counter
  BY <1>1 DEF TypeOK, Counter, Couriers
<1>2. ASSUME NEW c \in Clients, Connect(c) PROVE TypeOK'
  BY <1>2 DEF TypeOK, Connect, Go
<1>3. ASSUME NEW c \in Clients, NEW s \in Shops, NEW n \in Quantities, Order(c, s, n)
      PROVE  TypeOK'
  <2>1. price[c] + n * Cost[s] \in Nat
    BY PriceGrows DEF TypeOK
  <2>2. price' \in [Clients -> Nat]
    BY <1>3, <2>1 DEF TypeOK, Order
  <2>3. QED
    BY <1>3, <2>2 DEF TypeOK, Order, Go
<1>4. ASSUME NEW c \in Clients, Leave(c) PROVE TypeOK'
  BY <1>4 DEF TypeOK, Leave, Go
<1>5. ASSUME NEW c \in Clients, Yes(c) PROVE TypeOK'
  <2>1. CASE who[c] \in Couriers /\ Book(c, who[c], delivery_waiting_time[who[c]] + flag[c])
    <3>1. delivery_waiting_time[who[c]] + flag[c] \in Nat
      BY <2>1 DEF TypeOK
    <3>2. QED
      BY <1>5, <2>1, <3>1, BookType DEF TypeOK, Yes, Go
  <2>2. CASE who[c] = Nobody /\ UNCHANGED <<delivery_waiting_time, told, trips, owed>>
    BY <1>5, <2>2 DEF TypeOK, Yes, Go
  <2>3. QED
    BY <1>5, <2>1, <2>2 DEF Yes
<1>6. ASSUME NEW c \in Clients, Confirm(c) PROVE TypeOK'
  BY <1>6 DEF TypeOK, Confirm, Go, Couriers
<1>7. ASSUME NEW c \in Clients, ReadTemp2(c) PROVE TypeOK'
  BY <1>7 DEF TypeOK, ReadTemp2, Go, Couriers
<1>8. ASSUME NEW c \in Clients, Assign(c) PROVE TypeOK'
  <2>1. who' = [who EXCEPT ![c] = Shorter(c)] /\ who'[c] = Shorter(c)
    BY <1>8 DEF Assign, TypeOK
  <2>2. temp[c][who'[c]] \in Nat /\ who'[c] \in Couriers
    BY <2>1, ShorterIsCourier DEF TypeOK
  <2>3. Book(c, who'[c], temp[c][who'[c]])
    BY <1>8 DEF Assign
  <2>4. QED
    BY <1>8, <2>1, <2>2, <2>3, BookType DEF TypeOK, Assign, Go
<1>9. ASSUME NEW c \in Clients, Offer(c) PROVE TypeOK'
  BY <1>9, ShorterIsCourier DEF TypeOK, Offer, Go
<1>10. ASSUME NEW c \in Clients, Arrive(c) PROVE TypeOK'
  BY <1>10 DEF TypeOK, Arrive, Go
<1>11. CASE UNCHANGED vars
  BY <1>11 DEF TypeOK, vars
<1>12. QED
  BY <1>1, <1>2, <1>3, <1>4, <1>5, <1>6, <1>7, <1>8, <1>9, <1>10, <1>11
     DEF Next, Client, Thread

-----------------------------------------------------------------------------
(* The rides.                                                              *)

\* A step of another thread, or of counter(), leaves the rides of d alone.
LEMMA OthersKeepRides ==
    ASSUME NEW d \in Clients, Rides(d),
           pc'[d] = pc[d], who'[d] = who[d], asked'[d] = asked[d],
           price'[d] = price[d], trips'[d] = trips[d], told'[d] = told[d]
    PROVE  Rides(d)'
BY DEF Rides, OfferedBefore, Priced, NoRideYet, RideOnce, Warned

\* Every step keeps what is true of the rides of each client.
LEMMA DeliveryRidesStep ==
    ASSUME DInv, [Next]_vars, NEW d \in Clients
    PROVE  Rides(d)'
<1> USE DEF DInv, order
<1>0. Rides(d)
  OBVIOUS
<1>1. CASE Counter
  BY <1>0, <1>1, OthersKeepRides DEF Counter
<1>2. ASSUME NEW c \in Clients, Connect(c) PROVE Rides(d)'
  BY <1>0, <1>2 DEF Connect, Go, TypeOK, Rides, OfferedBefore, Priced, NoRideYet, RideOnce,
                    Warned
<1>3. ASSUME NEW c \in Clients, NEW s \in Shops, NEW n \in Quantities, Order(c, s, n)
      PROVE  Rides(d)'
  <2>1. price'[d] >= price[d] /\ price[d] \in Nat /\ price'[d] \in Nat
    BY <1>3, PriceGrows DEF TypeOK, Order
  <2>2. QED
    BY <1>0, <1>3, <2>1 DEF Order, Go, TypeOK, Rides, OfferedBefore, Priced, NoRideYet,
                            RideOnce, Warned
<1>4. ASSUME NEW c \in Clients, Leave(c) PROVE Rides(d)'
  BY <1>0, <1>4 DEF Leave, Go, TypeOK, Rides, OfferedBefore, Priced, NoRideYet, RideOnce,
                    Warned
<1>5. ASSUME NEW c \in Clients, Yes(c) PROVE Rides(d)'
  <2>1. CASE who[c] \in Couriers /\ Book(c, who[c], delivery_waiting_time[who[c]] + flag[c])
    <3>1. who[c] # Nobody
      BY <2>1 DEF Couriers, Nobody
    <3>2. QED
      BY <1>0, <1>5, <2>1, <3>1
         DEF Yes, Book, Go, TypeOK, Rides, OfferedBefore, Priced, NoRideYet, RideOnce, Warned
  <2>2. CASE who[c] = Nobody /\ UNCHANGED <<delivery_waiting_time, told, trips, owed>>
    BY <1>0, <1>5, <2>2 DEF Yes, Go, TypeOK, Rides, OfferedBefore, Priced, NoRideYet,
                            RideOnce, Warned
  <2>3. QED
    BY <1>5, <2>1, <2>2 DEF Yes
<1>6. ASSUME NEW c \in Clients, Confirm(c) PROVE Rides(d)'
  BY <1>0, <1>6 DEF Confirm, Go, TypeOK, Rides, OfferedBefore, Priced, NoRideYet, RideOnce,
                    Warned
<1>7. ASSUME NEW c \in Clients, ReadTemp2(c) PROVE Rides(d)'
  BY <1>0, <1>7 DEF ReadTemp2, Go, TypeOK, Rides, OfferedBefore, Priced, NoRideYet, RideOnce,
                    Warned
<1>8. ASSUME NEW c \in Clients, Assign(c) PROVE Rides(d)'
  <2>1. who' = [who EXCEPT ![c] = Shorter(c)] /\ who'[c] = Shorter(c)
    BY <1>8 DEF Assign, TypeOK
  <2>2. temp[c][Shorter(c)] < Threshold /\ temp[c][Shorter(c)] \in Nat
    BY <1>8, ShorterIsCourier DEF Assign, TypeOK
  <2>3. Book(c, Shorter(c), temp[c][Shorter(c)])
    BY <1>8, <2>1 DEF Assign
  <2>4. CASE d = c
    BY <1>0, <1>8, <2>1, <2>2, <2>3, <2>4
       DEF Assign, Book, Go, TypeOK, Rides, OfferedBefore, Priced, NoRideYet, RideOnce, Warned
  <2>5. CASE d # c
    BY <1>0, <1>8, <2>1, <2>3, <2>5, OthersKeepRides DEF Assign, Book, Go, TypeOK
  <2>6. QED
    BY <2>4, <2>5
<1>9. ASSUME NEW c \in Clients, Offer(c) PROVE Rides(d)'
  BY <1>0, <1>9 DEF Offer, Go, TypeOK, Rides, OfferedBefore, Priced, NoRideYet, RideOnce,
                    Warned
<1>10. ASSUME NEW c \in Clients, Arrive(c) PROVE Rides(d)'
  BY <1>0, <1>10 DEF Arrive, Go, TypeOK, Rides, OfferedBefore, Priced, NoRideYet, RideOnce,
                     Warned
<1>11. CASE UNCHANGED vars
  BY <1>0, <1>11, OthersKeepRides DEF vars
<1>12. QED
  BY <1>1, <1>2, <1>3, <1>4, <1>5, <1>6, <1>7, <1>8, <1>9, <1>10, <1>11
     DEF Next, Client, Thread

\* DInv holds in every reachable state.
LEMMA DeliveryInductive == Spec => []DInv
<1>1. Init => DInv
  BY DeliveryInitInv
<1>2. DInv /\ [Next]_vars => DInv'
  BY DeliveryTypeStep, DeliveryRidesStep DEF DInv
<1>3. QED
  BY <1>1, <1>2, PTL DEF Spec

-----------------------------------------------------------------------------
(* The queues.  What a thread has read of a queue was no more than the     *)
(* work booked on it then, and that only grows.                            *)

TempBounded(c) ==
    /\ pc[c] \in {"temp2", "choose"} => temp[c][0] <= Work(0) + flag[c]
    /\ pc[c] = "choose" => temp[c][1] <= Work(1) + flag[c]

WorkOK == NoPhantomWork /\ \A c \in Clients : TempBounded(c)

\* The work of a courier is a sum of integers.
LEMMA WorkIsInt ==
    ASSUME TypeOK, NEW k \in Couriers
    PROVE  (\A c \in Clients : Booked(k)[c] \in Int) /\ Work(k) \in Int
<1>1. ASSUME NEW c \in Clients PROVE Booked(k)[c] \in Int
  <2>1. trips[c] \in Int /\ flag[c] \in Int
    BY DEF TypeOK
  <2>2. trips[c] * flag[c] \in Int
    BY <2>1
  <2>3. QED
    BY <2>2 DEF Booked
<1>2. QED
  BY <1>1, SumIsInt DEF Work

\* An order that is not booked is no work.
LEMMA NoTripNoWork ==
    ASSUME TypeOK, NEW c \in Clients, NEW k \in Couriers, trips[c] = 0
    PROVE  Booked(k)[c] = 0
<1>1. flag[c] \in Int
  BY DEF TypeOK
<1>2. QED
  BY <1>1 DEF Booked

\* What a client does that has booked nothing, and does not book now, changes
\* the work of no courier.
LEMMA WorkStay ==
    ASSUME TypeOK, TypeOK', NEW c \in Clients, trips[c] = 0, trips' = trips,
           \A d \in Clients \ {c} : who'[d] = who[d] /\ flag'[d] = flag[d],
           NEW k \in Couriers
    PROVE  Work(k)' = Work(k)
<1>1. Booked(k)[c] = 0
  BY NoTripNoWork
<1>2. Booked(k)'[c] = 0
  <2>1. flag'[c] \in Int
    BY DEF TypeOK
  <2>2. QED
    BY <2>1 DEF Booked
<1>3. \A d \in Clients \ {c} : Booked(k)'[d] = Booked(k)[d]
  BY DEF Booked
<1>4. \A d \in Clients : Booked(k)[d] = Booked(k)'[d]
  BY <1>1, <1>2, <1>3
<1>5. QED
  BY <1>4, SumSame DEF Work

\* A booking adds the distance to the work of its courier.
LEMMA WorkBooked ==
    ASSUME TypeOK, TypeOK', NEW c \in Clients, trips[c] = 0, flag' = flag,
           trips' = [trips EXCEPT ![c] = @ + 1], who'[c] \in Couriers,
           \A d \in Clients \ {c} : who'[d] = who[d],
           NEW k \in Couriers
    PROVE  Work(k)' = Work(k) + (IF who'[c] = k THEN flag[c] ELSE 0)
<1>1. Booked(k)[c] = 0
  BY NoTripNoWork
<1>2. flag[c] \in Int /\ trips'[c] = 1
  BY DEF TypeOK
<1>3. Booked(k)'[c] = IF who'[c] = k THEN flag[c] ELSE 0
  BY <1>2 DEF Booked
<1>4. \A d \in Clients \ {c} : Booked(k)'[d] = Booked(k)[d]
  BY DEF TypeOK, Booked
<1>5. (\A d \in Clients : Booked(k)[d] \in Int) /\ Work(k) \in Int
  BY WorkIsInt
<1>6. Booked(k)'[c] \in Int
  BY <1>2, <1>3
<1>7. Work(k)' = Work(k) + (Booked(k)'[c] - Booked(k)[c])
  BY <1>4, <1>5, <1>6, SumChange DEF Work
<1>8. QED
  BY <1>1, <1>2, <1>3, <1>5, <1>7

\* Steps under which no queue grows and the work stays, and no thread reads.
LEMMA WorkOKStay ==
    ASSUME TypeOK, TypeOK', WorkOK,
           \A k \in Couriers : /\ Work(k)' = Work(k)
                               /\ delivery_waiting_time'[k] <= delivery_waiting_time[k],
           \A c \in Clients : pc'[c] \in {"temp2", "choose"} =>
               pc'[c] = pc[c] /\ temp'[c] = temp[c] /\ flag'[c] = flag[c]
    PROVE  WorkOK'
<1>1. ASSUME NEW k \in Couriers PROVE delivery_waiting_time'[k] <= Work(k)'
  <2>1. delivery_waiting_time'[k] \in Int /\ delivery_waiting_time[k] \in Int /\ Work(k) \in Int
    BY WorkIsInt DEF TypeOK
  <2>2. QED
    BY <2>1 DEF WorkOK, NoPhantomWork
<1>2. ASSUME NEW c \in Clients PROVE TempBounded(c)'
  BY DEF WorkOK, TempBounded, Couriers
<1>3. QED
  BY <1>1, <1>2 DEF WorkOK, NoPhantomWork

\* A booking of no more than the work it makes.
LEMMA WorkOKBook ==
    ASSUME TypeOK, TypeOK', WorkOK, NEW c \in Clients, trips[c] = 0, flag' = flag,
           NEW k \in Couriers, who'[c] = k, NEW s \in Nat, Book(c, k, s),
           s <= Work(k) + flag[c],
           temp' = temp, pc'[c] = "ride",
           \A d \in Clients \ {c} : who'[d] = who[d] /\ pc'[d] = pc[d]
    PROVE  WorkOK'
<1>1. \A j \in Couriers : Work(j)' = Work(j) + (IF k = j THEN flag[c] ELSE 0)
  BY WorkBooked DEF Book
<1>2. flag[c] \in Nat /\ \A j \in Couriers : Work(j) \in Int /\ delivery_waiting_time[j] \in Int
  BY WorkIsInt DEF TypeOK
<1>3. \A j \in Couriers : delivery_waiting_time'[j] =
          IF j = k THEN s ELSE delivery_waiting_time[j]
  BY DEF TypeOK, Book
<1>4. NoPhantomWork'
  <2> SUFFICES ASSUME NEW j \in Couriers PROVE delivery_waiting_time'[j] <= Work(j)'
    BY DEF NoPhantomWork
  <2>1. CASE j = k
    BY <1>1, <1>2, <1>3, <2>1
  <2>2. CASE j # k
    BY <1>1, <1>2, <1>3, <2>2 DEF WorkOK, NoPhantomWork
  <2>3. QED
    BY <2>1, <2>2
<1>5. ASSUME NEW d \in Clients PROVE TempBounded(d)'
  <2>1. CASE d = c
    BY <2>1 DEF TempBounded
  <2>2. CASE d # c
    <3>1. pc'[d] = pc[d] /\ TempBounded(d)
      BY <2>2 DEF WorkOK
    <3>2. \A j \in Couriers : temp[d][j] \in Int /\ flag[d] \in Int
      BY DEF TypeOK
    <3>3. \A j \in Couriers : Work(j)' \in Int /\ Work(j) <= Work(j)'
      BY <1>1, <1>2
    <3>4. 0 \in Couriers /\ 1 \in Couriers
      BY DEF Couriers
    <3>5. QED
      BY <1>2, <3>1, <3>2, <3>3, <3>4 DEF TempBounded
  <2>3. QED
    BY <2>1, <2>2
<1>6. QED
  BY <1>4, <1>5 DEF WorkOK

\* Every step keeps the queues within the work.
LEMMA DeliveryWorkStep ==
    ASSUME DInv, TypeOK', WorkOK, [Next]_vars
    PROVE  WorkOK'
<1> USE DEF DInv, order
<1>0. ASSUME NEW c \in Clients, pc[c] \in {"off", "recv", "temp2", "choose"} PROVE trips[c] = 0
  BY <1>0 DEF Rides, NoRideYet
<1>1. CASE Counter
  <2>1. \A k \in Couriers : delivery_waiting_time'[k] <= delivery_waiting_time[k]
    BY <1>1 DEF TypeOK, Counter
  <2>2. \A k \in Couriers : Work(k)' = Work(k)
    BY <1>1 DEF Counter, Work, Booked
  <2>3. QED
    BY <1>1, <2>1, <2>2, WorkOKStay DEF Counter
<1>2. ASSUME NEW c \in Clients, Connect(c) \/ Leave(c) \/ Arrive(c) PROVE WorkOK'
  <2>1. \A k \in Couriers : Work(k)' = Work(k)
    BY <1>2 DEF Connect, Leave, Arrive, Work, Booked
  <2>2. \A k \in Couriers : delivery_waiting_time'[k] <= delivery_waiting_time[k]
    BY <1>2 DEF TypeOK, Connect, Leave, Arrive
  <2>3. \A d \in Clients : pc'[d] \in {"temp2", "choose"} =>
            pc'[d] = pc[d] /\ temp'[d] = temp[d] /\ flag'[d] = flag[d]
    BY <1>2 DEF TypeOK, Connect, Leave, Arrive, Go
  <2>4. QED
    BY <2>1, <2>2, <2>3, WorkOKStay
<1>3. ASSUME NEW c \in Clients, NEW s \in Shops, NEW n \in Quantities, Order(c, s, n)
      PROVE  WorkOK'
  <2>1. trips[c] = 0 /\ trips' = trips /\ who' = who
    BY <1>0, <1>3 DEF Order, Go
  <2>2. \A d \in Clients \ {c} : flag'[d] = flag[d]
    BY <1>3 DEF TypeOK, Order
  <2>3. \A k \in Couriers : Work(k)' = Work(k)
    BY <2>1, <2>2, WorkStay
  <2>4. \A k \in Couriers : delivery_waiting_time'[k] <= delivery_waiting_time[k]
    BY <1>3 DEF TypeOK, Order
  <2>5. \A d \in Clients : pc'[d] \in {"temp2", "choose"} =>
            pc'[d] = pc[d] /\ temp'[d] = temp[d] /\ flag'[d] = flag[d]
    BY <1>3 DEF TypeOK, Order, Go
  <2>6. QED
    BY <2>3, <2>4, <2>5, WorkOKStay
<1>4. ASSUME NEW c \in Clients, Yes(c) PROVE WorkOK'
  <2>1. CASE who[c] \in Couriers /\ Book(c, who[c], delivery_waiting_time[who[c]] + flag[c])
    <3> DEFINE k == who[c]
               s == delivery_waiting_time[k] + flag[c]
    <3>1. k \in Couriers /\ Book(c, k, s)
      BY <2>1
    <3>2. trips[c] = 0 /\ flag' = flag /\ who' = who /\ temp' = temp
      BY <1>0, <1>4 DEF Yes, Go
    <3>3. pc'[c] = "ride" /\ \A d \in Clients \ {c} : pc'[d] = pc[d]
      BY <1>4 DEF TypeOK, Yes, Go
    <3>4. s \in Nat
      BY <3>1 DEF TypeOK
    <3>5. s <= Work(k) + flag[c]
      <4>1. /\ delivery_waiting_time[k] \in Int /\ flag[c] \in Int /\ Work(k) \in Int
            /\ delivery_waiting_time[k] <= Work(k)
        BY <3>1, WorkIsInt DEF TypeOK, WorkOK, NoPhantomWork
      <4>2. QED
        BY <4>1
    <3>6. who'[c] = k
      BY <3>2
    <3> HIDE DEF k, s
    <3>7. QED
      BY <3>1, <3>2, <3>3, <3>4, <3>5, <3>6, WorkOKBook
  <2>2. CASE who[c] = Nobody /\ UNCHANGED <<delivery_waiting_time, told, trips, owed>>
    <3>1. \A k \in Couriers : Work(k)' = Work(k)
      BY <1>4, <2>2 DEF Yes, Work, Booked
    <3>2. \A k \in Couriers : delivery_waiting_time'[k] <= delivery_waiting_time[k]
      BY <2>2 DEF TypeOK
    <3>3. \A d \in Clients : pc'[d] \in {"temp2", "choose"} =>
              pc'[d] = pc[d] /\ temp'[d] = temp[d] /\ flag'[d] = flag[d]
      BY <1>4 DEF TypeOK, Yes, Go
    <3>4. QED
      BY <3>1, <3>2, <3>3, WorkOKStay
  <2>3. QED
    BY <1>4, <2>1, <2>2 DEF Yes
<1>5. ASSUME NEW c \in Clients, Confirm(c) \/ ReadTemp2(c) PROVE WorkOK'
  <2> DEFINE k == IF pc[c] = "recv" THEN 0 ELSE 1
  <2>1. \A j \in Couriers : Work(j)' = Work(j) /\ Work(j) \in Int
    BY <1>5, WorkIsInt DEF Confirm, ReadTemp2, Work, Booked
  <2>2. delivery_waiting_time' = delivery_waiting_time /\ flag' = flag
    BY <1>5 DEF Confirm, ReadTemp2
  <2>3. /\ k \in Couriers /\ temp' = [temp EXCEPT ![c][k] = delivery_waiting_time[k] + flag[c]]
        /\ pc[c] = (IF k = 0 THEN "recv" ELSE "temp2")
        /\ pc' = [pc EXCEPT ![c] = IF k = 0 THEN "temp2" ELSE "choose"]
    BY <1>5 DEF Confirm, ReadTemp2, Go, Couriers
  <2>4. NoPhantomWork'
    BY <2>1, <2>2 DEF WorkOK, NoPhantomWork
  <2>5. delivery_waiting_time[k] + flag[c] <= Work(k) + flag[c]
    <3>1. /\ delivery_waiting_time[k] \in Int /\ flag[c] \in Int /\ Work(k) \in Int
          /\ delivery_waiting_time[k] <= Work(k)
      BY <2>1, <2>3 DEF TypeOK, WorkOK, NoPhantomWork
    <3>2. QED
      BY <3>1
  <2> HIDE DEF k
  <2>6. ASSUME NEW d \in Clients PROVE TempBounded(d)'
    <3>0. TempBounded(d)
      BY DEF WorkOK
    <3>1. CASE d # c
      <4>1. pc'[d] = pc[d] /\ temp'[d] = temp[d]
        BY <2>3, <3>1 DEF TypeOK
      <4>2. QED
        BY <2>1, <2>2, <3>0, <4>1 DEF TempBounded, Couriers
    <3>2. CASE d = c
      <4>1. /\ pc'[c] = (IF k = 0 THEN "temp2" ELSE "choose")
            /\ temp'[c][k] = delivery_waiting_time[k] + flag[c]
            /\ \A j \in Couriers \ {k} : temp'[c][j] = temp[c][j]
        BY <2>3 DEF TypeOK
      <4>2. CASE k = 0
        BY <2>1, <2>2, <2>5, <3>2, <4>1, <4>2 DEF TempBounded, Couriers
      <4>3. CASE k = 1
        BY <2>1, <2>2, <2>3, <2>5, <3>0, <3>2, <4>1, <4>3 DEF TempBounded, Couriers
      <4>4. QED
        BY <2>3, <4>2, <4>3 DEF Couriers
    <3>3. QED
      BY <3>1, <3>2
  <2>7. QED
    BY <2>4, <2>6 DEF WorkOK
<1>6. ASSUME NEW c \in Clients, Assign(c) PROVE WorkOK'
  <2> DEFINE k == Shorter(c)
             s == temp[c][k]
  <2>1. k \in Couriers /\ s \in Nat
    BY ShorterIsCourier DEF TypeOK
  <2>2. who' = [who EXCEPT ![c] = k] /\ who'[c] = k /\ flag' = flag /\ temp' = temp
    BY <1>6 DEF TypeOK, Assign
  <2>3. Book(c, k, s)
    BY <1>6, <2>2 DEF Assign
  <2>4. trips[c] = 0 /\ pc[c] = "choose" /\ pc'[c] = "ride"
    BY <1>0, <1>6 DEF TypeOK, Assign, Go
  <2>5. \A d \in Clients \ {c} : who'[d] = who[d] /\ pc'[d] = pc[d]
    BY <1>6 DEF TypeOK, Assign, Go
  <2>6. s <= Work(k) + flag[c]
    BY <2>1, <2>4 DEF WorkOK, TempBounded, Couriers
  <2> HIDE DEF k, s
  <2>7. QED
    BY <2>1, <2>2, <2>3, <2>4, <2>5, <2>6, WorkOKBook
<1>7. ASSUME NEW c \in Clients, Offer(c) PROVE WorkOK'
  <2>1. trips[c] = 0 /\ trips' = trips /\ flag' = flag
    BY <1>0, <1>7 DEF Offer, Go
  <2>2. \A d \in Clients \ {c} : who'[d] = who[d]
    BY <1>7 DEF TypeOK, Offer
  <2>3. \A k \in Couriers : Work(k)' = Work(k)
    BY <2>1, <2>2, WorkStay
  <2>4. \A k \in Couriers : delivery_waiting_time'[k] <= delivery_waiting_time[k]
    BY <1>7 DEF TypeOK, Offer
  <2>5. \A d \in Clients : pc'[d] \in {"temp2", "choose"} =>
            pc'[d] = pc[d] /\ temp'[d] = temp[d] /\ flag'[d] = flag[d]
    BY <1>7 DEF TypeOK, Offer, Go
  <2>6. QED
    BY <2>3, <2>4, <2>5, WorkOKStay
<1>8. CASE UNCHANGED vars
  <2>1. \A k \in Couriers : Work(k)' = Work(k)
    BY <1>8 DEF vars, Work, Booked
  <2>2. \A k \in Couriers : delivery_waiting_time'[k] <= delivery_waiting_time[k]
    BY <1>8 DEF TypeOK, vars
  <2>3. QED
    BY <1>8, <2>1, <2>2, WorkOKStay DEF vars
<1>9. QED
  BY <1>1, <1>2, <1>3, <1>4, <1>5, <1>6, <1>7, <1>8 DEF Next, Client, Thread

\* At the start there is neither a queue nor work.
LEMMA DeliveryInitWork == ASSUME Init, TypeOK PROVE WorkOK
<1>1. ASSUME NEW k \in Couriers PROVE Work(k) = 0 /\ delivery_waiting_time[k] = 0
  <2>1. \A c \in Clients : Booked(k)[c] = 0
    BY NoTripNoWork DEF Init
  <2>2. QED
    BY <2>1, SumOfZeros DEF Init, Work
<1>2. QED
  BY <1>1 DEF Init, WorkOK, NoPhantomWork, TempBounded

-----------------------------------------------------------------------------
(* What is missing is one lock around the reads and the booking.  README:69 *)
(* is right of every behaviour in which nobody books a ride while another   *)
(* thread is between reading the queues and choosing a courier.             *)

BooksAlone ==
    \A c, d \in Clients :
        c # d /\ pc[c] \in {"temp2", "choose"} => trips'[d] = trips[d]

\* What a thread has read covers the bookings of then and its own.
TempCovers(c) ==
    /\ pc[c] \in {"temp2", "choose"} => owed[0] + flag[c] <= temp[c][0]
    /\ pc[c] = "choose" => owed[1] + flag[c] <= temp[c][1]

Kept == NoBookingLost /\ \A c \in Clients : TempCovers(c)

\* A step that books nothing and reads nothing keeps the bookings covered.
LEMMA KeptStay ==
    ASSUME TypeOK, TypeOK', Kept,
           \A k \in Couriers : owed'[k] <= owed[k] /\ owed'[k] <= delivery_waiting_time'[k],
           \A d \in Clients : pc'[d] \in {"temp2", "choose"} =>
               pc'[d] = pc[d] /\ temp'[d] = temp[d] /\ flag'[d] = flag[d]
    PROVE  Kept'
<1>1. NoBookingLost'
  BY DEF TypeOK, NoBookingLost
<1>2. ASSUME NEW d \in Clients, pc'[d] \in {"temp2", "choose"}, NEW k \in Couriers,
             owed[k] + flag[d] <= temp[d][k]
      PROVE  owed'[k] + flag'[d] <= temp'[d][k]
  <2>1. /\ owed[k] \in Int /\ owed'[k] \in Int /\ flag[d] \in Int /\ temp[d][k] \in Int
        /\ owed'[k] <= owed[k] /\ temp'[d] = temp[d] /\ flag'[d] = flag[d]
    BY <1>2 DEF TypeOK
  <2>2. QED
    BY <1>2, <2>1
<1>3. ASSUME NEW d \in Clients PROVE TempCovers(d)'
  BY <1>2 DEF Kept, TempCovers, Couriers
<1>4. QED
  BY <1>1, <1>3 DEF Kept

\* A booking that stores no less than is owed then keeps them covered, when no
\* other thread has read the queues before it.
LEMMA KeptBook ==
    ASSUME TypeOK, TypeOK', Kept, NEW c \in Clients, NEW k \in Couriers, NEW s \in Nat,
           Book(c, k, s), owed[k] + flag[c] <= s, pc'[c] = "ride",
           \A d \in Clients \ {c} : pc'[d] = pc[d] /\ pc[d] \notin {"temp2", "choose"}
    PROVE  Kept'
<1>1. \A j \in Couriers : owed'[j] = (IF j = k THEN owed[j] + flag[c] ELSE owed[j])
                           /\ delivery_waiting_time'[j] =
                                  (IF j = k THEN s ELSE delivery_waiting_time[j])
  BY DEF TypeOK, Book
<1>2. NoBookingLost'
  BY <1>1 DEF Kept, NoBookingLost
<1>3. \A d \in Clients : pc'[d] \notin {"temp2", "choose"}
  OBVIOUS
<1>4. QED
  BY <1>2, <1>3 DEF Kept, TempCovers

\* Every step that books alone keeps the bookings covered.
LEMMA DeliveryKeptStep ==
    ASSUME DInv, TypeOK', Kept, BooksAlone, [Next]_vars
    PROVE  Kept'
<1> USE DEF DInv, order
<1>0. /\ \A k \in Couriers : /\ owed[k] \in Nat /\ delivery_waiting_time[k] \in Nat
                              /\ owed[k] <= delivery_waiting_time[k]
      /\ \A c \in Clients : flag[c] \in Nat /\ trips[c] \in Nat
  BY DEF TypeOK, Kept, NoBookingLost
<1>1. CASE Counter
  <2>1. \A k \in Couriers : owed'[k] <= owed[k] /\ owed'[k] <= delivery_waiting_time'[k]
    BY <1>0, <1>1 DEF TypeOK, Counter
  <2>2. QED
    BY <1>1, <2>1, KeptStay DEF Counter
<1>2. ASSUME NEW c \in Clients,
             Connect(c) \/ Leave(c) \/ Arrive(c) \/ Offer(c)
             \/ (\E s \in Shops, n \in Quantities : Order(c, s, n))
             \/ (Yes(c) /\ who[c] = Nobody)
      PROVE  Kept'
  <2>1. owed' = owed /\ delivery_waiting_time' = delivery_waiting_time
    BY <1>2 DEF Connect, Leave, Arrive, Offer, Order, Yes, Nobody, Couriers
  <2>2. \A d \in Clients : pc'[d] \in {"temp2", "choose"} =>
            pc'[d] = pc[d] /\ temp'[d] = temp[d] /\ flag'[d] = flag[d]
    BY <1>2 DEF TypeOK, Connect, Leave, Arrive, Offer, Order, Yes, Go
  <2>3. QED
    BY <1>0, <2>1, <2>2, KeptStay
<1>3. ASSUME NEW c \in Clients, NEW k \in Couriers, NEW s \in Nat, Book(c, k, s),
             pc' = [pc EXCEPT ![c] = "ride"]
      PROVE  \A d \in Clients \ {c} : pc'[d] = pc[d] /\ pc[d] \notin {"temp2", "choose"}
  <2>1. trips'[c] # trips[c]
    BY <1>0, <1>3 DEF TypeOK, Book
  <2>2. QED
    BY <1>3, <2>1 DEF TypeOK, BooksAlone
<1>4. ASSUME NEW c \in Clients, Yes(c), who[c] \in Couriers PROVE Kept'
  <2> DEFINE k == who[c]
             s == delivery_waiting_time[k] + flag[c]
  <2>1. Book(c, k, s) /\ pc' = [pc EXCEPT ![c] = "ride"]
    BY <1>4 DEF Yes, Go, Nobody, Couriers
  <2>2. s \in Nat /\ owed[k] + flag[c] <= s /\ pc'[c] = "ride"
    BY <1>0, <1>4, <2>1 DEF TypeOK
  <2> HIDE DEF s
  <2>3. QED
    BY <1>3, <1>4, <2>1, <2>2, KeptBook
<1>5. ASSUME NEW c \in Clients, Assign(c) PROVE Kept'
  <2> DEFINE k == Shorter(c)
             s == temp[c][k]
  <2>1. k \in Couriers /\ s \in Nat
    BY ShorterIsCourier DEF TypeOK
  <2>2. Book(c, k, s) /\ pc' = [pc EXCEPT ![c] = "ride"] /\ pc[c] = "choose"
    BY <1>5 DEF TypeOK, Assign, Go
  <2>3. owed[k] + flag[c] <= s /\ pc'[c] = "ride"
    BY <2>1, <2>2 DEF TypeOK, Kept, TempCovers, Couriers
  <2> HIDE DEF k, s
  <2>4. QED
    BY <1>3, <2>1, <2>2, <2>3, KeptBook
<1>6. ASSUME NEW c \in Clients, Confirm(c) \/ ReadTemp2(c) PROVE Kept'
  <2> DEFINE k == IF pc[c] = "recv" THEN 0 ELSE 1
  <2>1. /\ UNCHANGED <<delivery_waiting_time, owed, flag>> /\ k \in Couriers
        /\ temp' = [temp EXCEPT ![c][k] = delivery_waiting_time[k] + flag[c]]
        /\ pc[c] = (IF k = 0 THEN "recv" ELSE "temp2")
        /\ pc' = [pc EXCEPT ![c] = IF k = 0 THEN "temp2" ELSE "choose"]
    BY <1>6 DEF Confirm, ReadTemp2, Go, Couriers
  <2> HIDE DEF k
  <2>2. owed[k] + flag[c] <= delivery_waiting_time[k] + flag[c]
    BY <1>0, <2>1
  <2>3. NoBookingLost'
    BY <2>1 DEF Kept, NoBookingLost
  <2>4. ASSUME NEW d \in Clients PROVE TempCovers(d)'
    <3>0. TempCovers(d)
      BY DEF Kept
    <3>1. CASE d # c
      <4>1. pc'[d] = pc[d] /\ temp'[d] = temp[d]
        BY <2>1, <3>1 DEF TypeOK
      <4>2. QED
        BY <2>1, <3>0, <4>1 DEF TempCovers
    <3>2. CASE d = c
      <4>1. /\ pc'[c] = (IF k = 0 THEN "temp2" ELSE "choose")
            /\ temp'[c][k] = delivery_waiting_time[k] + flag[c]
            /\ \A j \in Couriers \ {k} : temp'[c][j] = temp[c][j]
        BY <2>1 DEF TypeOK
      <4>2. CASE k = 0
        BY <2>1, <2>2, <3>2, <4>1, <4>2 DEF TempCovers, Couriers
      <4>3. CASE k = 1
        BY <2>1, <2>2, <3>0, <3>2, <4>1, <4>3 DEF TempCovers, Couriers
      <4>4. QED
        BY <2>1, <4>2, <4>3 DEF Couriers
    <3>3. QED
      BY <3>1, <3>2
  <2>5. QED
    BY <2>3, <2>4 DEF Kept
<1>7. CASE UNCHANGED vars
  BY <1>0, <1>7, KeptStay DEF vars
<1>8. QED
  <2>1. ASSUME NEW c \in Clients, Yes(c) PROVE who[c] \in Couriers \/ who[c] = Nobody
    BY DEF TypeOK
  <2>2. QED
    BY <1>1, <1>2, <1>4, <1>5, <1>6, <1>7, <2>1 DEF Next, Client, Thread

-----------------------------------------------------------------------------
\* The variables of hw3.c keep their types: no queue of a courier is negative.
THEOREM DeliveryTypeCorrect == Spec => []TypeOK
<1>1. DInv => TypeOK
  BY DEF DInv
<1>2. QED
  BY <1>1, DeliveryInductive, PTL

\* hw3.c:190: no client is made to wait Threshold seconds or more without
\* having been asked, whatever has happened to the queues between the reads
\* and the booking.
THEOREM DeliveryLongWait == Spec => []LongWaitOnlyIfAsked
<1>1. DInv => LongWaitOnlyIfAsked
  BY DEF DInv, Rides, Warned, LongWaitOnlyIfAsked
<1>2. QED
  BY <1>1, DeliveryInductive, PTL

\* No connection books two rides, or one while it is still asked, or one for an
\* order without a price, for every sequence of messages.
THEOREM DeliveryOneRide == Spec => []OneRidePerOrder
<1>1. DInv => OneRidePerOrder
  BY DEF DInv, TypeOK, Rides, NoRideYet, RideOnce, OneRidePerOrder
<1>2. QED
  BY <1>1, DeliveryInductive, PTL

\* A courier's queue never holds more than the orders booked on that courier
\* take, for any number of clients that write back values as stale as they may
\* be: hw3.c can lose bookings, but not make work up.
THEOREM DeliveryNoPhantomWork == Spec => []NoPhantomWork
<1>1. Init => DInv /\ WorkOK
  BY DeliveryInitInv, DeliveryInitWork DEF DInv
<1>2. DInv /\ WorkOK /\ [Next]_vars => DInv' /\ WorkOK'
  <2>1. DInv /\ [Next]_vars => DInv'
    BY DeliveryTypeStep, DeliveryRidesStep DEF DInv
  <2>2. QED
    BY <2>1, DeliveryWorkStep DEF DInv
<1>3. WorkOK => NoPhantomWork
  BY DEF WorkOK
<1>4. QED
  BY <1>1, <1>2, <1>3, PTL DEF Spec

\* If every booking is made while no other thread is between its reads and its
\* choice, no booking is lost (README:69): stale reads are the only way in which
\* hw3.c loses one.
THEOREM DeliveryKeepsBookings == Spec /\ [][BooksAlone]_vars => []NoBookingLost
<1>1. Init => DInv /\ Kept
  BY DeliveryInitInv DEF Init, Kept, NoBookingLost, TempCovers
<1>2. DInv /\ Kept /\ [Next]_vars /\ [BooksAlone]_vars => DInv' /\ Kept'
  <2> SUFFICES ASSUME DInv, Kept, [Next]_vars, [BooksAlone]_vars PROVE DInv' /\ Kept'
    OBVIOUS
  <2>1. DInv' /\ TypeOK'
    BY DeliveryTypeStep, DeliveryRidesStep DEF DInv
  <2>2. CASE BooksAlone
    BY <2>1, <2>2, DeliveryKeptStep
  <2>3. CASE UNCHANGED vars
    <3>1. BooksAlone
      BY <2>3 DEF BooksAlone, vars
    <3>2. QED
      BY <2>1, <3>1, DeliveryKeptStep
  <2>4. QED
    BY <2>2, <2>3
<1>3. Kept => NoBookingLost
  BY DEF Kept
<1>4. QED
  BY <1>1, <1>2, <1>3, PTL DEF Spec

=============================================================================
