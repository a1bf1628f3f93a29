------------------------------- MODULE Delivery -------------------------------
(***************************************************************************)
(* The multi-client delivery platform, HomeWork/312512032_eos_hw3/hw3.c.   *)
(*                                                                         *)
(* main() starts one thread per connection (Delivery_platform) and one     *)
(* thread that lets time pass (counter).  Two couriers, 0 and 1, are       *)
(* shared: delivery_waiting_time[k] is the time until courier k is free    *)
(* again.  sem1 protects entry 0 and sem2 entry 1.  Every access is inside *)
(* its semaphore and no thread blocks inside one, so P; access; V is one   *)
(* step here; a thread that enters twice takes two steps.                  *)
(***************************************************************************)
EXTENDS Integers, FiniteSetsExt

CONSTANTS
    Clients,        \* the connections
    Shops,
    Distance,       \* the km of each shop, which are also seconds (3, 5, 8)
    Cost,           \* the price of a dish of each shop
    Threshold,      \* a longer wait is offered, not imposed (30)
    Quantities,     \* the numbers of dishes in an "order" message
    MaxDishes       \* bound on the dishes of one order

ASSUME DeliveryAssumption ==
    /\ IsFiniteSet(Clients)
    /\ Distance \in [Shops -> Nat \ {0}]
    /\ Cost \in [Shops -> Nat \ {0}]
    /\ Threshold \in Nat \ {0}
    /\ Quantities \subseteq Nat
    /\ MaxDishes \in Nat

Couriers == {0, 1}
Nobody == 2

VARIABLES
    delivery_waiting_time,
    tick,           \* the courier counter() serves next
    \* locals of each Delivery_platform()
    pc,
    flag,           \* distance of the shop of the order, 0 without an order
    price,
    who,            \* the courier chosen or offered
    temp,           \* temp1 and temp2
    \* history
    told,           \* the countdown the client waits for
    asked,          \* the client was offered a long wait
    trips,          \* bookings made for the client
    owed            \* what delivery_waiting_time is without interleavings

order == <<flag, price>>
vars == <<delivery_waiting_time, tick, pc, order, who, temp, told, asked, trips,
          owed>>

Init ==
    /\ delivery_waiting_time = [k \in Couriers |-> 0]
    /\ tick = 0
    /\ pc = [c \in Clients |-> "off"]
    /\ flag = [c \in Clients |-> 0]
    /\ price = [c \in Clients |-> 0]
    /\ who = [c \in Clients |-> Nobody]
    /\ temp = [c \in Clients |-> [k \in Couriers |-> 0]]
    /\ told = [c \in Clients |-> 0]
    /\ asked = [c \in Clients |-> FALSE]
    /\ trips = [c \in Clients |-> 0]
    /\ owed = [k \in Couriers |-> 0]

Go(c, a, b) == pc[c] = a /\ pc' = [pc EXCEPT ![c] = b]

-----------------------------------------------------------------------------
\* counter(): once a second the waiting time of each courier goes down by one.

\* Mutant: the last second is never counted down.
Counter_KeepsOne ==
    /\ tick' = 1 - tick
    /\ delivery_waiting_time' =
          [delivery_waiting_time EXCEPT ![tick] = IF @ > 1 THEN @ - 1 ELSE @]
    /\ owed' = [owed EXCEPT ![tick] = IF @ > 0 THEN @ - 1 ELSE 0]
    /\ UNCHANGED <<pc, order, who, temp, told, asked, trips>>

\* Mutant: an idle courier is counted down below zero.
Counter_NoFloor ==
    /\ tick' = 1 - tick
    /\ delivery_waiting_time' =
          [delivery_waiting_time EXCEPT ![tick] = @ - 1]
    /\ owed' = [owed EXCEPT ![tick] = IF @ > 0 THEN @ - 1 ELSE 0]
    /\ UNCHANGED <<pc, order, who, temp, told, asked, trips>>

Counter ==
    /\ tick' = 1 - tick
    /\ delivery_waiting_time' =
          [delivery_waiting_time EXCEPT ![tick] = IF @ > 0 THEN @ - 1 ELSE 0]
    /\ owed' = [owed EXCEPT ![tick] = IF @ > 0 THEN @ - 1 ELSE 0]
    /\ UNCHANGED <<pc, order, who, temp, told, asked, trips>>

-----------------------------------------------------------------------------
(* Delivery_platform(): the messages of client c, in any order.  "shop     *)
(* list", unknown messages and "confirm" of an empty order change nothing. *)

Connect(c) ==
    /\ Go(c, "off", "recv")
    /\ UNCHANGED <<delivery_waiting_time, tick, order, who, temp, told, asked,
                   trips, owed>>

\* "order" of n dishes: the first one fixes the shop (a message without a
\* number does, with n = 0), dishes of other shops are ignored.
Order(c, s, n) ==
    /\ Go(c, "recv", "recv")
    /\ flag[c] \in {0, Distance[s]}
    /\ price[c] + n * Cost[s] <= MaxDishes * Cost[s]
    /\ flag' = [flag EXCEPT ![c] = Distance[s]]
    /\ price' = [price EXCEPT ![c] = @ + n * Cost[s]]
    /\ UNCHANGED <<delivery_waiting_time, tick, who, temp, told, asked, trips,
                   owed>>

\* "cancel", "No", or the client has closed the connection.
Leave(c) ==
    /\ Go(c, "recv", "done")
    /\ UNCHANGED <<delivery_waiting_time, tick, order, who, temp, told, asked,
                   trips, owed>>

\* Courier k is booked: its queue is set to the time the client has to wait.
Book(c, k, seconds) ==
    /\ delivery_waiting_time' = [delivery_waiting_time EXCEPT ![k] = seconds]
    /\ told' = [told EXCEPT ![c] = seconds]
    /\ trips' = [trips EXCEPT ![c] = @ + 1]
    /\ owed' = [owed EXCEPT ![k] = @ + flag[c]]

\* "Yes": accepts the courier last offered; without an offer nobody is booked
\* and the delivery arrives at once.
Yes(c) ==
    /\ Go(c, "recv", "ride")
    /\ \/ /\ who[c] \in Couriers
          /\ Book(c, who[c], delivery_waiting_time[who[c]] + flag[c])
       \/ /\ who[c] = Nobody
          /\ UNCHANGED <<delivery_waiting_time, told, trips, owed>>
    /\ UNCHANGED <<tick, order, who, temp, asked>>

\* Mutant: an empty order can be confirmed.
Confirm_Empty(c) ==
    /\ Go(c, "recv", "temp2")
    /\ temp' = [temp EXCEPT ![c][0] = delivery_waiting_time[0] + flag[c]]
    /\ UNCHANGED <<delivery_waiting_time, tick, order, who, told, asked, trips,
                   owed>>

\* "confirm", of an order that is not empty: the two queues are read, each
\* under its semaphore.
Confirm(c) ==
    /\ Go(c, "recv", "temp2")
    /\ price[c] # 0
    /\ temp' = [temp EXCEPT ![c][0] = delivery_waiting_time[0] + flag[c]]
    /\ UNCHANGED <<delivery_waiting_time, tick, order, who, told, asked, trips,
                   owed>>

ReadTemp2(c) ==
    /\ Go(c, "temp2", "choose")
    /\ temp' = [temp EXCEPT ![c][1] = delivery_waiting_time[1] + flag[c]]
    /\ UNCHANGED <<delivery_waiting_time, tick, order, who, told, asked, trips,
                   owed>>

Shorter(c) == IF temp[c][0] < temp[c][1] THEN 0 ELSE 1

\* Mutant: the courier with the longer queue is taken.
Assign_Longer(c) ==
    /\ Go(c, "choose", "ride")
    /\ \E k \in Couriers : temp[c][k] < Threshold
    /\ who' = [who EXCEPT ![c] = 1 - Shorter(c)]
    /\ Book(c, who'[c], temp[c][who'[c]])
    /\ UNCHANGED <<tick, order, temp, asked>>

\* Mutant: the queue read before is added to the queue, as "Yes" does.
Assign_Adds(c) ==
    /\ Go(c, "choose", "ride")
    /\ \E k \in Couriers : temp[c][k] < Threshold
    /\ who' = [who EXCEPT ![c] = Shorter(c)]
    /\ Book(c, who'[c], delivery_waiting_time[who'[c]] + temp[c][who'[c]])
    /\ UNCHANGED <<tick, order, temp, asked>>

\* The wait is short: the courier is booked by storing what was read plus the
\* distance, whatever has happened to the queue since.
Assign(c) ==
    /\ Go(c, "choose", "ride")
    /\ \E k \in Couriers : temp[c][k] < Threshold
    /\ who' = [who EXCEPT ![c] = Shorter(c)]
    /\ Book(c, who'[c], temp[c][who'[c]])
    /\ UNCHANGED <<tick, order, temp, asked>>

\* "Your delivery will take a long time, do you want to wait?"
Offer(c) ==
    /\ Go(c, "choose", "recv")
    /\ \A k \in Couriers : temp[c][k] >= Threshold
    /\ who' = [who EXCEPT ![c] = Shorter(c)]
    /\ asked' = [asked EXCEPT ![c] = TRUE]
    /\ UNCHANGED <<delivery_waiting_time, tick, order, temp, told, trips, owed>>

\* Mutant: the thread goes on receiving after the delivery.
Arrive_Stays(c) ==
    /\ Go(c, "ride", "recv")
    /\ UNCHANGED <<delivery_waiting_time, tick, order, who, temp, told, asked,
                   trips, owed>>

\* The sleeps are over: "Delivery has arrived", and the thread ends.
Arrive(c) ==
    /\ Go(c, "ride", "done")
    /\ UNCHANGED <<delivery_waiting_time, tick, order, who, temp, told, asked,
                   trips, owed>>

-----------------------------------------------------------------------------
Thread(c) == ReadTemp2(c) \/ Assign(c) \/ Offer(c) \/ Arrive(c)

Client(c) ==
    \/ Connect(c) \/ Leave(c) \/ Yes(c) \/ Confirm(c)
    \/ \E s \in Shops, n \in Quantities : Order(c, s, n)

Next == Counter \/ \E c \in Clients : Client(c) \/ Thread(c)

Spec == Init /\ [][Next]_vars

\* The threads run; nothing makes a client send its next message.
FairSpec == Spec /\ WF_vars(Counter) /\ \A c \in Clients : WF_vars(Thread(c))

-----------------------------------------------------------------------------
(* Properties.                                                             *)

TypeOK ==
    /\ delivery_waiting_time \in [Couriers -> Nat]
    /\ tick \in Couriers
    /\ pc \in [Clients -> {"off", "recv", "temp2", "choose", "ride", "done"}]
    /\ flag \in [Clients -> Nat]
    /\ price \in [Clients -> Nat]
    /\ who \in [Clients -> Couriers \cup {Nobody}]
    /\ temp \in [Clients -> [Couriers -> Nat]]
    /\ told \in [Clients -> Nat]
    /\ asked \in [Clients -> BOOLEAN]
    /\ trips \in [Clients -> Nat]
    /\ owed \in [Couriers -> Nat]

\* hw3.c:190: nobody is made to wait Threshold seconds or more who was not
\* asked first, even when the queues grew between the reads and the booking.
LongWaitOnlyIfAsked ==
    \A c \in Clients : told[c] >= Threshold => asked[c]

\* The seconds that the orders booked on courier k take.
Booked(k) == [c \in Clients |-> IF who[c] = k THEN trips[c] * flag[c] ELSE 0]
Work(k) == SumFunctionOnSet(Booked(k), Clients)

\* However stale the values that are written back, a courier's queue never
\* holds more work than the orders that were booked on that courier.
NoPhantomWork == \A k \in Couriers : delivery_waiting_time[k] <= Work(k)

\* A client takes up at most one ride of one courier, whatever the sequence of
\* confirms, offers and answers; a client that is still asked has taken none,
\* and a courier sets out for an order that has a price.
OneRidePerOrder ==
    \A c \in Clients :
        /\ trips[c] <= 1
        /\ pc[c] \in {"recv", "temp2", "choose"} => trips[c] = 0
        /\ trips[c] = 1 => price[c] > 0

\* Every booked delivery arrives.
DeliveryArrives ==
    \A c \in Clients : (trips[c] = 1) ~> (pc[c] = "done")

\* Couriers come back: with the clients served, counter() brings every queue
\* down to zero, also from the values the stale writes have left there.
QueuesDrain == \A k \in Couriers : []<>(delivery_waiting_time[k] = 0)

-----------------------------------------------------------------------------
(* A statement of the documentation, which TLC refutes.                    *)

\* README:69, "ensure it correctly handles race conditions": no booking is
\* lost; a courier's queue holds at least the time of the orders on it.
NoBookingLost ==
    \A k \in Couriers : delivery_waiting_time[k] >= owed[k]

=============================================================================
