---------------------------------- MODULE Menu ----------------------------------
(***************************************************************************)
(* The delivery menu of HomeWork/312512032_eos_hw1: hw1.c, on any number   *)
(* of terminals, and the driver HW1_driver.c of /dev/order.  A write to    *)
(* the device lasts as long as the delivery: a LED per kilometre, one of   *)
(* them going out every second, then the digits of the price.  The driver  *)
(* has no lock: its LEDs, its display and order_arrive_flag are shared by  *)
(* every terminal that is inside it.                                       *)
(***************************************************************************)
EXTENDS Integers, FiniteSets

CONSTANTS
    Terminals,
    Kilometres,     \* the distances of the shops (3, 5, 8)
    MaxOrders       \* bound on the deliveries of one terminal

ASSUME MenuAssumption ==
    /\ IsFiniteSet(Terminals)
    /\ Kilometres \subseteq Nat \ {0}
    /\ MaxOrders \in Nat

VARIABLES
    order_arrive_flag,
    leds,           \* the LEDs of the distance that are on
    display,        \* the seven-segment display shows something
    menu,           \* control point of hw1.c: in the menu, in etx_write()
                    \* ("leds", "count", "digits"), or after it
    km,             \* the distance written to the device
    left,           \* the LEDs Delivery_distance() has still to put out
    orders          \* deliveries so far, for the bound

board == <<order_arrive_flag, leds, display>>
menuVars == <<board, menu, km, left, orders>>

MenuInit ==
    /\ order_arrive_flag = 0 /\ leds = {} /\ display = FALSE
    /\ menu = [t \in Terminals |-> "closed"]
    /\ km = [t \in Terminals |-> 0]
    /\ left = [t \in Terminals |-> 0]
    /\ orders = [t \in Terminals |-> 0]

Step(t, a, b) == menu[t] = a /\ menu' = [menu EXCEPT ![t] = b]

-----------------------------------------------------------------------------
(* hw1.c                                                                   *)

OpenOrder(t) ==
    /\ Step(t, "closed", "menu")
    /\ UNCHANGED <<board, km, left, orders>>

\* "shop list", "cancel", an order of nothing or whose price is 0 modulo 2^32.
NoOrder(t) ==
    /\ Step(t, "menu", "close")
    /\ UNCHANGED <<board, km, left, orders>>

ConfirmOrder(t, n) ==
    /\ orders[t] < MaxOrders
    /\ Step(t, "menu", "leds")
    /\ order_arrive_flag' = 0
    /\ km' = [km EXCEPT ![t] = n]
    /\ orders' = [orders EXCEPT ![t] = @ + 1]
    /\ UNCHANGED <<leds, display, left>>

\* etx_read() in a loop, until it says that the order has arrived.
Arrived(t) ==
    /\ order_arrive_flag = 1
    /\ Step(t, "poll", "meal")
    /\ UNCHANGED <<board, km, left, orders>>

PickUp(t) ==
    /\ Step(t, "meal", "close")
    /\ UNCHANGED <<board, km, left, orders>>

\* Ctrl-C, which the device does not see before etx_write() is over.
Interrupt(t) ==
    /\ menu[t] \in {"menu", "poll", "meal"}
    /\ menu' = [menu EXCEPT ![t] = "close"]
    /\ UNCHANGED <<board, km, left, orders>>

-----------------------------------------------------------------------------
(* HW1_driver.c                                                            *)

\* Mutant: one LED too many, which the loop back does not put out.
LedsOn_OneMore(t) ==
    /\ Step(t, "leds", "count")
    /\ leds' = leds \cup 0 .. km[t]
    /\ left' = [left EXCEPT ![t] = km[t]]
    /\ UNCHANGED <<order_arrive_flag, display, km, orders>>

LedsOn(t) ==
    /\ Step(t, "leds", "count")
    /\ leds' = leds \cup 0 .. km[t] - 1
    /\ left' = [left EXCEPT ![t] = km[t]]
    /\ UNCHANGED <<order_arrive_flag, display, km, orders>>

\* Mutant: the loop goes on for one LED more.
LedOff_OneMore(t) ==
    /\ menu[t] = "count" /\ left[t] >= 0
    /\ left' = [left EXCEPT ![t] = @ - 1]
    /\ leds' = leds \ {left'[t]}
    /\ UNCHANGED <<order_arrive_flag, display, menu, km, orders>>

LedOff(t) ==
    /\ menu[t] = "count" /\ left[t] > 0
    /\ left' = [left EXCEPT ![t] = @ - 1]
    /\ leds' = leds \ {left'[t]}
    /\ UNCHANGED <<order_arrive_flag, display, menu, km, orders>>

\* display(), once or more: dark for 20 ms, and then a digit.
Digits(t, on) ==
    /\ menu[t] \in {"count", "digits"} /\ left[t] = 0
    /\ menu' = [menu EXCEPT ![t] = "digits"]
    /\ display' = on
    /\ UNCHANGED <<order_arrive_flag, leds, km, left, orders>>

\* Mutant: the flag is left to the next write.
WriteReturns_NoFlag(t) ==
    /\ Step(t, "digits", "poll")
    /\ UNCHANGED <<board, km, left, orders>>

WriteReturns(t) ==
    /\ Step(t, "digits", "poll")
    /\ order_arrive_flag' = 1
    /\ UNCHANGED <<leds, display, km, left, orders>>

\* etx_release()
CloseOrder(t) ==
    /\ Step(t, "close", "closed")
    /\ display' = FALSE
    /\ UNCHANGED <<order_arrive_flag, leds, km, left, orders>>

-----------------------------------------------------------------------------
Device(t) ==
    LedsOn(t) \/ LedOff(t) \/ WriteReturns(t) \/ Arrived(t) \/ CloseOrder(t)

MenuNext ==
    \E t \in Terminals :
        \/ OpenOrder(t) \/ NoOrder(t) \/ PickUp(t) \/ Interrupt(t)
        \/ \E n \in Kilometres : ConfirmOrder(t, n)
        \/ \E on \in BOOLEAN : Digits(t, on)
        \/ LedsOn(t) \/ LedOff(t) \/ WriteReturns(t) \/ Arrived(t) \/ CloseOrder(t)

MenuSpec == MenuInit /\ [][MenuNext]_menuVars

\* The driver's loops end.  Nothing is assumed of the customers.
MenuFairness ==
    \A t \in Terminals :
        /\ WF_menuVars(Device(t))
        /\ WF_menuVars(menu[t] = "count" /\ Digits(t, TRUE))

-----------------------------------------------------------------------------
(* Properties.                                                             *)

MenuTypeOK ==
    /\ order_arrive_flag \in {0, 1} /\ leds \subseteq Nat /\ display \in BOOLEAN
    /\ menu \in [Terminals -> {"closed", "menu", "leds", "count", "digits",
                               "poll", "meal", "close"}]
    /\ km \in [Terminals -> Nat] /\ left \in [Terminals -> Nat]
    /\ orders \in [Terminals -> 0 .. MaxOrders]

\* The board goes dark: terminals switch each other's LEDs on and off and
\* blank each other's digits, but a LED that is on is one that some write has
\* still to put out, and with every terminal closed nothing is lit.
DarkWhenIdle ==
    /\ \A i \in leds : \E t \in Terminals : menu[t] = "count" /\ i < left[t]
    /\ (\A t \in Terminals : menu[t] = "closed") => display = FALSE

\* A customer whose delivery is over is told so, or goes: another terminal's
\* order takes the flag back, but sets it again.
CustomerTold ==
    \A t \in Terminals : menu[t] = "leds" ~> menu[t] \in {"meal", "close"}

=============================================================================
