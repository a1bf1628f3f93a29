-------------------------------- MODULE Drivers --------------------------------
(***************************************************************************)
(* Loading and unloading of the LED drivers in one kernel: "order"         *)
(* (HomeWork/312512032_eos_hw1/HW1_driver.c), "led" (lab3-1_driver.c of    *)
(* Lab/312512032_eos_lab3-1) and "lot" (FinalProject/driver.c).  Each init *)
(* function acquires a device number, a cdev, a class, a device and its    *)
(* pins in this order; a failure jumps into the chain of labels that       *)
(* releases them in the opposite order, at the label of the step that      *)
(* failed, and the exit function releases everything.  The kernel runs     *)
(* insmod and rmmod of different drivers at the same time.                 *)
(***************************************************************************)
EXTENDS Integers, Sequences

CONSTANT Drivers    \* the drivers in use, a subset of All

All == {"order", "led", "lot"}
ASSUME DriversAssumption == Drivers \subseteq All

\* GPIO and GPIO_dispaly of "order", GPIO of "led" as its init requests them,
\* and gpio_list of "lot".
PinList ==
    [order |-> <<25, 8, 7, 1, 12, 16, 20, 21, 11, 0, 5, 6, 13, 19, 26>>,
     led   |-> <<21, 20, 16, 12>>,
     lot   |-> <<26, 19, 13, 6, 17, 4, 3, 2, 1, 7, 8, 25, 23, 18, 15, 14>>]

Pins(d) == {PinList[d][i] : i \in DOMAIN PinList[d]}
AllPins == UNION {Pins(d) : d \in All}

\* The driver of the parking lot takes the pointers of class_create() and
\* device_create() for good unless they are NULL, and requests no pin.
ChecksErrors(d) == d # "lot"
RequestsPins(d) == d # "lot"

Nobody == "nobody"

VARIABLES
    state,          \* "out", "init", "undo", "in", or "oops" in rmmod
    step,           \* 1 region, 2 cdev, 3 class, 4 device, 5.. a pin each
    has,            \* which of 1..4 the driver has
    etx_class,      \* the driver that has registered the class "etx_class"
    owner           \* the driver for which each pin is requested

driversVars == <<state, step, has, etx_class, owner>>

DriversInit ==
    /\ state = [d \in Drivers |-> "out"]
    /\ step = [d \in Drivers |-> 0]
    /\ has = [d \in Drivers |-> {}]
    /\ etx_class = Nobody
    /\ owner = [p \in AllPins |-> Nobody]

-----------------------------------------------------------------------------
(* etx_driver_init()                                                       *)

Insmod(d) ==
    /\ state[d] = "out"
    /\ state' = [state EXCEPT ![d] = "init"]
    /\ step' = [step EXCEPT ![d] = 1]
    /\ UNCHANGED <<has, etx_class, owner>>

Doing(d, n) == state[d] = "init" /\ step[d] = n

Advance(d) == step' = [step EXCEPT ![d] = @ + 1] /\ UNCHANGED state

\* Mutant: each driver has a class name of its own.
Acquire_OwnClass(d) ==
    /\ state[d] = "init" /\ step[d] \in 1 .. 4
    /\ has' = [has EXCEPT ![d] = @ \cup {step[d]}]
    /\ Advance(d)
    /\ UNCHANGED <<etx_class, owner>>

\* A class of the same name cannot be registered twice.
Acquire(d) ==
    /\ state[d] = "init" /\ step[d] \in 1 .. 4
    /\ step[d] = 3 => etx_class = Nobody
    /\ step[d] = 4 => 3 \in has[d]
    /\ has' = [has EXCEPT ![d] = @ \cup {step[d]}]
    /\ etx_class' = IF step[d] = 3 THEN d ELSE etx_class
    /\ Advance(d)
    /\ UNCHANGED owner

\* The result of class_create() or device_create() is ERR_PTR, not NULL.
Overlook(d) ==
    /\ ~ChecksErrors(d)
    /\ state[d] = "init" /\ step[d] \in {3, 4}
    /\ Advance(d)
    /\ UNCHANGED <<has, etx_class, owner>>

RequestPin(d) ==
    /\ RequestsPins(d) /\ state[d] = "init" /\ step[d] > 4
    /\ step[d] - 4 \in DOMAIN PinList[d]
    /\ LET p == PinList[d][step[d] - 4]
       IN  owner[p] = Nobody /\ owner' = [owner EXCEPT ![p] = d]
    /\ Advance(d)
    /\ UNCHANGED <<has, etx_class>>

Label(n) == IF n > 5 THEN 5 ELSE n

\* Any step may fail, for want of memory if not for the class or the pin.
Fail(d) ==
    /\ state[d] = "init" /\ step[d] < 5 + Len(PinList[d])
    /\ ChecksErrors(d) \/ step[d] < 3
    /\ state' = [state EXCEPT ![d] = "undo"]
    /\ step' = [step EXCEPT ![d] = Label(@)]
    /\ UNCHANGED <<has, etx_class, owner>>

Inserted(d) ==
    /\ Doing(d, IF RequestsPins(d) THEN 5 + Len(PinList[d]) ELSE 5)
    /\ state' = [state EXCEPT ![d] = "in"]
    /\ UNCHANGED <<step, has, etx_class, owner>>

-----------------------------------------------------------------------------
(* The labels of etx_driver_init(), which are also etx_driver_exit().      *)

Rmmod(d) ==
    /\ state[d] = "in"
    /\ state' = [state EXCEPT ![d] = "undo"]
    /\ step' = [step EXCEPT ![d] = 5]
    /\ UNCHANGED <<has, etx_class, owner>>

Undoing(d, n) ==
    /\ state[d] = "undo" /\ step[d] = n
    /\ step' = [step EXCEPT ![d] = n - 1]

\* gpio_free() does not ask who has requested the pin.
FreePins(d) ==
    /\ Undoing(d, 5)
    /\ owner' = [p \in AllPins |-> IF p \in Pins(d) THEN Nobody ELSE owner[p]]
    /\ UNCHANGED <<state, has, etx_class>>

\* Releasing what was not acquired does nothing, but device_destroy() follows
\* the pointer to the class.
Release(d, n) ==
    /\ Undoing(d, n)
    /\ n = 4 => 3 \in has[d]
    /\ has' = [has EXCEPT ![d] = @ \ {n}]
    /\ etx_class' = IF n = 3 /\ etx_class = d THEN Nobody ELSE etx_class
    /\ UNCHANGED <<state, owner>>

Oops(d) ==
    /\ state[d] = "undo" /\ step[d] = 4 /\ 3 \notin has[d]
    /\ state' = [state EXCEPT ![d] = "oops"]
    /\ UNCHANGED <<step, has, etx_class, owner>>

Removed(d) ==
    /\ state[d] = "undo" /\ step[d] = 0
    /\ state' = [state EXCEPT ![d] = "out"]
    /\ UNCHANGED <<step, has, etx_class, owner>>

-----------------------------------------------------------------------------
DriversNext ==
    \E d \in Drivers :
        \/ Insmod(d) \/ Acquire(d) \/ Overlook(d) \/ RequestPin(d) \/ Fail(d)
        \/ Inserted(d) \/ Rmmod(d) \/ FreePins(d) \/ Oops(d) \/ Removed(d)
        \/ \E n \in 1 .. 4 : Release(d, n)

DriversSpec == DriversInit /\ [][DriversNext]_driversVars

-----------------------------------------------------------------------------
(* Properties.                                                             *)

DriversTypeOK ==
    /\ state \in [Drivers -> {"out", "init", "undo", "in", "oops"}]
    /\ step \in [Drivers -> 0 .. 20]
    /\ has \in [Drivers -> SUBSET (1 .. 4)]
    /\ etx_class \in Drivers \cup {Nobody}
    /\ owner \in [AllPins -> Drivers \cup {Nobody}]

Holds(d) == {p \in AllPins : owner[p] = d}

\* Wherever insmod fails, and whatever other drivers are loaded, fail and are
\* unloaded meanwhile, a driver that is out holds nothing and one that is in
\* holds everything.  No label checks whose pins it frees; what saves the pins
\* that "order" and "led" share is that their classes have the same name, so
\* the second one fails before it has come to the pins.  The pins that "lot"
\* names are not safe from it.
AllOrNothing ==
    \A d \in Drivers :
        /\ state[d] = "out" => has[d] = {} /\ etx_class # d /\ Holds(d) = {}
        /\ state[d] = "in" /\ ChecksErrors(d) =>
               /\ has[d] = 1 .. 4 /\ etx_class = d
               /\ Pins(d) \ Pins("lot") \subseteq Holds(d)

=============================================================================
