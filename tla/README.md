# Embedded Operating Systems projects: a TLA+ verification project

The repository is the work of one course: a smart parking lot (`FinalProject/`),
three delivery platforms (`HomeWork/`) and seven small labs (`Lab/`).  Most of
them are concurrent programs over shared memory, semaphores, signals, sockets
and device drivers.  This directory holds TLA+ models of them, the TLC runs that
check the models, and proofs checked by TLAPS.

* `tlc -workers 2 -config X.cfg M` runs a check (the table of runs is below),
* `tlapm M.tla` checks the proofs of a module `M` named `..._proofs`, or of `Sums`.

## 1. Inventory

### Parking server, requests (`FinalProject/server.c`)

State: System V shared memory with `struct CAR car[16]`, `park_space[16]`,
`space_left[2]` and `*cash`; semaphores `sem_mutex` (1) and `sem_counting` (2,
the pay stations); the LEDs behind `/dev/etx_device`.  `main()` forks a child
per connection, which runs `entry()`, `exitpark()` or `payment()` and ends.

Hard: the children scan `car[]` without a lock and write under `sem_mutex`;
positions and times found by a scan are used after other children have run;
`payment()` waits for a customer inside `sem_counting` and takes `sem_mutex`
twice inside it; a child that dies keeps what it holds (no `SEM_UNDO`).

Correct when: the semaphores are exact on every path, the two tables and the
counters agree, cars get the nearest free slot of their row, no car is
overwritten, parked twice or evicted by another's exit, no payment is lost,
and every camera is answered.

### Parking client (`FinalProject/client.py`)

One process per camera, each with one request outstanding, and a thread `PAY`
per "Entry Success" and per "Exit Failed" that connects some time later and
pays.  Interacts with the server by one request and its reply per connection.
Hard: cars scanned again and again, several PAY threads for one car.

### Parking server, start and stop (`FinalProject/server.c`)

`main()` before the accept loop creates two semaphores with `IPC_EXCL` and takes
or creates four segments; `handler()` removes all six.  Ctrl-C reaches the
children too and they have inherited the handler.  Hard: concurrent handlers,
a start that is interrupted or refused, restarts after a kill.

### The three LED drivers (`FinalProject/driver.c`, HW1, LAB3-1)

Each init function acquires a device number, a cdev, a class, a device and its
pins, and jumps into a chain of `goto` labels when a step fails; the exit
function runs the same releases.  They share pins and the name of their class,
and the parking lot's driver takes error pointers for results.  Correct when a
driver that is out holds nothing, and one that is in holds everything.

### Delivery platform HW3 (`HomeWork/312512032_eos_hw3/hw3.c`)

A thread per client and a thread `counter`; the shared state is the waiting
time of two couriers, one semaphore each.  Hard: read, decide and write are
three critical sections.  Correct when no booking is lost or invented, nobody
is made to wait long without having been asked, and every delivery arrives.

### Delivery server HW2 (`HomeWork/312512032_eos_hw2/hw2.c`)

One client after the other, served from the same variables.  Hard: what one
client leaves in them meets the next one.  Correct when everybody pays for
what was ordered.

### Delivery menu HW1 (`HomeWork/312512032_eos_hw1/`)

`hw1.c` writes a distance and a price to `/dev/order`; the write lasts as long as
the delivery.  Hard: with several terminals the driver's LEDs, display and
`order_arrive_flag` are shared without a lock.  Correct when the board goes
dark again and every customer is told of the arrival.

### Marquee LAB4 (`Lab/312512032_eos_lab4/`)

`my_write()` and `my_read()` share `temp[]`, `input_count` and `output_count` without
a lock, and a read that finds the device empty resets both counters.  Correct
when only letters are shown, in order, and the device drains.

### Train server LAB5 (`Lab/312512032_eos_lab5/`)

`accept`, `fork`, `exec`, a SIGCHLD handler that collects the trains, and a SIGINT
handler.  Hard: inherited connections, signals that do not queue.

### Bank LAB6 (`Lab/312512032_eos_lab6/`)

A thread per client adds to one balance without a lock, and gets its socket
through a shared variable.  The clients hold a semaphore around `send()`.

### Guessing game LAB7 (`Lab/312512032_eos_lab7/`)

`game.c` answers SIGUSR1, `guess.c` bisects in the handler of a timer, over one
shared record that also survives a restart of `guess.c`.  Nothing but the
second between two alarms keeps a guess and its answer together.

Build files, videos and slides have no behaviour.

## 2. Modules

| module | models | state and actions |
|---|---|---|
| `ParkingLot` | what the lot promises, without processes | `lot`; `Park`, `Leave` |
| `ParkingGates` | what server and client promise together | `lot`, `inside`; `Reserve`, `LetIn`, `Vacate`, `LetOut` |
| `ParkingServer` | the requests of `server.c` | the shared variables under their C names, the locals of each child; one action per shared access |
| `ParkingSystem` | `ParkingServer` with `client.py` and the cars | `view`, `conn`, `payers`, `inside`; `Scan`, `Receive`, `PayConnect` |
| `ParkingLifecycle` | start, SIGINT, restart of `server.c` | the six kernel objects, their ids and the globals of each process |
| `Delivery` | `hw3.c` | `delivery_waiting_time`, the locals of each thread |
| `Bank` | LAB6 `server.c` and `client.c` | the balance, `client_socket`, a queue per connection |
| `Guess` | LAB7 | the shared record, the pending SIGUSR1, the bounds |
| `Marquee` | LAB4 | `temp` and its two counters, one place per access to them |
| `Train` | LAB5 | the children, who holds which connection, the pending SIGCHLD |
| `Drivers` | init and exit of the three drivers | how far each driver is, the class, the owner of each pin |
| `Menu` | HW1 | the board, one place per terminal |
| `Shop` | HW2 | the variables of `main()` that outlive a client |
| `MC...` | instances for TLC; `MCLabs` joins the last six | |
| `Sums` | lemmas about sums over finite sets, for the proofs | |
| `..._proofs` | the theorems (section 4) | |

**ParkingServer.**  `pc[p]` is the place of child `p` in its handler; `idle` means
that the slot `p` has no child.  The labels `e_...`, `x_...` and `p_...` belong to
`entry()`, `exitpark()` and `payment()`, and the actions `Entry...`, `Exit...`
and `Pay...` follow the order of the C statements.  A scan of the table is one
step, as are stores that no other child can tell apart; every other access to
shared memory is a step of its own, in particular the load and the store of
`*cash += fee`, the two scans of `exitpark()`, the early `pay_t` of
`payment()`, and the writes under the mutex that readers outside the mutex can
see half done.  An access out of bounds (`car[-1]`, `space_left[-1]`) either
kills the child or hits memory nobody uses.  Three variables are history:
`mutexLost`, `permitsLost` and `received`.

**ParkingSystem** adds the physical world: a car is in front of at most one
camera, and it is inside exactly when it was let in and not let out.  This is
what makes the unlocked scans of the server harmless, and `Scan_Impatient`, a
camera that does not wait for its reply, shows that it is needed.  With it the
system implements `ParkingGates`: each car has a slot reserved, is let in, has
its slot vacated and is let out, in this order and never otherwise.

**ParkingLifecycle** numbers the six objects in the order in which `main()`
creates and `handler()` removes them, so that one counter per process says how
far its start or its handler has come.  An id that the kernel has returned and
`main()` has not stored yet (`got`) is out of the handler's reach.

**Delivery** takes `P; access; V` as one step, because every access to an entry
is inside its semaphore and nothing blocks there.  `confirm` is three steps:
`Confirm`, `ReadTemp2`, and `Assign` or `Offer`.  The sleeps are one step
(`Arrive`) that may come at any later time, so nothing depends on timing.

**Bank** leaves the clients' semaphore out: it orders sends, not receives.

**Guess** lets the alarm come at any time, also before the answer.  The history
`misled` says that the handler has used a result no guess of its own got;
everything promised is promised while it is `FALSE`, and nothing else is
assumed of the timing.  `Check` and `Answer` are the compare and the store of
`Check_handler()`, `Alarm`, `Write` and `Signal` the three accesses of
`guess_handler()`.

**Marquee** splits `input_count++` into a load and a store, and `my_read()` into its
test, its use of `temp[output_count]` and the two stores of its reset.  The
history `raced` says that a reset has met a write; `written` and `shown` are what
went in and came out.

**Train** has a pending bit for SIGCHLD, and no step of `main()` while the handler
runs.  `holders[c]` is the set of processes that have connection `c` open.

**Drivers** numbers the resources in the order in which the init functions acquire
them, 1 to 4 and then a number per pin; an undo starts at the label of the step
that failed.  What saves shared pins is the shared name of the classes, and
the proof needs exactly that.  `Oops` is `rmmod` following an error pointer.

**Menu** has the loops of `etx_write()` as steps of each terminal; the digits only
say whether the display shows something.  **Shop** keeps the variables that
`main()` declares outside its loop and the `basket` the client believes in;
`long_word` says that `order_check` holds more than a later "order" overwrites.

An operator marked "Mutant" belongs to no specification.  It is the action
after it with a plausible bug, and the property named for it in `PROJECT.json`
fails when the mutant takes the action's place.

## 3. Runs

| run | module, cfg | shows |
|---|---|---|
| server_safety | `MCParkingServer`, `_safety` | `MutexExact`, `PermitsExact`, `SlotsAgree`, `SpaceLeftExact`, `GuidedToNearest`, `ImplementsLot`, and the inductive invariant `IInv`, with clients that send anything and customers that disconnect |
| system_cars | `MCParkingSystem`, `_cars` | `NoDuplicatePlate`, `NoStrayIndex`, `ToldMatchesTable`, `ExitClearsOwnCar`, `ImplementsGates` |
| system_live | `MCParkingSystem`, `_live` | `CashExact`, `CamerasAnswered`, `PaymentsBooked` |
| lifecycle_stop | `MCParkingLifecycle`, `_stop` | `TypeOK`, `StopReleasesAll`, `ServesOwnObjects`, `RestartAgrees` |
| delivery_queues | `MCDelivery`, `_queues` | `TypeOK`, `LongWaitOnlyIfAsked`, `NoPhantomWork`, `OneRidePerOrder`, `DeliveryArrives`, `QueuesDrain` |
| bank_bounded | `MCBank`, `_bounded` | `BalanceBounded`, `ReceivedOnce` |
| labs | `MCLabs`, `_all` | `LabsTypeOK`, and of `Guess`: `SearchSound`, `HalvesInterval`, `SearchEnds`; `Marquee`: `OnlyLettersShown`, `LettersInOrder`, `MarqueeDrains`; `Train`: `OwnTrackOnly`, `TrainsCollected`; `Drivers`: `AllOrNothing`; `Menu`: `DarkWhenIdle`, `CustomerTold`; `Shop`: `BillIsBasket` |
| permits | `MCParkingSystem`, `_permits` | violation of `PermitsReleased` |
| led | `MCParkingSystem`, `_led` | violation of `LedShowsOccupancy` |
| unpaid | `MCParkingSystem`, `_unpaid` | violation of `NoExitBeforePayment` |
| delivery_lost | `MCDelivery`, `_lost` | violation of `NoBookingLost` |
| bank_lost | `MCBank`, `_lost` | violation of `BalanceExact` |

The six programs of `labs` share nothing.  A behaviour of `LabsSpec` runs one of
them, chosen in the initial state, so the run checks each of them alone: its
state space is the sum of theirs (about 100,000 states), not the product.

The five violations are disagreements between the code and a statement of its
README or of a message:

* **permits** (README:98): a customer who disconnects makes the child die on
  SIGPIPE inside `sem_counting`; the pay station is gone.
* **led** (README:92): the LED is written after the mutex is released; two
  children write in the wrong order and an occupied slot is shown free.
* **unpaid** (server.c:238): `payment()` sets `pay_t` before it asks for money;
  an exit that comes in between lets the car out.
* **delivery_lost** (README:69): two confirms at the same time, one booking.
* **bank_lost** (README:45): two updates at the same time, one is lost.

### Bounds

* `Procs` (2): the children that run at the same time.  Every hazard listed for
  the server is a race of two children; a third only waits.  Slots of finished
  children are used again, so the number of requests is not bounded.
* Slots (1 or 2 of one row, where the code has 8 and 8): one slot makes every
  race meet, two tell the nearest slot from the other and the first from the
  last.  The classes differ only in the row they use: `server_safety` has
  the fuel row and two fuel cars, the composed system the electric row.  An
  entry meets a full lot because two entries of one plate can both pass the scan.
* `MaxTime`, `Grace`, `Period`: times that distinguish "never", "within the grace
  period" and "too late", and the first period.
* `CashWidth` stands for 2^32: 2 in `system_live` lets the sums of the fees wrap.
  It is 1 in the passing runs that ask nothing of `*cash`.
* `MaxPayers` (1): PAY threads of one plate that have not connected yet.
* `MaxId` (12): kernel objects created in a behaviour, two complete starts.
* `Delivery`: distances 1 and 2 against a threshold of 3, for 3, 5, 8 against 30,
  so that two bookings make the third client be asked; one dish per order, and
  no negative quantity.
* `Bank`: three clients with amounts 1, -2 and 4, for the four clients of
  `demo.sh`: every sum of a subset is different.  A message is received whole.
* `Guess`: `MaxNumber` 7, three halvings, so that an answer to the wrong guess can
  be applied and corrected; `MaxStarts` 2, a restart that finds an old record.
* `Marquee`: a buffer of 4, 4 letters of 2 kinds: a reset in the middle, a letter
  after it, and repetitions that can be told from the order.
* `Train`: 3 connections, two that end behind one signal and one during the
  handler.  `Drivers`: all three, with all their pins.
* `Menu`: 2 terminals, 1 and 3 kilometres, so that the LEDs overlap partly;
  `MaxOrders` 2 per terminal.
* `Shop`: 3 orders per client and the numbers -1, 0 and 2; any number of clients.

`server_safety`, `bank_bounded`, `bank_lost` and `labs` do not check for deadlock.
The server stops for good once children have died with the mutex and the
permits (that is what `permitsLost` and `mutexLost` are about); the bank is done
when its clients are; the game is over when the number is found, a driver that
has oopsed is never unloaded, and a train server whose `fork()` failed has
exited.  All the other passing runs check it.

### Fairness

`FairSysSpec` is weakly fair to each child and each camera: they are processes
of one kernel, and each of them can run when it can take a step.  It is strongly
fair to each `P()`: System V semaphores are handed to their waiters in order of
arrival, so nobody is overtaken for ever.  Nothing is assumed of the cars, of
the PAY threads and of the customers, who may let a pay station wait for ever.
`FairSpec` of `Delivery` is weakly fair to the counter and to each thread, and
assumes nothing of the clients.

`GuessFairness`: the interval timer goes on firing, signals are delivered and both
processes are scheduled; nobody has to start or stop them.  `MarqueeFairness`: a
write that was begun ends, and `reader.c` is a loop that goes on; nobody has to
write.  `TrainFairness`: the server's steps after an `accept` and its handler are
scheduled, and every `sl` ends; no client has to connect.  `MenuFairness`: the
loops of the driver end and `hw1.c` goes on polling; no customer has to order.
Weak fairness is enough for the poll because `MaxOrders` bounds the deliveries:
in the program, other terminals that order for ever could take the flag back
each time before it is read, and only strong fairness of the poll would exclude
that.

## 4. Proofs

| module | theorems | the inductive invariant |
|---|---|---|
| `ParkingServer_proofs` | `Invariance` (`IInv`), `TypeCorrect`, `MutualExclusion` (`MutexExact`), `PermitsConserved` (`PermitsExact`), `TablesMatch` (`SlotsAgree`), `CountersExact` (`SpaceLeftExact`), `NearestSlot` (`GuidedToNearest`), `Refinement` (`ImplementsLot`), `TillExact` (`CashExact`), `PermitsReturn`, `LedsRightInTurn` | `IInv`, `TillOK`, `LedOK` |
| `ParkingSystem_proofs` | `SystemInvariance` (`SInv`), `SystemServes` (`SysSpec => Spec`), `SystemNoDuplicate` (`NoDuplicatePlate`), `SystemNoStray` (`NoStrayIndex`), `SystemTold` (`ToldMatchesTable`), `SystemExitClears` (`ExitClearsOwnCar`), `SystemGates` (`ImplementsGates`), `SystemTill` (`CashExact`) | `SInv` |
| `ParkingLifecycle_proofs` | `LifecycleTypeCorrect`, `LifecycleReleasesAll` (`StopReleasesAll`), `LifecycleServesOwn` (`ServesOwnObjects`), `LifecycleRestartAgrees` (`RestartAgrees`) | `LInv` |
| `Delivery_proofs` | `DeliveryTypeCorrect`, `DeliveryLongWait` (`LongWaitOnlyIfAsked`), `DeliveryOneRide` (`OneRidePerOrder`), `DeliveryNoPhantomWork` (`NoPhantomWork`), `DeliveryKeepsBookings` | `DInv`, `WorkOK`, `Kept` |
| `Bank_proofs` | `BankTypeCorrect`, `BankReceivesOnce` (`ReceivedOnce`), `BankBounded` (`BalanceBounded`), `BankExactWithoutOverlap` | `BInv`, `Funded`, `Balanced` |
| `Marquee_proofs` | `MarqueeTypeCorrect`, `MarqueeShowsLetters` (`OnlyLettersShown`), `MarqueeKeepsOrder` (`LettersInOrder`) | `MInv`, `InOrder` |
| `Labs_proofs` | `GuessTypeCorrect`, `SearchSoundness` (`SearchSound`), `SearchHalves` (`HalvesInterval`), `TrainOwnTrack` (`OwnTrackOnly`), `DriversAllOrNothing` (`AllOrNothing`), `MenuDarkWhenIdle` (`DarkWhenIdle`), `ShopBill` (`BillIsBasket`), `LabsPrograms`, `LabsTypeCorrect` (`LabsTypeOK`) | `GInv`, `TrInv`, `DrInv`, `MnInv`, `ShInv` |
| `Sums` | the lemmas about `SumFunctionOnSet` | |

They hold for every number of children, slots, pay stations, cameras, clients,
terminals and connections, every set of plates, and every value of the bounds.
The assumptions are the `ASSUME`s of the modules: `PlatesAssumption` (the two
kinds of plates are disjoint and none is the empty string), `SizeAssumption`
(finitely many children, at least one pay station), `TimeAssumption` (the clock
starts after the epoch by more than the grace period, so that `pay_t = -1` is
always too long ago), `ClientAssumption` (at most the four cameras of the lot),
`MarqueeAssumption` (no more letters than cells: the code has no check), and in
the other modules that constants are numbers or sets of the right kind.

**The server.**  None of the properties is inductive.  `IInv` adds to `TypeOK` and
`PermitsExact`:

* `PosInRange`: where a child uses its position, the position is a slot, of the
  row of its car when it parks one;
* `MutexOwned`: at most one child is inside `sem_mutex`, and the semaphore is 1
  exactly when none is and none has died there;
* `TablesAgree`: `car[]` and `park_space[]` differ only at the slot the owner of
  the mutex works on, and the slot it is about to take is still the nearest;
* `SpaceCounted`: `space_left[]` is exact up to the slot that is just being
  freed, and a slot an exit may still act on is either taken or has `elec = -1`.
  This is what makes double exits harmless to the counters: the second exit
  finds -1 and counts nothing.

There is one lemma per handler for the type invariant (`EntryType`, `ExitType`,
`PayType`) and one per part of `IInv` for a step of a child (`StepPos`,
`StepMutex`, `StepTables`, `StepPermits`, `StepSpace`); `NextInv` joins them.
`Refinement` maps `lot` to `licence_plate`: the `strcpy` of `entry()` is `Park`,
that of `exitpark()` is `Leave` or a stutter.

**The till.**  `CashExact` says that the cash and the fees received and not booked
yet add up to what was received, modulo the width of the int.  What makes it
inductive is `TillOK`: the child about to store has the current `*cash` in its
register.  It stays so because `IInv` lets one child only be inside `sem_mutex`,
and `*cash` is written nowhere else.  `AddToRemainder` and the lemmas before it
are the arithmetic of `%`.

**The system.**  Every step of the system is a step of the server or leaves it
alone (`SystemStep`), so `IInv` holds in it and need not be proved again.  `SInv`
adds that a child of an entry or an exit works for one camera and that camera
for one car (`Paired`), that such a child is always waited for and has no reply
before it is done with the table (`Watched`), and `Deals`: at each place of the
child, what the table holds of its car.  The step that carries the proof is
`TableElse`: a child changes the table only for its own car, because the slot an
exit clears still holds the plate it scanned for.  So a step of one child leaves
the deals of all others as they are, and its own is kept statement by statement
(`EntryDeal`, `ExitDeal`).  With arbitrary clients all of this is false: two
entries of one plate park it twice.

`SystemGates` is the refinement of `ParkingGates`, with `lot` mapped to
`licence_plate`.  The two `strcpy` are `Reserve` and `Vacate` (`TableGates`), since
the deal of the child that runs them says where its car is; the replies that
move a barrier are `LetIn` and `LetOut` (`ReceiveGates`), since what is told
agrees with the table (`ToldNow`); every other step is a stutter.

**Start and stop.**  `LInv` says how far each handler has come: after a clean stop
(`CleanStopOK`) every object that is left has a handler on its way to it, and no
segment before it is missing, which would end that handler early.  `CountsOK`
orders the two tables: `car[]` is removed before `park_space[]`.

**The others.**  `DInv`: a thread that has a courier in mind was offered it.  `BInv`:
"exit" is the last message on a connection, so threads that share a socket find
nothing to drop.  `GInv`: while the search is not misled, an answer that is on its
way is the answer to the guess in the record.  `MInv`: every cell up to the one
`my_write()` is about to count holds a letter, wherever a reset has put the
counters meanwhile.  `TrInv`: the connection `main()` works on has no train before
the fork.  `DrInv`: a driver is at its pins only with the class.  `MnInv`: a digit
that is shown belongs to a terminal that has still to close.  `ShInv`: the counters
are those of the shop of the order.

**Sums.**  `CashExact`, `NoPhantomWork` and `BalanceBounded` are about sums over all
children, clients or threads, of any number.  The library's induction
theorems cannot be used with these provers, because they take an operator as
a parameter.  `Sums` puts sets in its place: `SetOfNaturals` and `SetOfSets` follow
from the well-foundedness of `<` and of strict inclusion, and from them that the
recursion behind `SumFunctionOnSet` has the value it should (`SumPick`), in
whatever order the elements are taken (`SumRemove`).  The other modules only cite
what follows: a change at one index (`SumChange`), a new index (`SumAdd`),
monotonicity.

* `Funded` (bank): the balance with all deposits that have been received and not
  loaded yet is at most what was deposited, and so is the register of every
  thread with its own deposit and those; the same below for withdrawals.
  A lost update only moves the balance inside these bounds.
* `WorkOK` (delivery): what a thread has read of a queue is at most the work booked
  on it then, which only grows, plus its own ride.
* `InOrder` (marquee): the cells between the two counters hold, in order, what was
  written and not shown.

**What exactly goes wrong.**  Four of the five violations have a theorem that
excludes their cause and nothing else, and proves the statement of the README
for all the other behaviours:

| run | theorem | excludes |
|---|---|---|
| permits | `PermitsReturn` | `Hangups`: customers who disconnect while the fee is awaited |
| led | `LedsRightInTurn` | a slot that is taken or freed while a LED write for it is due (`LedsInTurn`) |
| delivery_lost | `DeliveryKeepsBookings` | a booking while another thread is between its read and its choice (`BooksAlone`) |
| bank_lost | `BankExactWithoutOverlap` | two threads between load and store (`NoOverlap`) |

So moving the LED write into the critical section, one semaphore around the reads
and the booking of a courier, and the mutex that is commented out in LAB6 would each be enough.
`unpaid` has none: `received` is a sum modulo the width of the int, which says that
nobody has paid only until it wraps.

**The small programs together.**  `LabsPrograms`: a behaviour of the specification
the run `labs` checks is one of each of its programs, so their theorems hold in
it, and `LabsTypeOK` is the conjunction of their type invariants.

**Only model-checked.**  The liveness properties `CamerasAnswered`,
`PaymentsBooked`, `DeliveryArrives`, `QueuesDrain`, `SearchEnds`, `MarqueeDrains`,
`TrainsCollected` and `CustomerTold`: they need fairness, and so `ENABLED`, which the
prover does not handle.  Every other property of a passing run is the statement of
a theorem.

## 5. Not modelled

* `server.c`: `P()` and `V()` failing after SIGINT has removed the semaphores
  (`ParkingLifecycle` takes a request as one step), `fork()` failing, a client
  that connects and sends nothing.
* `client.py`: a PAY thread after "Cannot find your car" (it loops on a closed
  connection), image recognition.
* Drivers: `gpio_is_valid()` failing (it does so for no pin of a board that has
  them all), and the four binary digits that LAB3-1's `etx_write()` shows, which
  is sequential and keeps no state.
* HW1: the sums of a bill and the digits of the price.  HW2: the text of the
  replies, messages without a blank (undefined behaviour), overflow of a price.
* HW3 and LAB6: start and SIGINT, `recv()` failing, the size of `thread_id[]`.
* LAB4: what lies behind `temp[]`, module init, `seg.py` and the connection to it.

## 6. Where it can go on

1. `ParkingServer` and `ParkingLifecycle` together: children that go on after
   `P()` has failed.
2. The loop of a PAY thread, and a property over the plate a fee was computed
   for, which `payment()` does not keep (server.c:333).
3. Negative orders in `Delivery`, and its removal of semaphores by SIGINT.
4. Proofs: what `payment()` keeps of the slot it found (with 2.), and a queue
   without counters that the marquee implements while no reset meets a write.
