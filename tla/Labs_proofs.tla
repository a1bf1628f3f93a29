------------------------------ MODULE Labs_proofs ------------------------------
(***************************************************************************)
(* Proofs about the six smaller programs, one part each: the guessing      *)
(* game, the train server, the delivery menu, the delivery server for one  *)
(* client and the LED drivers; the marquee's are in Marquee_proofs.  The   *)
(* last part is about MCLabs, which puts them side by side: each program   *)
(* runs in it as it does alone, so what is proved of it holds there.       *)
(***************************************************************************)
EXTENDS MCLabs, Marquee_proofs

-----------------------------------------------------------------------------
(* Guess.                                                                  *)

\* The middle of an interval lies in it.
LEMMA Middle ==
    ASSUME NEW l \in Int, NEW u \in Int
    PROVE  /\ (u + l) \div 2 \in Int
           /\ 2 * ((u + l) \div 2) <= u + l
           /\ u + l <= 2 * ((u + l) \div 2) + 1
  OBVIOUS

\* guess_handler() never guesses a number outside the game.
LEMMA MiddleInRange ==
    ASSUME NEW n \in Nat, NEW u \in -1 .. n, NEW l \in 1 .. n + 1
    PROVE  (u + l) \div 2 \in 0 .. n
<1>1. u \in Int /\ l \in Int /\ 0 <= u + l /\ u + l <= 2 * n + 1
  OBVIOUS
<1> DEFINE m == (u + l) \div 2
<1>2. m \in Int /\ 2 * m <= u + l /\ u + l <= 2 * m + 1
  BY <1>1, Middle
<1> HIDE DEF m
<1>3. m \in 0 .. n
  BY <1>1, <1>2
<1>4. QED
  BY <1>3 DEF m

-----------------------------------------------------------------------------
(* Types.  The bounds move towards the guess, which lies between them or   *)
(* just outside once they have crossed.                                    *)

Middling ==
    guessing \in {"write", "signal"} \/ (guessing = "wait" /\ guess # 0)
        => guess = (upper_bound + lower_bound) \div 2

GuessTypeInv == GuessTypeOK /\ Middling

\* What is known of the answer while the search was never misled.
Informed ==
    /\ game # "off" => ans \in 1 .. MaxNumber
    /\ game = "off" => /\ guessing = "off" /\ sigusr1 = FALSE /\ verdict = "none"
                       /\ result = "none"
    /\ misled = FALSE =>
        /\ guessing \in {"write", "signal"} =>
               sigusr1 = FALSE /\ verdict = "none" /\ result # "bingo"
        /\ guessing \in {"wait", "write", "signal"} => ans \in lower_bound .. upper_bound
        /\ guessing = "signal" => shm_guess = guess
        /\ guessing = "wait" /\ guess = 0 => lower_bound = 1
        /\ guessing = "wait" /\ guess # 0 =>
               /\ shm_guess = guess
               /\ Unanswered \/ result = Verdict(guess)
        /\ guessing = "found" => result = "bingo"
        /\ verdict # "none" => verdict = Verdict(shm_guess)
        /\ result = "bingo" => shm_guess = ans

GInv == GuessTypeInv /\ Informed

\* At the start nothing is known and nothing is asked.
LEMMA GuessInitInv == GuessInit => GInv
<1> USE GuessAssumption
<1> SUFFICES ASSUME GuessInit PROVE GInv
  OBVIOUS
<1>1. GuessTypeInv
  <2>1. sigusr1 \in BOOLEAN /\ misled \in BOOLEAN
    BY DEF GuessInit
  <2>2. QED
    BY <2>1 DEF GuessInit, GuessTypeInv, GuessTypeOK, Results, Middling
<1>2. Informed
  BY DEF GuessInit, Informed
<1>3. QED
  BY <1>1, <1>2 DEF GInv

\* The bounds that Narrow leaves, and the middle between them.
LEMMA NarrowBounds ==
    ASSUME GuessTypeOK, Narrow
    PROVE  /\ upper_bound' \in -1 .. MaxNumber
           /\ lower_bound' \in 1 .. MaxNumber + 1
           /\ (upper_bound' + lower_bound') \div 2 \in 0 .. MaxNumber
<1> USE GuessAssumption
<1>1. upper_bound' \in -1 .. MaxNumber /\ lower_bound' \in 1 .. MaxNumber + 1
  BY DEF Narrow, GuessTypeOK
<1>2. MaxNumber \in Nat
  OBVIOUS
<1>3. QED
  BY <1>1, <1>2, MiddleInRange

\* Every step keeps the types.
LEMMA GuessTypeStep ==
    ASSUME GuessTypeInv, [GuessNext]_guessVars
    PROVE  GuessTypeInv'
<1> USE GuessAssumption DEF GuessTypeInv
<1>1. QED
  <2>1. ASSUME NEW n \in 1 .. MaxNumber, StartGame(n) PROVE GuessTypeInv'
    BY <2>1 DEF StartGame, shared, bounds, GuessTypeOK, Results, Middling, Verdict
  <2>2. CASE StopGame
    BY <2>2 DEF StopGame, gameVars, shared, bounds, GuessTypeOK, Results, Middling, Verdict
  <2>3. CASE Check
    BY <2>3 DEF Check, gameVars, shared, bounds, GuessTypeOK, Results, Middling, Verdict
  <2>4. CASE Answer
    BY <2>4 DEF Answer, gameVars, shared, bounds, GuessTypeOK, Results, Middling, Verdict
  <2>5. CASE StartGuess
    BY <2>5 DEF StartGuess, gameVars, shared, bounds, GuessTypeOK, Results, Middling, Verdict
  <2>6. CASE StopGuess
    BY <2>6 DEF StopGuess, gameVars, shared, bounds, GuessTypeOK, Results, Middling, Verdict
  <2>7. CASE Write
    BY <2>7 DEF Write, gameVars, shared, bounds, GuessTypeOK, Results, Middling, Verdict
  <2>8. CASE Signal
    BY <2>8 DEF Signal, gameVars, shared, bounds, GuessTypeOK, Results, Middling, Verdict
  <2>9. CASE Alarm
    <3>1. CASE result = "bingo"
      BY <2>9, <3>1 DEF Alarm, gameVars, shared, bounds, GuessTypeOK, Results, Middling
    <3>2. CASE result # "bingo"
      <4>1. Narrow /\ guess' = (upper_bound' + lower_bound') \div 2
        BY <2>9, <3>2 DEF Alarm
      <4>2. QED
        BY <2>9, <3>2, <4>1, NarrowBounds
           DEF Alarm, gameVars, shared, GuessTypeOK, Results, Middling
    <3>3. QED
      BY <3>1, <3>2
  <2>10. CASE UNCHANGED guessVars
    BY <2>10 DEF guessVars, gameVars, shared, bounds, GuessTypeOK, Results, Middling, Verdict
  <2>11. QED
    BY <2>1, <2>2, <2>3, <2>4, <2>5, <2>6, <2>7, <2>8, <2>9, <2>10 DEF GuessNext

\* Every step keeps what is known of the answer.
LEMMA GuessInformedStep ==
    ASSUME GInv, [GuessNext]_guessVars
    PROVE  Informed'
<1> USE GuessAssumption DEF GInv, GuessTypeInv
<1>1. QED
  <2>1. ASSUME NEW n \in 1 .. MaxNumber, StartGame(n) PROVE Informed'
    BY <2>1 DEF StartGame, shared, bounds, GuessTypeOK, Results, Middling, Informed, Unanswered, Verdict
  <2>2. CASE StopGame
    BY <2>2 DEF StopGame, gameVars, shared, bounds, GuessTypeOK, Results, Middling, Informed, Unanswered, Verdict
  <2>3. CASE Check
    BY <2>3 DEF Check, gameVars, shared, bounds, GuessTypeOK, Results, Middling, Informed, Unanswered, Verdict
  <2>4. CASE Answer
    BY <2>4 DEF Answer, gameVars, shared, bounds, GuessTypeOK, Results, Middling, Informed, Unanswered, Verdict
  <2>5. CASE StartGuess
    BY <2>5 DEF StartGuess, gameVars, shared, bounds, GuessTypeOK, Results, Middling, Informed, Unanswered, Verdict
  <2>6. CASE StopGuess
    BY <2>6 DEF StopGuess, gameVars, shared, bounds, GuessTypeOK, Results, Middling, Informed, Unanswered, Verdict
  <2>7. CASE Write
    BY <2>7 DEF Write, gameVars, shared, bounds, GuessTypeOK, Results, Middling, Informed, Unanswered, Verdict
  <2>8. CASE Signal
    BY <2>8 DEF Signal, gameVars, shared, bounds, GuessTypeOK, Results, Middling, Informed, Unanswered, Verdict
  <2>9. CASE Alarm
    <3>1. CASE result = "bingo"
      BY <2>9, <3>1 DEF Alarm, gameVars, shared, bounds, GuessTypeOK, Informed, Unanswered, Verdict
    <3>2. CASE result # "bingo"
      <4>1. guess' \in 0 .. MaxNumber
        BY <2>9, GuessTypeStep DEF GuessNext, GuessTypeOK
      <4>2. ASSUME misled' = FALSE PROVE ans \in lower_bound' .. upper_bound'
        <5>1. CASE guess = 0
          BY <2>9, <3>2, <4>2, <5>1 DEF Alarm, Narrow, GuessTypeOK, Results, Informed, Unanswered
        <5>2. CASE guess # 0
          BY <2>9, <3>2, <4>2, <5>2 DEF Alarm, Narrow, GuessTypeOK, Informed, Unanswered, Verdict
        <5>3. QED
          BY <5>1, <5>2
      <4>3. QED
        BY <2>9, <3>2, <4>1, <4>2
           DEF Alarm, gameVars, shared, GuessTypeOK, Informed, Unanswered, Verdict
    <3>3. QED
      BY <3>1, <3>2
  <2>10. CASE UNCHANGED guessVars
    BY <2>10 DEF guessVars, gameVars, shared, bounds, GuessTypeOK, Results, Middling, Informed, Unanswered, Verdict
  <2>11. QED
    BY <2>1, <2>2, <2>3, <2>4, <2>5, <2>6, <2>7, <2>8, <2>9, <2>10 DEF GuessNext

\* GInv holds in every reachable state.
LEMMA GuessInductive == GuessSpec => []GInv
<1>1. GuessInit => GInv
  BY GuessInitInv
<1>2. GInv /\ [GuessNext]_guessVars => GInv'
  BY GuessTypeStep, GuessInformedStep DEF GInv
<1>3. QED
  BY <1>1, <1>2, PTL DEF GuessSpec

-----------------------------------------------------------------------------
\* Every variable of the game keeps its type; above all the bounds and the
\* guess stay in range, also when guess.c is misled.
THEOREM GuessTypeCorrect == GuessSpec => []GuessTypeOK
<1>1. GInv => GuessTypeOK
  BY DEF GInv, GuessTypeInv
<1>2. QED
  BY <1>1, GuessInductive, PTL

\* The binary search of guess.c never excludes the answer and ends with it only
\* when it is the answer, for every range of numbers.
THEOREM SearchSoundness == GuessSpec => []SearchSound
<1>1. GInv => SearchSound
  BY DEF GInv, GuessTypeInv, GuessTypeOK, Informed, SearchSound
<1>2. QED
  BY <1>1, GuessInductive, PTL

\* Each answer that is applied at least halves the interval.
THEOREM SearchHalves == GuessSpec => HalvesInterval
<1>1. ASSUME GInv, GuessNext, guessing = "wait", guessing' = "write",
             guess # 0, misled' = FALSE
      PROVE  2 * (upper_bound' - lower_bound' + 1) <= upper_bound - lower_bound + 1
  <2>1. Alarm
    BY <1>1 DEF GuessNext, StartGame, StopGame, Check, Answer, StartGuess,
                StopGuess, Write, Signal, GInv, GuessTypeInv, GuessTypeOK
  <2>2. /\ misled = FALSE /\ ~Unanswered /\ result # "bingo" /\ Narrow
        /\ guess = (upper_bound + lower_bound) \div 2
        /\ result = Verdict(guess)
    BY <1>1, <2>1 DEF Alarm, GInv, GuessTypeInv, Middling, Informed
  <2>3. /\ upper_bound \in Int /\ lower_bound \in Int
        /\ 2 * guess <= upper_bound + lower_bound
        /\ upper_bound + lower_bound <= 2 * guess + 1
        /\ guess \in Int
    BY <1>1, <2>2, Middle DEF GInv, GuessTypeInv, GuessTypeOK
  <2>4. CASE result = "smaller"
    BY <2>2, <2>3, <2>4 DEF Narrow
  <2>5. CASE result = "bigger"
    BY <2>2, <2>3, <2>5 DEF Narrow
  <2>6. QED
    BY <2>2, <2>4, <2>5 DEF Verdict
<1>2. QED
  BY <1>1, GuessInductive, PTL DEF GuessSpec, HalvesInterval

-----------------------------------------------------------------------------
(* Train.  A connection that main() works on is held by the server, and    *)
(* belongs to no train until it has forked.                                *)

TrainOK ==
    /\ main \in {"fork", "close"} =>
           client_socket \in Trains /\ Server \in holders[client_socket]
    /\ main = "fork" => proc[client_socket] = "none"

TrInv == TrainTypeOK /\ OwnTrackOnly /\ TrainOK

\* At the start there is no connection.
LEMMA TrainInitInv == TrainInit => TrInv
BY TrainAssumption DEF TrainInit, TrInv, TrainTypeOK, OwnTrackOnly, TrainOK, Server, NoTrain

\* Every step of the train server keeps the types,
LEMMA TrainTypeStep ==
    ASSUME TrInv, [TrainNext]_trainVars
    PROVE  TrainTypeOK'
<1> USE DEF TrInv, TrainTypeOK, At
<1>1. CASE Listen
  BY <1>1 DEF Listen
<1>2. ASSUME NEW c \in Trains, Accept(c) PROVE TrainTypeOK'
  BY <1>2 DEF Accept
<1>3. CASE Fork
  BY <1>3 DEF Fork, TrainOK
<1>4. CASE ForkFails
  BY <1>4 DEF ForkFails
<1>5. CASE CloseClient
  BY <1>5 DEF CloseClient
<1>6. CASE Sigint
  BY <1>6 DEF Sigint
<1>7. ASSUME NEW c \in Trains, Exec(c) PROVE TrainTypeOK'
  BY <1>7 DEF Exec
<1>8. ASSUME NEW c \in Trains, Ends(c) PROVE TrainTypeOK'
  BY <1>8 DEF Ends
<1>9. CASE Deliver
  BY <1>9 DEF Deliver
<1>10. CASE WaitPid
  BY <1>10 DEF WaitPid
<1>11. CASE UNCHANGED trainVars
  BY <1>11 DEF trainVars
<1>12. QED
  BY <1>1, <1>2, <1>3, <1>4, <1>5, <1>6, <1>7, <1>8, <1>9, <1>10, <1>11 DEF TrainNext

\* and leaves every connection to its own train.
LEMMA TrainStep ==
    ASSUME TrInv, [TrainNext]_trainVars
    PROVE  OwnTrackOnly' /\ TrainOK'
<1> USE TrainAssumption DEF TrInv, TrainTypeOK, OwnTrackOnly, TrainOK, At
<1>1. CASE Listen
  BY <1>1 DEF Listen
<1>2. ASSUME NEW c \in Trains, Accept(c) PROVE OwnTrackOnly' /\ TrainOK'
  BY <1>2 DEF Accept
<1>3. CASE Fork
  BY <1>3 DEF Fork
<1>4. CASE ForkFails
  BY <1>4 DEF ForkFails
<1>5. CASE CloseClient
  BY <1>5 DEF CloseClient
<1>6. CASE Sigint
  BY <1>6 DEF Sigint
<1>7. ASSUME NEW c \in Trains, Exec(c) PROVE OwnTrackOnly' /\ TrainOK'
  BY <1>7 DEF Exec
<1>8. ASSUME NEW c \in Trains, Ends(c) PROVE OwnTrackOnly' /\ TrainOK'
  BY <1>8 DEF Ends
<1>9. CASE Deliver
  BY <1>9 DEF Deliver
<1>10. CASE WaitPid
  <2>1. ASSUME NEW c \in Trains, proc[c] = "zombie",
               proc' = [proc EXCEPT ![c] = "reaped"]
        PROVE  OwnTrackOnly' /\ TrainOK'
    <3>1. UNCHANGED <<main, client_socket, holders>>
      BY <1>10 DEF WaitPid
    <3>2. ASSUME NEW d \in Trains
          PROVE  /\ d \in holders[d] <=> proc'[d] \in {"forked", "runs"}
                 /\ proc[d] = "none" => proc'[d] = "none"
      <4>1. CASE d = c
        BY <2>1, <4>1
      <4>2. CASE d # c
        BY <2>1, <4>2
      <4>3. QED
        BY <4>1, <4>2
    <3>3. /\ main' = main /\ client_socket' = client_socket /\ holders' = holders
      BY <3>1
    <3>4. OwnTrackOnly'
      BY <3>2, <3>3
    <3>5. TrainOK'
      BY <3>2, <3>3
    <3>6. QED
      BY <3>4, <3>5
  <2>2. CASE UNCHANGED proc
    BY <1>10, <2>2 DEF WaitPid
  <2>3. QED
    BY <1>10, <2>1, <2>2 DEF WaitPid
<1>11. CASE UNCHANGED trainVars
  BY <1>11 DEF trainVars
<1>12. QED
  BY <1>1, <1>2, <1>3, <1>4, <1>5, <1>6, <1>7, <1>8, <1>9, <1>10, <1>11 DEF TrainNext

\* TrInv holds in every reachable state.
LEMMA TrainInductive == TrainSpec => []TrInv
<1>1. TrainInit => TrInv
  BY TrainInitInv
<1>2. TrInv /\ [TrainNext]_trainVars => TrInv'
  BY TrainTypeStep, TrainStep DEF TrInv
<1>3. QED
  BY <1>1, <1>2, PTL DEF TrainSpec

\* No train holds the connection of another client open, and the server holds
\* one only until it has forked, for any number of connections.
THEOREM TrainOwnTrack == TrainSpec => []OwnTrackOnly
<1>1. TrInv => OwnTrackOnly
  BY DEF TrInv
<1>2. QED
  BY <1>1, TrainInductive, PTL

-----------------------------------------------------------------------------
(* Menu.  A digit that is shown will be put out by the release of a        *)
(* terminal that has written.                                              *)

DigitsOwned ==
    display = TRUE =>
        \E t \in Terminals : menu[t] \in {"digits", "poll", "meal", "close"}

MnInv == MenuTypeOK /\ DarkWhenIdle /\ DigitsOwned

\* At the start the board is dark.
LEMMA MenuInitInv == MenuInit => MnInv
<1> SUFFICES ASSUME MenuInit PROVE MnInv
  OBVIOUS
<1>1. display \in BOOLEAN
  BY DEF MenuInit
<1>2. QED
  BY <1>1, MenuAssumption DEF MenuInit, MnInv, MenuTypeOK, DarkWhenIdle, DigitsOwned

\* Every step of the menu keeps the types,
LEMMA MenuTypeStep ==
    ASSUME MnInv, [MenuNext]_menuVars
    PROVE  MenuTypeOK'
<1> USE MenuAssumption DEF MnInv, MenuTypeOK, Step, board
<1>1. ASSUME NEW t \in Terminals, OpenOrder(t) PROVE MenuTypeOK'
  BY <1>1 DEF OpenOrder
<1>2. ASSUME NEW t \in Terminals, NoOrder(t) PROVE MenuTypeOK'
  BY <1>2 DEF NoOrder
<1>3. ASSUME NEW t \in Terminals, NEW n \in Kilometres, ConfirmOrder(t, n)
      PROVE  MenuTypeOK'
  BY <1>3 DEF ConfirmOrder
<1>4. ASSUME NEW t \in Terminals, Arrived(t) PROVE MenuTypeOK'
  BY <1>4 DEF Arrived
<1>5. ASSUME NEW t \in Terminals, PickUp(t) PROVE MenuTypeOK'
  BY <1>5 DEF PickUp
<1>6. ASSUME NEW t \in Terminals, Interrupt(t) PROVE MenuTypeOK'
  BY <1>6 DEF Interrupt
<1>7. ASSUME NEW t \in Terminals, LedsOn(t) PROVE MenuTypeOK'
  <2>1. 0 .. km[t] - 1 \subseteq Nat /\ km[t] \in Nat
    OBVIOUS
  <2>2. leds' \subseteq Nat
    BY <1>7, <2>1 DEF LedsOn
  <2>3. QED
    BY <1>7, <2>1, <2>2 DEF LedsOn
<1>8. ASSUME NEW t \in Terminals, LedOff(t) PROVE MenuTypeOK'
  <2>1. left[t] - 1 \in Nat
    BY <1>8 DEF LedOff
  <2>2. left' \in [Terminals -> Nat]
    BY <1>8, <2>1 DEF LedOff
  <2>3. leds' \subseteq Nat
    BY <1>8 DEF LedOff
  <2>4. QED
    BY <1>8, <2>2, <2>3 DEF LedOff
<1>9. ASSUME NEW t \in Terminals, NEW on \in BOOLEAN, Digits(t, on) PROVE MenuTypeOK'
  BY <1>9 DEF Digits
<1>10. ASSUME NEW t \in Terminals, WriteReturns(t) PROVE MenuTypeOK'
  BY <1>10 DEF WriteReturns
<1>11. ASSUME NEW t \in Terminals, CloseOrder(t) PROVE MenuTypeOK'
  <2>1. display' \in BOOLEAN
    BY <1>11 DEF CloseOrder
  <2>2. QED
    BY <1>11, <2>1 DEF CloseOrder
<1>12. CASE UNCHANGED menuVars
  BY <1>12 DEF menuVars
<1>13. QED
  BY <1>1, <1>2, <1>3, <1>4, <1>5, <1>6, <1>7, <1>8, <1>9, <1>10, <1>11, <1>12
     DEF MenuNext

\* and leaves somebody to put out what is lit.
LEMMA MenuStep ==
    ASSUME MnInv, [MenuNext]_menuVars
    PROVE  DarkWhenIdle' /\ DigitsOwned'
<1> USE MenuAssumption DEF MnInv, MenuTypeOK, DarkWhenIdle, DigitsOwned, Step, board
<1>1. ASSUME NEW t \in Terminals, OpenOrder(t) PROVE DarkWhenIdle' /\ DigitsOwned'
  BY <1>1 DEF OpenOrder
<1>2. ASSUME NEW t \in Terminals, NoOrder(t) PROVE DarkWhenIdle' /\ DigitsOwned'
  BY <1>2 DEF NoOrder
<1>3. ASSUME NEW t \in Terminals, NEW n \in Kilometres, ConfirmOrder(t, n)
      PROVE  DarkWhenIdle' /\ DigitsOwned'
  BY <1>3 DEF ConfirmOrder
<1>4. ASSUME NEW t \in Terminals, Arrived(t) PROVE DarkWhenIdle' /\ DigitsOwned'
  BY <1>4 DEF Arrived
<1>5. ASSUME NEW t \in Terminals, PickUp(t) PROVE DarkWhenIdle' /\ DigitsOwned'
  BY <1>5 DEF PickUp
<1>6. ASSUME NEW t \in Terminals, Interrupt(t) PROVE DarkWhenIdle' /\ DigitsOwned'
  BY <1>6 DEF Interrupt
<1>7. ASSUME NEW t \in Terminals, LedsOn(t) PROVE DarkWhenIdle' /\ DigitsOwned'
  BY <1>7 DEF LedsOn
<1>8. ASSUME NEW t \in Terminals, LedOff(t) PROVE DarkWhenIdle' /\ DigitsOwned'
  BY <1>8 DEF LedOff
<1>9. ASSUME NEW t \in Terminals, NEW on \in BOOLEAN, Digits(t, on)
      PROVE  DarkWhenIdle' /\ DigitsOwned'
  BY <1>9 DEF Digits
<1>10. ASSUME NEW t \in Terminals, WriteReturns(t) PROVE DarkWhenIdle' /\ DigitsOwned'
  BY <1>10 DEF WriteReturns
<1>11. ASSUME NEW t \in Terminals, CloseOrder(t) PROVE DarkWhenIdle' /\ DigitsOwned'
  BY <1>11 DEF CloseOrder
<1>12. CASE UNCHANGED menuVars
  BY <1>12 DEF menuVars
<1>13. QED
  BY <1>1, <1>2, <1>3, <1>4, <1>5, <1>6, <1>7, <1>8, <1>9, <1>10, <1>11, <1>12
     DEF MenuNext

\* MnInv holds in every reachable state.
LEMMA MenuInductive == MenuSpec => []MnInv
<1>1. MenuInit => MnInv
  BY MenuInitInv
<1>2. MnInv /\ [MenuNext]_menuVars => MnInv'
  BY MenuTypeStep, MenuStep DEF MnInv
<1>3. QED
  BY <1>1, <1>2, PTL DEF MenuSpec

\* A LED of /dev/order that is on is one that some write has still to put out,
\* and nothing is shown when every terminal has closed the device, for any
\* number of terminals and every interleaving of their writes.
THEOREM MenuDarkWhenIdle == MenuSpec => []DarkWhenIdle
<1>1. MnInv => DarkWhenIdle
  BY DEF MnInv
<1>2. QED
  BY <1>1, MenuInductive, PTL

-----------------------------------------------------------------------------
(* Shop.  The counters of the order are those of the shop of the order.    *)

CountsOrder ==
    /\ flag = 0 => order_num[0] = 0 /\ order_num[1] = 0 /\ price = 0
    /\ flag # 0 => \A i \in {0, 1} : order_num[i] = basket[<<flag, i>>]

ShInv == ShopTypeOK /\ BillIsBasket /\ CountsOrder

\* Every dish of the list has a price.
LEMMA CostType == Cost \in [Dishes -> Nat]
BY DEF Cost, Dishes, Shops

\* At the start there is no order.
LEMMA ShopInitInv == ShopInit => ShInv
<1> SUFFICES ASSUME ShopInit PROVE ShInv
  OBVIOUS
<1>1. long_word \in BOOLEAN
  BY DEF ShopInit
<1>2. basket \in [Dishes -> Int] /\ \A d \in Dishes : basket[d] = 0
  BY DEF ShopInit, NoDish
<1>3. order_num \in [{0, 1} -> Int]
  BY DEF ShopInit
<1>4. ShopTypeOK
  BY <1>1, <1>2, <1>3, ShopAssumption DEF ShopInit, ShopTypeOK
<1>5. BillIsBasket /\ CountsOrder
  BY <1>2 DEF ShopInit, BillIsBasket, CountsOrder, Dishes, Shops
<1>6. QED
  BY <1>4, <1>5 DEF ShInv

\* One more dish: the bill of the counters is the bill of the basket.
LEMMA OrderStep ==
    ASSUME ShInv, NEW d \in Dishes, NEW n \in Numbers, OrderDish(d, n)
    PROVE  ShInv'
<1> USE ShopAssumption DEF ShInv
<1>1. PICK s \in Shops, i \in {0, 1} : d = <<s, i>>
  BY DEF Dishes
<1>2. /\ flag \in {0, s} /\ flag' = s /\ s # 0 /\ n \in Int
      /\ order_num' = [order_num EXCEPT ![i] = @ + n]
      /\ basket' = [basket EXCEPT ![<<s, i>>] = @ + n]
      /\ price' = Cost[<<s, 0>>] * order_num'[0] + Cost[<<s, 1>>] * order_num'[1]
  BY <1>1 DEF OrderDish, Shops
<1>3. order_num' \in [{0, 1} -> Int] /\ basket' \in [Dishes -> Int]
  BY <1>1, <1>2 DEF ShopTypeOK
<1>4. \A k \in {0, 1} : order_num[k] = basket[<<s, k>>]
  BY <1>2 DEF BillIsBasket, CountsOrder
<1>5. \A k \in {0, 1} : order_num'[k] = basket'[<<s, k>>]
  BY <1>1, <1>2, <1>4 DEF ShopTypeOK, Dishes
<1>6. \A r \in Shops \ {s} : basket'[<<r, 0>>] = 0 /\ basket'[<<r, 1>>] = 0
  <2>1. \A r \in Shops \ {s} : basket[<<r, 0>>] = 0 /\ basket[<<r, 1>>] = 0
    BY <1>2 DEF BillIsBasket, Shops
  <2>2. \A r \in Shops \ {s}, k \in {0, 1} : basket'[<<r, k>>] = basket[<<r, k>>]
    BY <1>1, <1>2 DEF ShopTypeOK, Dishes
  <2>3. QED
    BY <2>1, <2>2
<1>7. price' \in Int
  <2>1. Cost[<<s, 0>>] \in Nat /\ Cost[<<s, 1>>] \in Nat
    BY CostType DEF Dishes
  <2>2. order_num'[0] \in Int /\ order_num'[1] \in Int
    BY <1>3
  <2>3. QED
    BY <1>2, <2>1, <2>2
<1>8. ShopTypeOK'
  BY <1>2, <1>3, <1>7 DEF ShopTypeOK, OrderDish
<1>9. BillIsBasket'
  BY <1>2, <1>5, <1>6 DEF BillIsBasket
<1>10. CountsOrder'
  BY <1>2, <1>5 DEF CountsOrder
<1>11. QED
  BY <1>8, <1>9, <1>10

\* Every message keeps the bill that of the basket.
LEMMA ShopStep ==
    ASSUME ShInv, [ShopNext]_shopVars
    PROVE  ShInv'
<1> USE DEF ShInv, ShopTypeOK, BillIsBasket, CountsOrder
<1>1. CASE AcceptClient
  <2>1. basket' \in [Dishes -> Int] /\ \A d \in Dishes : basket'[d] = 0
    BY <1>1 DEF AcceptClient, NoDish
  <2>2. order_num' \in [{0, 1} -> Int] /\ order_num'[0] = 0 /\ order_num'[1] = 0
    BY <1>1 DEF AcceptClient
  <2>3. ShopTypeOK'
    BY <1>1, <2>1, <2>2, ShopAssumption DEF AcceptClient
  <2>4. BillIsBasket' /\ CountsOrder'
    BY <1>1, <2>1, <2>2 DEF AcceptClient, Dishes, Shops
  <2>5. QED
    BY <2>3, <2>4
<1>2. CASE LongWord
  <2>1. long_word' \in BOOLEAN
    BY <1>2 DEF LongWord
  <2>2. QED
    BY <1>2, <2>1 DEF LongWord
<1>3. CASE ConfirmBill
  BY <1>3 DEF ConfirmBill
<1>4. CASE Part
  BY <1>4 DEF Part
<1>5. ASSUME NEW d \in Dishes, NEW n \in Numbers, OrderDish(d, n) PROVE ShInv'
  BY <1>5, OrderStep
<1>6. CASE UNCHANGED shopVars
  BY <1>6 DEF shopVars
<1>7. QED
  BY <1>1, <1>2, <1>3, <1>4, <1>5, <1>6 DEF ShopNext

\* ShInv holds in every reachable state.
LEMMA ShopInductive == ShopSpec => []ShInv
<1>1. ShopInit => ShInv
  BY ShopInitInv
<1>2. ShInv /\ [ShopNext]_shopVars => ShInv'
  BY ShopStep
<1>3. QED
  BY <1>1, <1>2, PTL DEF ShopSpec

\* Every client of hw2.c pays for its own dishes and for nothing else, for
\* every sequence of clients and orders, negative numbers included.
THEOREM ShopBill == ShopSpec => []BillIsBasket
<1>1. ShInv => BillIsBasket
  BY DEF ShInv
<1>2. QED
  BY <1>1, ShopInductive, PTL

-----------------------------------------------------------------------------
(* Drivers.                                                                *)

\* What is used of the lists of pins.
LEMMA PinLists ==
    ASSUME NEW d \in Drivers
    PROVE  /\ Len(PinList[d]) \in Nat /\ DOMAIN PinList[d] = 1 .. Len(PinList[d])
           /\ RequestsPins(d) => Len(PinList[d]) <= 15
<1>1. CASE d = "order"
  <2>1. PinList[d] = <<25, 8, 7, 1, 12, 16, 20, 21, 11, 0, 5, 6, 13, 19, 26>>
    BY <1>1 DEF PinList
  <2>2. QED
    BY <2>1
<1>2. CASE d = "led"
  <2>1. PinList[d] = <<21, 20, 16, 12>>
    BY <1>2 DEF PinList
  <2>2. QED
    BY <2>1
<1>3. CASE d = "lot"
  <2>1. PinList[d] = <<26, 19, 13, 6, 17, 4, 3, 2, 1, 7, 8, 25, 23, 18, 15, 14>>
    BY <1>3 DEF PinList
  <2>2. QED
    BY <1>3, <2>1 DEF RequestsPins
<1>4. QED
  BY <1>1, <1>2, <1>3, DriversAssumption DEF All

\* The pins of a driver are among all pins.
LEMMA PinsOf ==
    ASSUME NEW d \in Drivers, NEW i \in DOMAIN PinList[d]
    PROVE  PinList[d][i] \in Pins(d) /\ PinList[d][i] \in AllPins
BY DriversAssumption DEF Pins, AllPins

\* A driver that checks its errors has what is before its step, and no driver
\* has what is after it.
StepsOK(d) ==
    /\ state[d] = "out" => has[d] = {}
    /\ state[d] = "init" => /\ step[d] >= 1
                            /\ \A n \in has[d] : n < step[d]
                            /\ ChecksErrors(d) => \A n \in 1 .. 4 : n < step[d] => n \in has[d]
                            /\ ~RequestsPins(d) => step[d] <= 5
                            /\ RequestsPins(d) => step[d] <= 5 + Len(PinList[d])
    /\ state[d] = "undo" => /\ step[d] <= 5
                            /\ \A n \in has[d] : n <= step[d]
                            /\ ChecksErrors(d) => \A n \in 1 .. 4 : n < step[d] => n \in has[d]
    /\ state[d] = "in" /\ ChecksErrors(d) => has[d] = 1 .. 4
    /\ 3 \in has[d] <=> etx_class = d

\* Where a driver that requests pins may have some, ...
AtPins(d) ==
    /\ RequestsPins(d)
    /\ \/ state[d] = "init" /\ step[d] > 5
       \/ state[d] = "undo" /\ step[d] = 5
       \/ state[d] = "in"

\* ... and those it must have, since "lot" is the only one that can free them.
PinsOK(d) ==
    /\ \A p \in AllPins : owner[p] = d => AtPins(d) /\ p \in Pins(d)
    /\ RequestsPins(d) =>
           /\ state[d] = "init" =>
                  \A i \in DOMAIN PinList[d] :
                      i < step[d] - 4 =>
                          PinList[d][i] \in Pins("lot") \/ owner[PinList[d][i]] = d
           /\ state[d] = "in" =>
                  \A i \in DOMAIN PinList[d] :
                      PinList[d][i] \in Pins("lot") \/ owner[PinList[d][i]] = d

DrInv == DriversTypeOK /\ \A d \in Drivers : StepsOK(d) /\ PinsOK(d)

\* The name of the class keeps two drivers from being at the pins together.
LEMMA AtPinsHasClass ==
    ASSUME DrInv, NEW d \in Drivers, RequestsPins(d),
           AtPins(d) \/ (state[d] = "init" /\ step[d] = 5)
    PROVE  etx_class = d
<1>1. StepsOK(d) /\ ChecksErrors(d) /\ step[d] \in Nat
  BY DEF DrInv, DriversTypeOK, ChecksErrors, RequestsPins
<1>2. 3 \in has[d]
  BY <1>1 DEF StepsOK, AtPins
<1>3. QED
  BY <1>1, <1>2 DEF StepsOK

\* So no two drivers that request pins are at them at the same time.
LEMMA OneAtPins ==
    ASSUME DrInv, NEW d \in Drivers, NEW e \in Drivers,
           RequestsPins(d), AtPins(d) \/ (state[d] = "init" /\ step[d] = 5),
           RequestsPins(e), AtPins(e) \/ (state[e] = "init" /\ step[e] = 5)
    PROVE  d = e
BY AtPinsHasClass

\* At the start no driver has anything.
LEMMA DriversInitInv == DriversInit => DrInv
<1> SUFFICES ASSUME DriversInit PROVE DrInv
  OBVIOUS
<1>1. DriversTypeOK
  BY DEF DriversInit, DriversTypeOK
<1>2. ASSUME NEW d \in Drivers PROVE StepsOK(d) /\ PinsOK(d)
  <2>1. d # Nobody
    BY DriversAssumption DEF All, Nobody
  <2>2. QED
    BY <2>1 DEF DriversInit, StepsOK, PinsOK
<1>3. QED
  BY <1>1, <1>2 DEF DrInv

\* A pin is requested only from the list of the driver, in init.
LEMMA PinIndex ==
    ASSUME DriversTypeOK, NEW d \in Drivers, RequestPin(d)
    PROVE  /\ d # "lot" /\ state[d] = "init" /\ step[d] \in 5 .. 19
           /\ step[d] - 4 \in DOMAIN PinList[d] /\ step[d] - 4 <= Len(PinList[d])
<1>1. d # "lot" /\ state[d] = "init" /\ step[d] > 4 /\ step[d] - 4 \in DOMAIN PinList[d]
  BY DEF RequestPin, RequestsPins
<1>2. step[d] \in Nat
  BY DEF DriversTypeOK
<1>3. Len(PinList[d]) \in Nat /\ DOMAIN PinList[d] = 1 .. Len(PinList[d])
  BY PinLists
<1>4. Len(PinList[d]) <= 15
  BY <1>1, PinLists DEF RequestsPins
<1> DEFINE n == Len(PinList[d])
<1> HIDE DEF n
<1>5. n \in Nat /\ n <= 15 /\ step[d] - 4 \in 1 .. n
  BY <1>1, <1>3, <1>4 DEF n
<1>6. step[d] \in 5 .. 19 /\ step[d] - 4 <= n
  BY <1>2, <1>5
<1>7. QED
  BY <1>1, <1>6 DEF n

\* Every step of a driver keeps the types,
LEMMA DriversTypeStep ==
    ASSUME DrInv, [DriversNext]_driversVars
    PROVE  DriversTypeOK'
<1>0. DriversTypeOK
  BY DEF DrInv
<1>1. ASSUME NEW d \in Drivers, Insmod(d) PROVE DriversTypeOK'
  BY <1>0, <1>1 DEF DriversTypeOK, Insmod
<1>2. ASSUME NEW d \in Drivers, Acquire(d) PROVE DriversTypeOK'
  BY <1>0, <1>2 DEF DriversTypeOK, Acquire, Advance
<1>3. ASSUME NEW d \in Drivers, Overlook(d) PROVE DriversTypeOK'
  BY <1>0, <1>3 DEF DriversTypeOK, Overlook, Advance
<1>4. ASSUME NEW d \in Drivers, RequestPin(d) PROVE DriversTypeOK'
  <2>0. step[d] \in 5 .. 19
    BY <1>0, <1>4, PinIndex
  <2>1. step[d] + 1 \in 0 .. 20
    BY <2>0
  <2>2. step' \in [Drivers -> 0 .. 20]
    BY <1>0, <1>4, <2>1 DEF DriversTypeOK, RequestPin, Advance
  <2>3. QED
    BY <1>0, <1>4, <2>2 DEF DriversTypeOK, RequestPin, Advance
<1>5. ASSUME NEW d \in Drivers, Fail(d) PROVE DriversTypeOK'
  BY <1>0, <1>5 DEF DriversTypeOK, Fail, Label
<1>6. ASSUME NEW d \in Drivers, Inserted(d) PROVE DriversTypeOK'
  BY <1>0, <1>6 DEF DriversTypeOK, Inserted, Doing
<1>7. ASSUME NEW d \in Drivers, Rmmod(d) PROVE DriversTypeOK'
  BY <1>0, <1>7 DEF DriversTypeOK, Rmmod
<1>8. ASSUME NEW d \in Drivers, FreePins(d) PROVE DriversTypeOK'
  BY <1>0, <1>8 DEF DriversTypeOK, FreePins, Undoing
<1>9. ASSUME NEW d \in Drivers, NEW n \in 1 .. 4, Release(d, n) PROVE DriversTypeOK'
  BY <1>0, <1>9 DEF DriversTypeOK, Release, Undoing
<1>10. ASSUME NEW d \in Drivers, Oops(d) PROVE DriversTypeOK'
  BY <1>0, <1>10 DEF DriversTypeOK, Oops
<1>11. ASSUME NEW d \in Drivers, Removed(d) PROVE DriversTypeOK'
  BY <1>0, <1>11 DEF DriversTypeOK, Removed
<1>12. CASE UNCHANGED driversVars
  BY <1>0, <1>12 DEF DriversTypeOK, driversVars
<1>13. QED
  BY <1>1, <1>2, <1>3, <1>4, <1>5, <1>6, <1>7, <1>8, <1>9, <1>10, <1>11, <1>12
     DEF DriversNext

\* what each driver has acquired so far,
LEMMA DriversStepsStep ==
    ASSUME DrInv, [DriversNext]_driversVars, NEW e \in Drivers
    PROVE  StepsOK(e)'
<1>0. DriversTypeOK /\ StepsOK(e) /\ \A d \in Drivers : StepsOK(d) /\ d # Nobody
  BY DriversAssumption DEF DrInv, All, Nobody
<1>1. ASSUME NEW d \in Drivers, Insmod(d) PROVE StepsOK(e)'
  BY <1>0, <1>1 DEF DriversTypeOK, StepsOK, RequestsPins, ChecksErrors, Insmod
<1>2. ASSUME NEW d \in Drivers, Acquire(d) PROVE StepsOK(e)'
  BY <1>0, <1>2 DEF DriversTypeOK, StepsOK, RequestsPins, ChecksErrors, Acquire, Advance
<1>3. ASSUME NEW d \in Drivers, Overlook(d) PROVE StepsOK(e)'
  BY <1>0, <1>3 DEF DriversTypeOK, StepsOK, RequestsPins, ChecksErrors, Overlook, Advance
<1>4. ASSUME NEW d \in Drivers, RequestPin(d) PROVE StepsOK(e)'
  <2>1. CASE d = e
    <3>1. /\ step[d] \in 5 .. 19 /\ step[d] - 4 <= Len(PinList[d])
          /\ state[d] = "init" /\ d # "lot"
      BY <1>0, <1>4, PinIndex
    <3>2. state'[e] = "init" /\ step'[e] = step[d] + 1 /\ has' = has /\ etx_class' = etx_class
      BY <1>0, <1>4, <2>1 DEF DriversTypeOK, StepsOK, RequestsPins, ChecksErrors, RequestPin, Advance
    <3>3. Len(PinList[e]) \in Nat
      BY PinLists
    <3>4. \A n \in has[e] : n \in Nat /\ n < step[e]
      BY <1>0, <2>1, <3>1 DEF StepsOK, DriversTypeOK
    <3>5. \A n \in 1 .. 4 : n \in has[e]
      <4>1. \A n \in 1 .. 4 : n < step[e] => n \in has[e]
        BY <1>0, <2>1, <3>1 DEF StepsOK, ChecksErrors
      <4>2. step[e] \in 5 .. 19
        BY <2>1, <3>1
      <4>3. QED
        BY <4>1, <4>2
    <3>6. 3 \in has[e] <=> etx_class = e
      BY <1>0 DEF StepsOK
    <3> DEFINE l == Len(PinList[e])
    <3>7. step[e] \in 5 .. 19 /\ step[e] - 4 <= l /\ l \in Nat /\ e # "lot"
      BY <2>1, <3>1, <3>3
    <3>8. step'[e] = step[e] + 1 /\ state'[e] = "init" /\ UNCHANGED <<has, etx_class>>
      BY <2>1, <3>2
    <3> HIDE DEF l
    <3>9. step'[e] \in Nat /\ step'[e] >= 6 /\ step'[e] <= 5 + l
      BY <3>7, <3>8
    <3>10. \A n \in has'[e] : n < step'[e]
      BY <3>4, <3>7, <3>8
    <3>11. QED
      BY <3>5, <3>6, <3>7, <3>8, <3>9, <3>10 DEF StepsOK, RequestsPins, l
  <2>2. CASE d # e
    BY <1>0, <1>4, <2>2 DEF DriversTypeOK, StepsOK, RequestsPins, ChecksErrors, RequestPin, Advance
  <2>3. QED
    BY <2>1, <2>2
<1>5. ASSUME NEW d \in Drivers, Fail(d) PROVE StepsOK(e)'
  <2>1. CASE d = e
    <3>1. /\ state[e] = "init" /\ state'[e] = "undo" /\ step[e] \in Nat
          /\ step'[e] = IF step[e] > 5 THEN 5 ELSE step[e]
          /\ UNCHANGED <<has, etx_class>>
      BY <1>0, <1>5, <2>1 DEF DriversTypeOK, Fail, Label
    <3>2. \A n \in has[e] : n \in 1 .. 4
      BY <1>0 DEF DriversTypeOK
    <3>3. QED
      BY <1>0, <3>1, <3>2 DEF StepsOK
  <2>2. CASE d # e
    BY <1>0, <1>5, <2>2 DEF DriversTypeOK, StepsOK, Fail
  <2>3. QED
    BY <2>1, <2>2
<1>6. ASSUME NEW d \in Drivers, Inserted(d) PROVE StepsOK(e)'
  BY <1>0, <1>6 DEF DriversTypeOK, StepsOK, RequestsPins, ChecksErrors, Inserted, Doing
<1>7. ASSUME NEW d \in Drivers, Rmmod(d) PROVE StepsOK(e)'
  BY <1>0, <1>7 DEF DriversTypeOK, StepsOK, RequestsPins, ChecksErrors, Rmmod
<1>8. ASSUME NEW d \in Drivers, FreePins(d) PROVE StepsOK(e)'
  BY <1>0, <1>8 DEF DriversTypeOK, StepsOK, RequestsPins, ChecksErrors, FreePins, Undoing
<1>9. ASSUME NEW d \in Drivers, NEW n \in 1 .. 4, Release(d, n) PROVE StepsOK(e)'
  BY <1>0, <1>9 DEF DriversTypeOK, StepsOK, RequestsPins, ChecksErrors, Release, Undoing
<1>10. ASSUME NEW d \in Drivers, Oops(d) PROVE StepsOK(e)'
  BY <1>0, <1>10 DEF DriversTypeOK, StepsOK, RequestsPins, ChecksErrors, Oops
<1>11. ASSUME NEW d \in Drivers, Removed(d) PROVE StepsOK(e)'
  BY <1>0, <1>11 DEF DriversTypeOK, StepsOK, RequestsPins, ChecksErrors, Removed
<1>12. CASE UNCHANGED driversVars
  BY <1>0, <1>12 DEF DriversTypeOK, StepsOK, RequestsPins, ChecksErrors, driversVars
<1>13. QED
  BY <1>1, <1>2, <1>3, <1>4, <1>5, <1>6, <1>7, <1>8, <1>9, <1>10, <1>11, <1>12
     DEF DriversNext

\* and the pins of each driver.
LEMMA DriversPinsStep ==
    ASSUME DrInv, [DriversNext]_driversVars, NEW e \in Drivers
    PROVE  PinsOK(e)'
<1>0. /\ DriversTypeOK /\ StepsOK(e) /\ PinsOK(e)
      /\ \A d \in Drivers : StepsOK(d) /\ PinsOK(d) /\ d # Nobody
      /\ \A i \in DOMAIN PinList[e] :
             PinList[e][i] \in AllPins /\ i \in Nat /\ i >= 1
  BY DriversAssumption, PinLists, PinsOf DEF DrInv, All, Nobody
<1>1. ASSUME NEW d \in Drivers, Insmod(d) PROVE PinsOK(e)'
  BY <1>0, <1>1 DEF DriversTypeOK, PinsOK, AtPins, RequestsPins, ChecksErrors, Insmod, StepsOK
<1>2. ASSUME NEW d \in Drivers, Acquire(d) PROVE PinsOK(e)'
  BY <1>0, <1>2 DEF DriversTypeOK, PinsOK, AtPins, RequestsPins, ChecksErrors, Acquire, Advance
<1>3. ASSUME NEW d \in Drivers, Overlook(d) PROVE PinsOK(e)'
  BY <1>0, <1>3 DEF DriversTypeOK, PinsOK, AtPins, RequestsPins, ChecksErrors, Overlook, Advance
<1>4. ASSUME NEW d \in Drivers, RequestPin(d) PROVE PinsOK(e)'
  <2> DEFINE p == PinList[d][step[d] - 4]
  <2>1. /\ step[d] - 4 \in DOMAIN PinList[d] /\ step[d] \in 5 .. 19
        /\ state[d] = "init" /\ d # "lot"
    BY <1>0, <1>4, PinIndex
  <2>2. owner' = [owner EXCEPT ![p] = d] /\ UNCHANGED state /\ step' = [step EXCEPT ![d] = @ + 1]
    BY <1>4 DEF RequestPin, Advance
  <2>3. p \in Pins(d) /\ p \in AllPins
    BY <2>1, PinsOf
  <2>4. ASSUME NEW i \in DOMAIN PinList[d], i < step[d] + 1 - 4
        PROVE  i < step[d] - 4 \/ PinList[d][i] = p
    <3>1. d = e => i \in Nat
      BY <1>0
    <3>2. i \in Nat /\ step[d] \in Nat
      <4>1. DOMAIN PinList[d] = 1 .. Len(PinList[d]) /\ Len(PinList[d]) \in Nat
        BY PinLists
      <4>2. i \in Nat
        BY <2>4, <4>1
      <4>3. QED
        BY <2>1, <4>2
    <3>3. QED
      BY <2>4, <3>2
  <2> HIDE DEF p
  <2>5. \A q \in AllPins : owner'[q] = IF q = p THEN d ELSE owner[q]
    BY <1>0, <2>2, <2>3 DEF DriversTypeOK
  <2>6. CASE d = e
    <3>1. step'[e] = step[e] + 1 /\ state'[e] = "init" /\ step[e] \in Nat /\ step'[e] > 5
      BY <1>0, <2>1, <2>2, <2>6 DEF DriversTypeOK
    <3>2. AtPins(e)'
      BY <2>1, <2>6, <3>1 DEF AtPins, RequestsPins
    <3>3. \A q \in AllPins : owner'[q] = e => q \in Pins(e)
      BY <1>0, <2>3, <2>5, <2>6 DEF PinsOK
    <3>4. ASSUME NEW i \in DOMAIN PinList[e], i < step'[e] - 4
          PROVE  PinList[e][i] \in Pins("lot") \/ owner'[PinList[e][i]] = e
      <4>1. i < step[e] - 4 \/ PinList[e][i] = p
        BY <2>4, <2>6, <3>1, <3>4
      <4>2. PinList[e][i] \in AllPins
        BY <1>0
      <4>3. i < step[e] - 4 => PinList[e][i] \in Pins("lot") \/ owner[PinList[e][i]] = e
        BY <1>0, <2>1, <2>6 DEF PinsOK, RequestsPins
      <4>4. QED
        BY <2>5, <2>6, <4>1, <4>2, <4>3
    <3>5. QED
      BY <3>1, <3>2, <3>3, <3>4 DEF PinsOK
  <2>7. CASE d # e
    <3>1. state'[e] = state[e] /\ step'[e] = step[e]
      BY <1>0, <2>2, <2>7 DEF DriversTypeOK
    <3>2. \A q \in AllPins : owner[q] = e => owner'[q] = e
      <4>1. owner[p] = Nobody
        BY <1>4 DEF RequestPin, p
      <4>2. QED
        BY <1>0, <2>5, <4>1
    <3>3. \A q \in AllPins : owner'[q] = e => owner[q] = e
      BY <2>5, <2>7
    <3>4. QED
      BY <1>0, <3>1, <3>2, <3>3 DEF PinsOK, AtPins
  <2>8. QED
    BY <2>6, <2>7
<1>5. ASSUME NEW d \in Drivers, Fail(d) PROVE PinsOK(e)'
  BY <1>0, <1>5 DEF DriversTypeOK, PinsOK, AtPins, RequestsPins, ChecksErrors, Fail, Label, StepsOK
<1>6. ASSUME NEW d \in Drivers, Inserted(d) PROVE PinsOK(e)'
  <2>1. UNCHANGED <<step, owner>> /\ state[d] = "init"
    BY <1>6 DEF Inserted, Doing
  <2>2. CASE d = e
    <3>1. state'[e] = "in"
      BY <1>0, <1>6, <2>2 DEF Inserted, DriversTypeOK
    <3>2. ASSUME RequestsPins(e), NEW i \in DOMAIN PinList[e]
          PROVE  i < step[e] - 4
      <4>1. step[e] = 5 + Len(PinList[e])
        BY <1>6, <2>2, <3>2 DEF Inserted, Doing
      <4>2. i \in 1 .. Len(PinList[e]) /\ Len(PinList[e]) \in Nat
        BY PinLists
      <4>3. QED
        BY <4>1, <4>2
    <3>3. QED
      BY <1>0, <2>1, <2>2, <3>1, <3>2 DEF PinsOK, AtPins
  <2>3. CASE d # e
    BY <1>0, <1>6, <2>1, <2>3 DEF PinsOK, AtPins, Inserted, DriversTypeOK
  <2>4. QED
    BY <2>2, <2>3
<1>7. ASSUME NEW d \in Drivers, Rmmod(d) PROVE PinsOK(e)'
  BY <1>0, <1>7 DEF DriversTypeOK, PinsOK, AtPins, RequestsPins, ChecksErrors, Rmmod
<1>8. ASSUME NEW d \in Drivers, FreePins(d) PROVE PinsOK(e)'
  <2>1. /\ state[d] = "undo" /\ step[d] = 5 /\ UNCHANGED state
        /\ step' = [step EXCEPT ![d] = 4]
        /\ \A q \in AllPins : owner'[q] = IF q \in Pins(d) THEN Nobody ELSE owner[q]
    BY <1>8 DEF FreePins, Undoing
  <2>2. \A q \in AllPins : owner'[q] = e => owner[q] = e /\ q \notin Pins(d)
    BY <1>0, <2>1
  <2>3. CASE d = e
    BY <1>0, <2>1, <2>2, <2>3 DEF PinsOK
  <2>4. CASE d # e
    <3>1. state'[e] = state[e] /\ step'[e] = step[e] /\ step[e] \in Nat
      BY <1>0, <2>1, <2>4 DEF DriversTypeOK
    <3>2. CASE d = "lot"
      <4>1. \A q \in AllPins : owner[q] = e => q \in Pins("lot") \/ owner'[q] = e
        BY <2>1, <3>2
      <4>2. QED
        BY <1>0, <2>2, <3>1, <4>1 DEF PinsOK, AtPins
    <3>3. CASE d # "lot"
      <4>1. RequestsPins(d) /\ AtPins(d)
        BY <2>1, <3>3 DEF AtPins, RequestsPins
      <4>2. RequestsPins(e) => ~AtPins(e) /\ ~(state[e] = "init" /\ step[e] = 5)
        BY <2>4, <4>1, OneAtPins
      <4>3. /\ \A q \in AllPins : owner'[q] # e
            /\ RequestsPins(e) => state[e] # "in" /\ (state[e] = "init" => step[e] <= 4)
        BY <1>0, <2>2, <3>1, <4>2 DEF PinsOK, AtPins
      <4>4. RequestsPins(e) /\ state'[e] = "init" =>
                \A i \in DOMAIN PinList[e] : ~(i < step'[e] - 4)
        BY <1>0, <3>1, <4>3
      <4>5. QED
        BY <3>1, <4>3, <4>4 DEF PinsOK
    <3>4. QED
      BY <3>2, <3>3
  <2>5. QED
    BY <2>3, <2>4
<1>9. ASSUME NEW d \in Drivers, NEW n \in 1 .. 4, Release(d, n) PROVE PinsOK(e)'
  BY <1>0, <1>9 DEF DriversTypeOK, PinsOK, AtPins, RequestsPins, ChecksErrors, Release, Undoing
<1>10. ASSUME NEW d \in Drivers, Oops(d) PROVE PinsOK(e)'
  BY <1>0, <1>10 DEF DriversTypeOK, PinsOK, AtPins, RequestsPins, ChecksErrors, Oops
<1>11. ASSUME NEW d \in Drivers, Removed(d) PROVE PinsOK(e)'
  BY <1>0, <1>11 DEF DriversTypeOK, PinsOK, AtPins, RequestsPins, ChecksErrors, Removed
<1>12. CASE UNCHANGED driversVars
  BY <1>0, <1>12 DEF DriversTypeOK, PinsOK, AtPins, RequestsPins, ChecksErrors, driversVars
<1>13. QED
  BY <1>1, <1>2, <1>3, <1>4, <1>5, <1>6, <1>7, <1>8, <1>9, <1>10, <1>11, <1>12
     DEF DriversNext

\* DrInv holds in every reachable state.
LEMMA DriversInductive == DriversSpec => []DrInv
<1>1. DriversInit => DrInv
  BY DriversInitInv
<1>2. DrInv /\ [DriversNext]_driversVars => DrInv'
  BY DriversTypeStep, DriversStepsStep, DriversPinsStep DEF DrInv
<1>3. QED
  BY <1>1, <1>2, PTL DEF DriversSpec

\* Every set of the three drivers, whatever fails and whatever is loaded and
\* unloaded meanwhile: a driver that is out holds nothing, and one that checks
\* its errors and is in holds everything but the pins "lot" frees without asking.
THEOREM DriversAllOrNothing == DriversSpec => []AllOrNothing
<1>1. DrInv => AllOrNothing
  <2> SUFFICES ASSUME DrInv, NEW d \in Drivers
               PROVE  /\ state[d] = "out" =>
                              has[d] = {} /\ etx_class # d /\ Holds(d) = {}
                      /\ state[d] = "in" /\ ChecksErrors(d) =>
                              /\ has[d] = 1 .. 4 /\ etx_class = d
                              /\ Pins(d) \ Pins("lot") \subseteq Holds(d)
    BY DEF AllOrNothing
  <2> USE DEF DrInv
  <2>1. state[d] = "out" => has[d] = {} /\ etx_class # d
    BY DEF StepsOK
  <2>2. state[d] = "out" => Holds(d) = {}
    BY DEF PinsOK, AtPins, Holds
  <2>3. state[d] = "in" /\ ChecksErrors(d) => has[d] = 1 .. 4 /\ etx_class = d
    BY DEF StepsOK
  <2>4. state[d] = "in" /\ ChecksErrors(d) => Pins(d) \ Pins("lot") \subseteq Holds(d)
    BY PinsOf DEF PinsOK, Holds, Pins, ChecksErrors, RequestsPins
  <2>5. QED
    BY <2>1, <2>2, <2>3, <2>4
<1>2. QED
  BY <1>1, DriversInductive, PTL

-----------------------------------------------------------------------------
(* MCLabs.  Side by side, each program does its own steps or none.         *)

\* A behaviour of MCLabs is one of each program: the program that runs takes
\* the steps it takes alone, and the variables of the others stand still.
THEOREM LabsPrograms ==
    LabsSpec => /\ GuessSpec /\ MarqueeSpec /\ TrainSpec
                /\ DriversSpec /\ MenuSpec /\ ShopSpec
<1>1. LabsInit => /\ GuessInit /\ MarqueeInit /\ TrainInit
                  /\ DriversInit /\ MenuInit /\ ShopInit
  BY DEF LabsInit
<1>2. [LabsNext]_labVars => /\ [GuessNext]_guessVars /\ [MarqueeNext]_marqueeVars
                            /\ [TrainNext]_trainVars /\ [DriversNext]_driversVars
                            /\ [MenuNext]_menuVars /\ [ShopNext]_shopVars
  BY DEF LabsNext, labVars
<1>3. LabsSpec => LabsInit /\ [][LabsNext]_labVars
  BY DEF LabsSpec
<1>4. QED
  BY <1>1, <1>2, <1>3, PTL
     DEF GuessSpec, MarqueeSpec, TrainSpec, DriversSpec, MenuSpec, ShopSpec

\* LabsTypeOK: the variables of all six programs keep their types.
THEOREM LabsTypeCorrect == LabsSpec => []LabsTypeOK
<1>1. /\ TrInv => TrainTypeOK
      /\ DrInv => DriversTypeOK
      /\ MnInv => MenuTypeOK
      /\ ShInv => ShopTypeOK
  BY DEF TrInv, DrInv, MnInv, ShInv
<1>2. GuessTypeOK /\ MarqueeTypeOK /\ TrainTypeOK /\ DriversTypeOK /\ MenuTypeOK
      /\ ShopTypeOK => LabsTypeOK
  BY DEF LabsTypeOK
<1>3. QED
  BY <1>1, <1>2, LabsPrograms, GuessTypeCorrect, MarqueeTypeCorrect, TrainInductive,
     DriversInductive, MenuInductive, ShopInductive, PTL

=============================================================================
