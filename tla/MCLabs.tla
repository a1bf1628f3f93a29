-------------------------------- MODULE MCLabs --------------------------------
(***************************************************************************)
(* The six smaller programs of the course for TLC.  They have nothing in   *)
(* common, so a behaviour is one of a single program, chosen at the start, *)
(* and the state space is the sum of theirs, not the product.              *)
(***************************************************************************)
EXTENDS Guess, Marquee, Train, Drivers, Menu, Shop

\* atoi() of a negative number, of a word and of a number.
OrderNumbers == {-1, 0, 2}

VARIABLE running

labVars == <<running, guessVars, marqueeVars, trainVars, driversVars, menuVars,
             shopVars>>

LabsInit ==
    /\ running \in {"guess", "marquee", "train", "drivers", "menu", "shop"}
    /\ GuessInit /\ MarqueeInit /\ TrainInit
    /\ DriversInit /\ MenuInit /\ ShopInit

LabsNext ==
    /\ \/ /\ running = "guess" /\ GuessNext
          /\ UNCHANGED <<marqueeVars, trainVars, driversVars, menuVars, shopVars>>
       \/ /\ running = "marquee" /\ MarqueeNext
          /\ UNCHANGED <<guessVars, trainVars, driversVars, menuVars, shopVars>>
       \/ /\ running = "train" /\ TrainNext
          /\ UNCHANGED <<guessVars, marqueeVars, driversVars, menuVars, shopVars>>
       \/ /\ running = "drivers" /\ DriversNext
          /\ UNCHANGED <<guessVars, marqueeVars, trainVars, menuVars, shopVars>>
       \/ /\ running = "menu" /\ MenuNext
          /\ UNCHANGED <<guessVars, marqueeVars, trainVars, driversVars, shopVars>>
       \/ /\ running = "shop" /\ ShopNext
          /\ UNCHANGED <<guessVars, marqueeVars, trainVars, driversVars, menuVars>>
    /\ UNCHANGED running

\* No fair action is enabled in the initial state of a program that does not
\* run, so the fairness of the others says nothing about them.
LabsSpec ==
    /\ LabsInit /\ [][LabsNext]_labVars
    /\ GuessFairness /\ MarqueeFairness /\ TrainFairness /\ MenuFairness

\* The variables of every program keep their types.
LabsTypeOK ==
    /\ GuessTypeOK /\ MarqueeTypeOK /\ TrainTypeOK
    /\ DriversTypeOK /\ MenuTypeOK /\ ShopTypeOK

=============================================================================
