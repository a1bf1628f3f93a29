--------------------------------- MODULE Guess ---------------------------------
(***************************************************************************)
(* The guessing game of Lab/312512032_eos_lab7.  game.c holds the number   *)
(* and answers a SIGUSR1; guess.c bisects in the handler of a timer that   *)
(* fires once a second.  They share a segment, with no lock and no         *)
(* acknowledgement: only the second between two alarms keeps a guess and   *)
(* its answer together.  The alarm may come late or early here; misled     *)
(* records that the handler used a result that no guess of its own got.    *)
(***************************************************************************)
EXTENDS Integers

CONSTANTS
    MaxNumber,      \* the upper bound given to guess.c
    MaxStarts       \* bound on the starts of guess.c

ASSUME GuessAssumption ==
    /\ MaxNumber \in Nat \ {0}
    /\ MaxStarts \in Nat

Results == {"none", "smaller", "bigger", "bingo"}

VARIABLES
    game,           \* game.c: "off", "on" or "gone"
    ans,
    shm_guess,      \* My_data->guess
    result,         \* My_data->result
    sigusr1,        \* SIGUSR1 is pending for game.c
    verdict,        \* what Check_handler() is about to store
    guessing,       \* control point of guess.c
    upper_bound, lower_bound, guess,
    starts,
    misled          \* history

gameVars == <<game, ans, verdict>>
shared == <<shm_guess, result, sigusr1>>
bounds == <<upper_bound, lower_bound, guess>>
guessVars == <<gameVars, shared, guessing, bounds, starts, misled>>

GuessInit ==
    /\ game = "off" /\ ans = 0 /\ verdict = "none"
    /\ shm_guess = 0 /\ result = "none" /\ sigusr1 = FALSE
    /\ guessing = "off"
    /\ upper_bound = MaxNumber /\ lower_bound = 1 /\ guess = 0
    /\ starts = 0 /\ misled = FALSE

-----------------------------------------------------------------------------
(* game.c                                                                  *)

StartGame(n) ==
    /\ game = "off"
    /\ game' = "on" /\ ans' = n
    /\ UNCHANGED <<verdict, shared, guessing, bounds, starts, misled>>

\* SIGINT: the segment is marked for removal, guess.c stays attached to it.
StopGame ==
    /\ game = "on"
    /\ game' = "gone" /\ verdict' = "none"
    /\ UNCHANGED <<ans, shared, guessing, bounds, starts, misled>>

Verdict(n) == IF n > ans THEN "smaller" ELSE IF n < ans THEN "bigger" ELSE "bingo"

\* Check_handler() compares, and stores the result a moment later.
Check ==
    /\ game = "on" /\ sigusr1 = TRUE /\ verdict = "none"
    /\ sigusr1' = FALSE
    /\ verdict' = Verdict(shm_guess)
    /\ UNCHANGED <<game, ans, shm_guess, result, guessing, bounds, starts, misled>>

Answer ==
    /\ verdict # "none"
    /\ result' = verdict /\ verdict' = "none"
    /\ UNCHANGED <<game, ans, shm_guess, sigusr1, guessing, bounds, starts, misled>>

-----------------------------------------------------------------------------
(* guess.c                                                                 *)

\* Attaches to a segment that exists: what an earlier guess.c and the game
\* have left there stays in it.
StartGuess ==
    /\ game = "on" /\ guessing \in {"off", "found"} /\ starts < MaxStarts
    /\ guessing' = "wait"
    /\ upper_bound' = MaxNumber /\ lower_bound' = 1 /\ guess' = 0
    /\ starts' = starts + 1
    /\ UNCHANGED <<gameVars, shared, misled>>

StopGuess ==
    /\ guessing \in {"wait", "write", "signal"}
    /\ guessing' = "off"
    /\ UNCHANGED <<gameVars, shared, bounds, starts, misled>>

Unanswered == sigusr1 = TRUE \/ verdict # "none" \/ game = "gone"

\* Mutant: the guess itself stays in the interval.
Narrow_KeepsGuess ==
    /\ upper_bound' = IF result = "smaller" THEN guess ELSE upper_bound
    /\ lower_bound' = IF result = "bigger" THEN guess + 1 ELSE lower_bound

\* Mutant: the two answers are confused.
Narrow_Swapped ==
    /\ upper_bound' = IF result = "bigger" THEN guess - 1 ELSE upper_bound
    /\ lower_bound' = IF result = "smaller" THEN guess + 1 ELSE lower_bound

Narrow ==
    /\ upper_bound' = IF result = "smaller" THEN guess - 1 ELSE upper_bound
    /\ lower_bound' = IF result = "bigger" THEN guess + 1 ELSE lower_bound

\* guess_handler() reads the result and takes the middle of what is left.  It
\* is misled when the game has not answered its last guess yet, or when the
\* first result it finds says that a guess of 0 is too big.
Alarm ==
    /\ guessing = "wait"
    /\ misled' = IF Unanswered \/ (guess = 0 /\ result = "smaller") THEN TRUE ELSE misled
    /\ \/ /\ result = "bingo"
          /\ guessing' = "found"
          /\ UNCHANGED bounds
       \/ /\ result # "bingo"
          /\ guessing' = "write"
          /\ Narrow
          /\ guess' = (upper_bound' + lower_bound') \div 2
    /\ UNCHANGED <<gameVars, shared, starts>>

Write ==
    /\ guessing = "write"
    /\ guessing' = "signal"
    /\ shm_guess' = guess
    /\ UNCHANGED <<gameVars, result, sigusr1, bounds, starts, misled>>

\* Mutant: the game is not told of the guess.
Signal_Forgotten ==
    /\ guessing = "signal"
    /\ guessing' = "wait"
    /\ UNCHANGED <<gameVars, shared, bounds, starts, misled>>

\* kill(pid, SIGUSR1): one more makes no difference while one is pending.
Signal ==
    /\ guessing = "signal"
    /\ guessing' = "wait"
    /\ sigusr1' = IF game = "on" THEN TRUE ELSE sigusr1
    /\ UNCHANGED <<gameVars, shm_guess, result, bounds, starts, misled>>

-----------------------------------------------------------------------------
GuessNext ==
    \/ \E n \in 1 .. MaxNumber : StartGame(n)
    \/ StopGame \/ Check \/ Answer
    \/ StartGuess \/ StopGuess \/ Alarm \/ Write \/ Signal

GuessSpec == GuessInit /\ [][GuessNext]_guessVars

\* The timer goes on firing and both processes are scheduled.
GuessFairness ==
    /\ WF_guessVars(Alarm) /\ WF_guessVars(Write) /\ WF_guessVars(Signal)
    /\ WF_guessVars(Check) /\ WF_guessVars(Answer)

-----------------------------------------------------------------------------
(* Properties.                                                             *)

GuessTypeOK ==
    /\ game \in {"off", "on", "gone"} /\ ans \in 0 .. MaxNumber
    /\ verdict \in Results /\ result \in Results
    /\ sigusr1 \in BOOLEAN /\ misled \in BOOLEAN
    /\ guessing \in {"off", "wait", "write", "signal", "found"}
    /\ upper_bound \in -1 .. MaxNumber
    /\ lower_bound \in 1 .. MaxNumber + 1
    /\ guess \in 0 .. MaxNumber /\ shm_guess \in 0 .. MaxNumber
    /\ starts \in 0 .. MaxStarts

\* The answer stays between the bounds and guess.c ends with the answer, for
\* every interleaving of the two handlers and every stop and restart, as long
\* as each alarm comes after the answer to the guess before it.
SearchSound ==
    misled = FALSE =>
        /\ guessing \in {"wait", "write", "signal"} =>
               lower_bound <= ans /\ ans <= upper_bound
        /\ guessing = "found" => shm_guess = ans

\* Each answer at least halves the numbers that are left, so the number of
\* guesses is logarithmic: no answer is applied twice or to another guess.
HalvesInterval ==
    [][guessing = "wait" /\ guessing' = "write" /\ guess # 0 /\ misled' = FALSE
          => 2 * (upper_bound' - lower_bound' + 1) <= upper_bound - lower_bound + 1
      ]_guessVars

\* guess.c ends, unless it is stopped or misled.
SearchEnds == guessing = "wait" ~> guessing \in {"off", "found"} \/ misled = TRUE

=============================================================================
