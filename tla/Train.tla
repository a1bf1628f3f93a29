--------------------------------- MODULE Train ---------------------------------
(***************************************************************************)
(* The train server of Lab/312512032_eos_lab5: main() forks a child for    *)
(* every connection, the child runs sl with the connection as its standard *)
(* output, and the handler of SIGCHLD collects the trains that have ended. *)
(* Signals do not queue, so one call of the handler may stand for several  *)
(* trains, and it runs between any two steps of main().                    *)
(***************************************************************************)
EXTENDS Integers, FiniteSets

CONSTANT Trains     \* the connections, which also name the child of each

Server == "server"
NoTrain == "none"
ASSUME TrainAssumption == {Server, NoTrain} \cap Trains = {}

VARIABLES
    listening,      \* fd is open
    main,           \* control point of main()
    client_socket,  \* the connection main() works on
    proc,           \* the child of each connection
    holders,        \* the processes that have the connection open
    sigchld,        \* SIGCHLD is pending
    handling        \* handler() is in its loop

trainVars == <<listening, main, client_socket, proc, holders, sigchld, handling>>

TrainInit ==
    /\ listening = FALSE /\ main = "off" /\ client_socket = NoTrain
    /\ proc = [c \in Trains |-> "none"]
    /\ holders = [c \in Trains |-> {}]
    /\ sigchld = FALSE /\ handling = FALSE

At(a, b) == handling = FALSE /\ main = a /\ main' = b

-----------------------------------------------------------------------------
(* main()                                                                  *)

Listen ==
    /\ At("off", "accept")
    /\ listening' = TRUE
    /\ UNCHANGED <<client_socket, proc, holders, sigchld, handling>>

\* Without fd, accept() fails and is tried again for ever.
Accept(c) ==
    /\ listening = TRUE /\ proc[c] = "none" /\ holders[c] = {}
    /\ At("accept", "fork")
    /\ client_socket' = c
    /\ holders' = [holders EXCEPT ![c] = {Server}]
    /\ UNCHANGED <<listening, proc, sigchld, handling>>

\* The child has everything open that the server has open.
Fork ==
    /\ At("fork", "close")
    /\ proc' = [proc EXCEPT ![client_socket] = "forked"]
    /\ holders' = [d \in Trains |-> IF Server \in holders[d]
                                    THEN holders[d] \cup {client_socket}
                                    ELSE holders[d]]
    /\ UNCHANGED <<listening, client_socket, sigchld, handling>>

\* fork() fails: the server exits, and init collects the trains.
ForkFails ==
    /\ At("fork", "dead")
    /\ listening' = FALSE
    /\ holders' = [d \in Trains |-> holders[d] \ {Server}]
    /\ UNCHANGED <<client_socket, proc, sigchld, handling>>

\* Mutant: the server keeps the connections it has handed over.
Close_Not ==
    /\ At("close", "accept")
    /\ UNCHANGED <<listening, client_socket, proc, holders, sigchld, handling>>

CloseClient ==
    /\ At("close", "accept")
    /\ holders' = [holders EXCEPT ![client_socket] = @ \ {Server}]
    /\ UNCHANGED <<listening, client_socket, proc, sigchld, handling>>

\* sigint_handler() closes fd and the loop goes on.
Sigint ==
    /\ main \notin {"off", "dead"}
    /\ listening' = FALSE
    /\ UNCHANGED <<main, client_socket, proc, holders, sigchld, handling>>

-----------------------------------------------------------------------------
(* The children, and handler().                                            *)

Exec(c) ==
    /\ proc[c] = "forked"
    /\ proc' = [proc EXCEPT ![c] = "runs"]
    /\ UNCHANGED <<listening, main, client_socket, holders, sigchld, handling>>

\* sl has left the screen, or execlp() has failed.
Ends(c) ==
    /\ proc[c] \in {"forked", "runs"}
    /\ proc' = [proc EXCEPT ![c] = "zombie"]
    /\ holders' = [d \in Trains |-> holders[d] \ {c}]
    /\ sigchld' = TRUE
    /\ UNCHANGED <<listening, main, client_socket, handling>>

Deliver ==
    /\ sigchld = TRUE /\ handling = FALSE /\ main \notin {"off", "dead"}
    /\ sigchld' = FALSE /\ handling' = TRUE
    /\ UNCHANGED <<listening, main, client_socket, proc, holders>>

\* Mutant: one waitpid() for one signal.
WaitPid_Once ==
    /\ handling = TRUE
    /\ \E c \in Trains : /\ proc[c] = "zombie"
                         /\ proc' = [proc EXCEPT ![c] = "reaped"]
    /\ handling' = FALSE
    /\ UNCHANGED <<listening, main, client_socket, holders, sigchld>>

WaitPid ==
    /\ handling = TRUE
    /\ \/ \E c \in Trains : /\ proc[c] = "zombie"
                            /\ proc' = [proc EXCEPT ![c] = "reaped"]
                            /\ UNCHANGED handling
       \/ /\ \A c \in Trains : proc[c] # "zombie"
          /\ handling' = FALSE
          /\ UNCHANGED proc
    /\ UNCHANGED <<listening, main, client_socket, holders, sigchld>>

-----------------------------------------------------------------------------
TrainServer == Fork \/ CloseClient \/ Deliver \/ WaitPid

TrainNext ==
    \/ \E c \in Trains : Accept(c) \/ Exec(c) \/ Ends(c)
    \/ Listen \/ Fork \/ ForkFails \/ CloseClient \/ Sigint \/ Deliver \/ WaitPid

TrainSpec == TrainInit /\ [][TrainNext]_trainVars

\* The server and every train get on; nothing makes a client connect.
TrainFairness ==
    /\ WF_trainVars(TrainServer)
    /\ \A c \in Trains : WF_trainVars(Ends(c))

-----------------------------------------------------------------------------
(* Properties.                                                             *)

TrainTypeOK ==
    /\ listening \in BOOLEAN /\ sigchld \in BOOLEAN /\ handling \in BOOLEAN
    /\ main \in {"off", "accept", "fork", "close", "dead"}
    /\ client_socket \in Trains \cup {NoTrain}
    /\ proc \in [Trains -> {"none", "forked", "runs", "zombie", "reaped"}]
    /\ holders \in [Trains -> SUBSET (Trains \cup {Server})]

\* A connection is held by its own train only, and by the server only until it
\* has forked: no train keeps the connection of another client open, so the
\* client's nc ends with its own train.
OwnTrackOnly ==
    \A c \in Trains :
        /\ holders[c] \subseteq {c, Server}
        /\ Server \in holders[c] => client_socket = c /\ main \in {"fork", "close"}
        /\ c \in holders[c] <=> proc[c] \in {"forked", "runs"}

\* Every train that has ended is collected while the server lives, although
\* several may end behind a single SIGCHLD and during the handler.
TrainsCollected ==
    \A c \in Trains : proc[c] = "zombie" ~> proc[c] = "reaped" \/ main = "dead"

=============================================================================
