--------------------------------- MODULE Bank ---------------------------------
(***************************************************************************)
(* The bank of Lab/312512032_eos_lab6: server.c and its clients, client.c. *)
(*                                                                         *)
(* main() accepts connections and starts a thread bank() for each, giving  *)
(* it the address of the one global client_socket.  The threads add to and *)
(* subtract from the global my_money_now without a lock.  The semaphore of *)
(* MYKEY is taken by the clients, around send() only, so a send is one     *)
(* step and the semaphore is not in the model: it orders no two receives.  *)
(***************************************************************************)
EXTENDS Integers, Sequences, FiniteSetsExt

CONSTANTS
    Clients,        \* the clients, which also name their connections
    Amount,         \* what each client deposits, < 0 for a withdrawal
    Times           \* how often it does so

ASSUME BankAssumption ==
    /\ IsFiniteSet(Clients)
    /\ Amount \in [Clients -> Int]
    /\ Times \in [Clients -> Nat]

NoSocket == "none"

VARIABLES
    my_money_now,
    client_socket,  \* the connection accepted last
    \* clients
    todo,           \* operations still to send, -1 when closed
    wire,           \* messages sent on the connection and not received
    \* the thread started for each connection
    pc,
    sock,           \* its copy of client_socket
    money,          \* the amount it works on
    reg,            \* the register of my_money_now +/- money
    \* history
    applied         \* operations the server has received, per client

vars == <<my_money_now, client_socket, todo, wire, pc, sock, money, reg, applied>>

Init ==
    /\ my_money_now = 0
    /\ client_socket = NoSocket
    /\ todo = [c \in Clients |-> Times[c]]
    /\ wire = [c \in Clients |-> <<>>]
    /\ pc = [c \in Clients |-> "off"]
    /\ sock = [c \in Clients |-> NoSocket]
    /\ money = [c \in Clients |-> 0]
    /\ reg = [c \in Clients |-> 0]
    /\ applied = [c \in Clients |-> 0]

Go(t, a, b) == pc[t] = a /\ pc' = [pc EXCEPT ![t] = b]

-----------------------------------------------------------------------------
(* client.c                                                                *)

Connected(c) == pc[c] # "off"

Send(c) ==
    /\ Connected(c) /\ todo[c] > 0
    /\ wire' = [wire EXCEPT ![c] = Append(@, "operation")]
    /\ todo' = [todo EXCEPT ![c] = @ - 1]
    /\ UNCHANGED <<my_money_now, client_socket, pc, sock, money, reg, applied>>

\* "exit" is sent and the connection closed.
Close(c) ==
    /\ Connected(c) /\ todo[c] = 0
    /\ wire' = [wire EXCEPT ![c] = Append(@, "exit")]
    /\ todo' = [todo EXCEPT ![c] = -1]
    /\ UNCHANGED <<my_money_now, client_socket, pc, sock, money, reg, applied>>

-----------------------------------------------------------------------------
(* server.c                                                                *)

\* accept() and pthread_create(): the next accept may overwrite client_socket
\* before the new thread has read it.
Accept(c) ==
    /\ Go(c, "off", "start")
    /\ client_socket' = c
    /\ UNCHANGED <<my_money_now, todo, wire, sock, money, reg, applied>>

Start(t) ==
    /\ Go(t, "start", "recv")
    /\ sock' = [sock EXCEPT ![t] = client_socket]
    /\ UNCHANGED <<my_money_now, client_socket, todo, wire, money, reg, applied>>

\* Mutant: the message is looked at and stays in the socket.
RecvOperation_Peek(t) ==
    /\ sock[t] # NoSocket /\ wire[sock[t]] # <<>>
    /\ Head(wire[sock[t]]) = "operation"
    /\ Go(t, "recv", "load")
    /\ money' = [money EXCEPT ![t] = Amount[sock[t]]]
    /\ applied' = [applied EXCEPT ![sock[t]] = @ + 1]
    /\ UNCHANGED <<my_money_now, client_socket, todo, wire, sock, reg>>

\* recv() of "deposit n" or "withdraw n", by any thread that has this socket.
RecvOperation(t) ==
    /\ sock[t] # NoSocket /\ wire[sock[t]] # <<>>
    /\ Head(wire[sock[t]]) = "operation"
    /\ Go(t, "recv", "load")
    /\ wire' = [wire EXCEPT ![sock[t]] = Tail(@)]
    /\ money' = [money EXCEPT ![t] = Amount[sock[t]]]
    /\ applied' = [applied EXCEPT ![sock[t]] = @ + 1]
    /\ UNCHANGED <<my_money_now, client_socket, todo, sock, reg>>

Load(t) ==
    /\ Go(t, "load", "store")
    /\ reg' = [reg EXCEPT ![t] = my_money_now]
    /\ UNCHANGED <<my_money_now, client_socket, todo, wire, sock, money, applied>>

\* Mutant: the amount is subtracted whatever the message says.
SaveMoney_Sign(t) ==
    /\ Go(t, "store", "recv")
    /\ my_money_now' = reg[t] - money[t]
    /\ UNCHANGED <<client_socket, todo, wire, sock, money, reg, applied>>

SaveMoney(t) ==
    /\ Go(t, "store", "recv")
    /\ my_money_now' = reg[t] + money[t]
    /\ UNCHANGED <<client_socket, todo, wire, sock, money, reg, applied>>

\* "exit" is received, or the client has closed and nothing is left to read.
Finish(t) ==
    /\ Go(t, "recv", "done")
    /\ sock[t] # NoSocket
    /\ \/ /\ wire[sock[t]] # <<>> /\ Head(wire[sock[t]]) = "exit"
          /\ wire' = [wire EXCEPT ![sock[t]] = Tail(@)]
       \/ /\ wire[sock[t]] = <<>> /\ todo[sock[t]] = -1
          /\ UNCHANGED wire
    /\ UNCHANGED <<my_money_now, client_socket, todo, sock, money, reg, applied>>

-----------------------------------------------------------------------------
Next ==
    \E c \in Clients :
        \/ Send(c) \/ Close(c) \/ Accept(c)
        \/ Start(c) \/ RecvOperation(c) \/ Load(c) \/ SaveMoney(c) \/ Finish(c)

Spec == Init /\ [][Next]_vars

-----------------------------------------------------------------------------
(* Properties.                                                             *)

TypeOK ==
    /\ my_money_now \in Int
    /\ client_socket \in Clients \cup {NoSocket}
    /\ todo \in [Clients -> Nat \cup {-1}]
    /\ wire \in [Clients -> Seq({"operation", "exit"})]
    /\ pc \in [Clients -> {"off", "start", "recv", "load", "store", "done"}]
    /\ sock \in [Clients -> Clients \cup {NoSocket}]
    /\ money \in [Clients -> Int]
    /\ reg \in [Clients -> Int]
    /\ applied \in [Clients -> Nat]

\* What the operations received from each client come to.
Moved == [c \in Clients |-> applied[c] * Amount[c]]
Total(S) == SumFunctionOnSet(Moved, S)
Depositors == {c \in Clients : Amount[c] > 0}
Withdrawers == Clients \ Depositors

\* Lost updates lose money of one kind or the other, but invent none: the
\* balance stays between all that was withdrawn and all that was deposited,
\* also when two threads read the same socket.
BalanceBounded ==
    Total(Withdrawers) <= my_money_now /\ my_money_now <= Total(Depositors)

\* No operation is received twice, and none before it was sent: operations on
\* the wire, still to be sent and received add up for every client, although
\* the threads of several clients may read its socket.
ReceivedOnce ==
    \A c \in Clients :
        todo[c] >= 0 => applied[c] + Len(wire[c]) + todo[c] = Times[c]

-----------------------------------------------------------------------------
(* A statement of the documentation, which TLC refutes.                    *)

\* README:45, "prevent financial losses for the clients due to concurrent
\* access": when every operation was received and every thread has ended, the
\* balance is the sum of the operations.
BalanceExact ==
    (\A c \in Clients : pc[c] = "done" /\ applied[c] = Times[c])
        => my_money_now = Total(Clients)

=============================================================================
