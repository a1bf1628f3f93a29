------------------------------ MODULE Bank_proofs ------------------------------
(***************************************************************************)
(* Proofs about the bank: the types, ReceivedOnce and BalanceBounded, for  *)
(* any number of clients and operations.                                   *)
(***************************************************************************)
EXTENDS Bank, Sums

USE BankAssumption DEF BankAssumption

-----------------------------------------------------------------------------
\* "exit" is the last message: as long as a client is not closed, a thread that
\* drops a message without counting it finds nothing to drop.
OpenWire(c) ==
    todo[c] >= 0 =>
        /\ applied[c] + Len(wire[c]) + todo[c] = Times[c]
        /\ \A i \in 1 .. Len(wire[c]) : wire[c][i] = "operation"

BInv == TypeOK /\ \A c \in Clients : OpenWire(c)

\* At the start nothing is sent.
LEMMA BankInitInv == Init => BInv
<1> SUFFICES ASSUME Init PROVE BInv
  OBVIOUS
<1>1. TypeOK
  BY DEF Init, TypeOK
<1>2. ASSUME NEW c \in Clients PROVE OpenWire(c)
  <2>1. wire[c] = <<>> /\ todo[c] = Times[c] /\ applied[c] = 0
    BY DEF Init
  <2>2. QED
    BY <2>1 DEF OpenWire
<1>3. QED
  BY <1>1, <1>2 DEF BInv

\* Every step keeps the types.
LEMMA BankTypeStep ==
    ASSUME TypeOK, [Next]_vars
    PROVE  TypeOK'
<1>1. ASSUME NEW c \in Clients, Send(c) PROVE TypeOK'
  <2>1. todo[c] \in Int /\ todo[c] - 1 \in Nat
    BY <1>1 DEF TypeOK, Send
  <2>2. todo' \in [Clients -> Nat \cup {-1}]
    BY <1>1, <2>1 DEF TypeOK, Send
  <2>3. Append(wire[c], "operation") \in Seq({"operation", "exit"})
    BY DEF TypeOK
  <2>4. wire' \in [Clients -> Seq({"operation", "exit"})]
    BY <1>1, <2>3 DEF TypeOK, Send
  <2>5. QED
    BY <1>1, <2>2, <2>4 DEF TypeOK, Send
<1>2. ASSUME NEW c \in Clients, Close(c) PROVE TypeOK'
  BY <1>2 DEF TypeOK, Close
<1>3. ASSUME NEW c \in Clients, Accept(c) PROVE TypeOK'
  BY <1>3 DEF TypeOK, Accept, Go
<1>4. ASSUME NEW t \in Clients, Start(t) PROVE TypeOK'
  BY <1>4 DEF TypeOK, Start, Go
<1>5. ASSUME NEW t \in Clients, RecvOperation(t) PROVE TypeOK'
  <2>1. sock[t] \in Clients
    BY <1>5 DEF TypeOK, RecvOperation
  <2>2. Tail(wire[sock[t]]) \in Seq({"operation", "exit"})
    <3>1. wire[sock[t]] \in Seq({"operation", "exit"})
      BY <2>1 DEF TypeOK
    <3>2. wire[sock[t]] # <<>>
      BY <1>5 DEF RecvOperation
    <3>3. QED
      BY <3>1, <3>2
  <2>3. wire' \in [Clients -> Seq({"operation", "exit"})]
    <3>1. wire' = [wire EXCEPT ![sock[t]] = Tail(@)]
      BY <1>5 DEF RecvOperation
    <3>2. wire \in [Clients -> Seq({"operation", "exit"})]
      BY DEF TypeOK
    <3>3. QED
      BY <2>1, <2>2, <3>1, <3>2
  <2>4. applied' \in [Clients -> Nat] /\ money' \in [Clients -> Int]
    <3>1. applied' = [applied EXCEPT ![sock[t]] = @ + 1]
      BY <1>5 DEF RecvOperation
    <3>2. money' = [money EXCEPT ![t] = Amount[sock[t]]]
      BY <1>5 DEF RecvOperation
    <3>3. applied \in [Clients -> Nat] /\ money \in [Clients -> Int]
      BY DEF TypeOK
    <3>4. Amount[sock[t]] \in Int
      BY <2>1, BankAssumption
    <3>5. QED
      BY <2>1, <3>1, <3>2, <3>3, <3>4
  <2>5. QED
    BY <1>5, <2>3, <2>4 DEF TypeOK, RecvOperation, Go
<1>6. ASSUME NEW t \in Clients, Load(t) PROVE TypeOK'
  BY <1>6 DEF TypeOK, Load, Go
<1>7. ASSUME NEW t \in Clients, SaveMoney(t) PROVE TypeOK'
  BY <1>7 DEF TypeOK, SaveMoney, Go
<1>8. ASSUME NEW t \in Clients, Finish(t) PROVE TypeOK'
  <2>1. sock[t] \in Clients
    BY <1>8 DEF TypeOK, Finish
  <2>2. wire' \in [Clients -> Seq({"operation", "exit"})]
    <3>1. wire[sock[t]] # <<>> => Tail(wire[sock[t]]) \in Seq({"operation", "exit"})
      BY <2>1 DEF TypeOK
    <3>2. QED
      BY <1>8, <2>1, <3>1 DEF TypeOK, Finish
  <2>3. QED
    BY <1>8, <2>2 DEF TypeOK, Finish, Go
<1>9. CASE UNCHANGED vars
  BY <1>9 DEF TypeOK, vars
<1>10. QED
  BY <1>1, <1>2, <1>3, <1>4, <1>5, <1>6, <1>7, <1>8, <1>9 DEF Next

\* Every step keeps the sum of a connection that is not closed.
LEMMA BankWireStep ==
    ASSUME BInv, [Next]_vars, NEW d \in Clients
    PROVE  OpenWire(d)'
<1> USE DEF BInv
<1>0. OpenWire(d)
  OBVIOUS
<1> SUFFICES ASSUME todo'[d] >= 0
             PROVE  /\ applied'[d] + Len(wire'[d]) + todo'[d] = Times[d]
                    /\ \A i \in 1 .. Len(wire'[d]) : wire'[d][i] = "operation"
  BY DEF OpenWire
<1>1. ASSUME NEW c \in Clients, Send(c) PROVE OpenWire(d)'
  <2>1. wire[c] \in Seq({"operation", "exit"})
    BY DEF TypeOK
  <2>2. CASE d = c
    <3>1. wire'[d] = Append(wire[d], "operation") /\ todo'[d] = todo[d] - 1 /\ todo[d] > 0
          /\ applied'[d] = applied[d]
      BY <1>1, <2>2 DEF TypeOK, Send
    <3>2. Len(wire'[d]) = Len(wire[d]) + 1
      BY <2>1, <2>2, <3>1
    <3>3. todo[d] \in Int
      BY DEF TypeOK
    <3>4. todo[d] >= 0
      BY <3>1, <3>3
    <3>5. /\ applied[d] + Len(wire[d]) + todo[d] = Times[d]
          /\ \A i \in 1 .. Len(wire[d]) : wire[d][i] = "operation"
      BY <1>0, <3>4 DEF OpenWire
    <3>6. \A i \in 1 .. Len(wire'[d]) : wire'[d][i] = "operation"
      BY <2>1, <2>2, <3>1, <3>2, <3>5
    <3>7. todo[d] \in Int /\ applied[d] \in Nat /\ Len(wire[d]) \in Nat
      BY <2>1, <2>2 DEF TypeOK
    <3>8. todo'[d] = todo[d] - 1 /\ applied'[d] = applied[d]
      BY <3>1
    <3>9. applied'[d] + Len(wire'[d]) + todo'[d] = Times[d]
      BY <3>2, <3>5, <3>7, <3>8
    <3>10. QED
      BY <3>6, <3>9 DEF OpenWire
  <2>3. CASE d # c
    BY <1>0, <1>1, <2>3 DEF OpenWire, TypeOK, Send
  <2>4. QED
    BY <2>2, <2>3
<1>2. ASSUME NEW c \in Clients, Close(c) PROVE OpenWire(d)'
  <2>1. d # c
    BY <1>2 DEF TypeOK, Close
  <2>2. QED
    BY <1>0, <1>2, <2>1 DEF OpenWire, TypeOK, Close
<1>3. ASSUME NEW c \in Clients, Accept(c) PROVE OpenWire(d)'
  BY <1>0, <1>3 DEF OpenWire, Accept
<1>4. ASSUME NEW t \in Clients, Start(t) PROVE OpenWire(d)'
  BY <1>0, <1>4 DEF OpenWire, Start
<1>5. ASSUME NEW t \in Clients, RecvOperation(t) PROVE OpenWire(d)'
  <2>1. sock[t] \in Clients
    BY <1>5 DEF TypeOK, RecvOperation
  <2>2. CASE sock[t] = d
    <3>1. wire[d] \in Seq({"operation", "exit"}) /\ wire[d] # <<>>
      BY <1>5, <2>2 DEF TypeOK, RecvOperation
    <3>2. wire'[d] = Tail(wire[d]) /\ applied'[d] = applied[d] + 1 /\ todo'[d] = todo[d]
      BY <1>5, <2>2 DEF TypeOK, RecvOperation
    <3>3. /\ Len(wire'[d]) = Len(wire[d]) - 1
          /\ \A i \in 1 .. Len(wire'[d]) : wire'[d][i] = wire[d][i + 1]
      BY <3>1, <3>2
    <3>4. /\ applied[d] + Len(wire[d]) + todo[d] = Times[d]
          /\ \A i \in 1 .. Len(wire[d]) : wire[d][i] = "operation"
      BY <1>0, <3>2 DEF OpenWire
    <3>5. todo[d] \in Int /\ applied[d] \in Nat /\ Len(wire[d]) \in Nat
      <4>1. todo[d] \in Nat \cup {-1} /\ applied[d] \in Nat
        BY DEF TypeOK
      <4> QED
        BY <3>1, <4>1
    <3>6. todo'[d] >= 0 => applied'[d] + Len(wire'[d]) + todo'[d] = Times[d]
      BY <3>2, <3>3, <3>4, <3>5
    <3>7. \A i \in 1 .. Len(wire'[d]) : wire'[d][i] = "operation"
      <4> SUFFICES ASSUME NEW i \in 1 .. Len(wire'[d]) PROVE wire'[d][i] = "operation"
        OBVIOUS
      <4>1. i + 1 \in 1 .. Len(wire[d])
        BY <3>3, <3>5
      <4> QED
        BY <3>3, <3>4, <4>1
    <3>8. QED
      BY <3>6, <3>7 DEF OpenWire
  <2>3. CASE sock[t] # d
    BY <1>0, <1>5, <2>1, <2>3 DEF OpenWire, TypeOK, RecvOperation
  <2>4. QED
    BY <2>2, <2>3
<1>6. ASSUME NEW t \in Clients, Load(t) PROVE OpenWire(d)'
  BY <1>0, <1>6 DEF OpenWire, Load
<1>7. ASSUME NEW t \in Clients, SaveMoney(t) PROVE OpenWire(d)'
  BY <1>0, <1>7 DEF OpenWire, SaveMoney
<1>8. ASSUME NEW t \in Clients, Finish(t) PROVE OpenWire(d)'
  <2>1. todo[d] >= 0
    BY <1>8 DEF Finish
  <2>2. sock[t] # d \/ wire' = wire
    <3>1. ASSUME sock[t] = d, wire[d] # <<>>, Head(wire[d]) = "exit" PROVE FALSE
      <4>1. wire[d] \in Seq({"operation", "exit"})
        BY DEF TypeOK
      <4>2. 1 \in 1 .. Len(wire[d]) /\ wire[d][1] = "exit"
        BY <3>1, <4>1
      <4>3. QED
        BY <1>0, <2>1, <4>2 DEF OpenWire
    <3>2. QED
      BY <1>8, <3>1 DEF Finish
  <2>3. wire'[d] = wire[d]
    BY <1>8, <2>2 DEF TypeOK, Finish
  <2>4. QED
    BY <1>0, <1>8, <2>3 DEF OpenWire, Finish
<1>9. CASE UNCHANGED vars
  BY <1>0, <1>9 DEF OpenWire, vars
<1>10. QED
  BY <1>1, <1>2, <1>3, <1>4, <1>5, <1>6, <1>7, <1>8, <1>9 DEF Next, OpenWire

\* BInv holds in every reachable state.
LEMMA BankInductive == Spec => []BInv
<1>1. Init => BInv
  BY BankInitInv
<1>2. BInv /\ [Next]_vars => BInv'
  BY BankTypeStep, BankWireStep DEF BInv
<1>3. QED
  BY <1>1, <1>2, PTL DEF Spec

-----------------------------------------------------------------------------
(* The balance.  An operation that was received and has not read the       *)
(* balance yet can still add its whole amount to it; one that has read it  *)
(* will write back what it read plus its amount.  Neither may lead beyond  *)
(* what was deposited, or below what was withdrawn.                        *)

Gain(x) == IF x > 0 THEN x ELSE 0
Loss(x) == IF x < 0 THEN x ELSE 0

Gains == [t \in Clients |-> IF pc[t] = "load" THEN Gain(money[t]) ELSE 0]
Losses == [t \in Clients |-> IF pc[t] = "load" THEN Loss(money[t]) ELSE 0]
WaitingGains == SumFunctionOnSet(Gains, Clients)
WaitingLosses == SumFunctionOnSet(Losses, Clients)

Funded ==
    /\ my_money_now + WaitingGains <= Total(Depositors)
    /\ my_money_now + WaitingLosses >= Total(Withdrawers)
    /\ \A t \in Clients : pc[t] = "store" =>
           /\ reg[t] + Gain(money[t]) + WaitingGains <= Total(Depositors)
           /\ reg[t] + Loss(money[t]) + WaitingLosses >= Total(Withdrawers)

\* The clients of each kind, and their sums, are what they should be.
LEMMA SumsTyped ==
    ASSUME TypeOK
    PROVE  /\ Depositors \in SUBSET Clients /\ Withdrawers \in SUBSET Clients
           /\ IsFiniteSet(Depositors) /\ IsFiniteSet(Withdrawers)
           /\ \A c \in Clients : /\ Gains[c] \in Int /\ Gains[c] >= 0
                                 /\ Losses[c] \in Int /\ Losses[c] <= 0
                                 /\ Moved[c] \in Int
           /\ WaitingGains \in Int /\ WaitingLosses \in Int
           /\ Total(Depositors) \in Int /\ Total(Withdrawers) \in Int
<1>1. Depositors \in SUBSET Clients /\ Withdrawers \in SUBSET Clients
  BY DEF Depositors, Withdrawers
<1>2. IsFiniteSet(Depositors) /\ IsFiniteSet(Withdrawers)
  BY <1>1, FS_Subset
<1>3. \A c \in Clients : /\ Gains[c] \in Int /\ Gains[c] >= 0
                         /\ Losses[c] \in Int /\ Losses[c] <= 0
  BY DEF TypeOK, Gains, Losses, Gain, Loss
<1>4. ASSUME NEW c \in Clients PROVE Moved[c] \in Int
  <2>1. applied[c] \in Int /\ Amount[c] \in Int
    BY DEF TypeOK
  <2>2. QED
    BY <2>1 DEF Moved
<1>5. WaitingGains \in Int /\ WaitingLosses \in Int
  BY <1>3, SumIsInt DEF WaitingGains, WaitingLosses
<1>6. Total(Depositors) \in Int /\ Total(Withdrawers) \in Int
  BY <1>1, <1>4, SumsAreInt DEF Total
<1>7. QED
  BY <1>1, <1>2, <1>3, <1>4, <1>5, <1>6

\* What is waiting depends on the threads that are about to read the balance,
LEMMA WaitingStay ==
    ASSUME TypeOK, UNCHANGED money,
           \A t \in Clients : pc'[t] = "load" <=> pc[t] = "load"
    PROVE  UNCHANGED <<WaitingGains, WaitingLosses>>
<1>1. Gains' = Gains /\ Losses' = Losses
  BY DEF Gains, Losses
<1>2. QED
  BY <1>1 DEF WaitingGains, WaitingLosses

\* and changes by what the thread t brings or takes.
LEMMA WaitingChange ==
    ASSUME TypeOK, TypeOK', NEW t \in Clients,
           \A u \in Clients \ {t} : /\ money'[u] = money[u]
                                    /\ pc'[u] = "load" <=> pc[u] = "load"
    PROVE  /\ WaitingGains' = WaitingGains + (Gains'[t] - Gains[t])
           /\ WaitingLosses' = WaitingLosses + (Losses'[t] - Losses[t])
<1>1. \A u \in Clients \ {t} : Gains'[u] = Gains[u] /\ Losses'[u] = Losses[u]
  BY DEF Gains, Losses
<1>2. \A u \in Clients : Gains[u] \in Int /\ Losses[u] \in Int
  BY SumsTyped
<1>3. Gains'[t] \in Int /\ Losses'[t] \in Int
  BY DEF TypeOK, Gains, Losses, Gain, Loss
<1>4. WaitingGains' = WaitingGains + (Gains'[t] - Gains[t])
  BY <1>1, <1>2, <1>3, SumChange DEF WaitingGains
<1>5. WaitingLosses' = WaitingLosses + (Losses'[t] - Losses[t])
  BY <1>1, <1>2, <1>3, SumChange DEF WaitingLosses
<1>6. QED
  BY <1>4, <1>5

\* An operation of s adds its amount to the total of its kind.
LEMMA TotalChange ==
    ASSUME TypeOK, NEW s \in Clients, applied' = [applied EXCEPT ![s] = @ + 1]
    PROVE  /\ Total(Depositors)' = Total(Depositors) + Gain(Amount[s])
           /\ Total(Withdrawers)' = Total(Withdrawers) + Loss(Amount[s])
<1>1. \A c \in Clients \ {s} : Moved'[c] = Moved[c]
  BY DEF TypeOK, Moved
<1>2. Moved'[s] = Moved[s] + Amount[s]
  <2>1. applied[s] \in Int /\ Amount[s] \in Int /\ applied'[s] = applied[s] + 1
    BY DEF TypeOK
  <2>2. (applied[s] + 1) * Amount[s] = applied[s] * Amount[s] + Amount[s]
    BY <2>1
  <2>3. QED
    BY <2>1, <2>2 DEF Moved
<1>3. \A c \in Clients : Moved[c] \in Int
  BY SumsTyped
<1>4. Amount[s] \in Int
  OBVIOUS
<1>5. ASSUME NEW S \in SUBSET Clients
      PROVE  Total(S)' = Total(S) + (IF s \in S THEN Amount[s] ELSE 0)
  <2>1. IsFiniteSet(S)
    BY FS_Subset
  <2>2. Total(S) \in Int
    BY <1>3, SumsAreInt DEF Total
  <2>3. CASE s \in S
    <3>1. Moved'[s] \in Int
      BY <1>2, <1>3, <1>4
    <3>2. Total(S)' = Total(S) + (Moved'[s] - Moved[s])
      BY <1>1, <1>3, <2>1, <2>3, <3>1, SumChange DEF Total
    <3>3. QED
      BY <1>2, <1>3, <1>4, <2>2, <2>3, <3>2
  <2>4. CASE s \notin S
    <3>1. Total(S)' = Total(S)
      BY <1>1, <2>1, <2>4, SumSame DEF Total
    <3>2. QED
      BY <2>2, <2>4, <3>1
  <2>5. QED
    BY <2>3, <2>4
<1>6. /\ Total(Depositors)' = Total(Depositors) + (IF s \in Depositors THEN Amount[s] ELSE 0)
      /\ Total(Withdrawers)' = Total(Withdrawers) + (IF s \in Withdrawers THEN Amount[s] ELSE 0)
  <2>1. Depositors \in SUBSET Clients /\ Withdrawers \in SUBSET Clients
    BY SumsTyped
  <2>2. Depositors' = Depositors /\ Withdrawers' = Withdrawers
    BY DEF Depositors, Withdrawers
  <2>3. QED
    BY <1>5, <2>1, <2>2
<1>7. /\ (IF s \in Depositors THEN Amount[s] ELSE 0) = Gain(Amount[s])
      /\ (IF s \in Withdrawers THEN Amount[s] ELSE 0) = Loss(Amount[s])
  BY <1>4 DEF Depositors, Withdrawers, Gain, Loss
<1>8. QED
  BY <1>6, <1>7

\* A step that touches no amount and no balance keeps Funded.
LEMMA FundedStay ==
    ASSUME TypeOK, Funded, UNCHANGED <<my_money_now, money, reg, applied>>,
           \A t \in Clients : /\ pc'[t] = "load" <=> pc[t] = "load"
                              /\ pc'[t] = "store" => pc[t] = "store"
    PROVE  Funded'
<1>1. UNCHANGED <<WaitingGains, WaitingLosses>>
  BY WaitingStay
<1>2. Total(Depositors)' = Total(Depositors) /\ Total(Withdrawers)' = Total(Withdrawers)
  BY DEF Total, Moved, Depositors, Withdrawers
<1>3. QED
  BY <1>1, <1>2 DEF Funded

\* Every step keeps Funded.
LEMMA BankFundedStep ==
    ASSUME TypeOK, TypeOK', Funded, [Next]_vars
    PROVE  Funded'
<1> DEFINE D == Total(Depositors)
           W == Total(Withdrawers)
<1>0. /\ D \in Int /\ W \in Int /\ WaitingGains \in Int /\ WaitingLosses \in Int
      /\ my_money_now \in Int
      /\ \A t \in Clients : /\ reg[t] \in Int /\ money[t] \in Int
                            /\ Gain(money[t]) \in Int /\ Loss(money[t]) \in Int
                            /\ Gain(money[t]) >= 0 /\ Loss(money[t]) <= 0
                            /\ money[t] <= Gain(money[t]) /\ Loss(money[t]) <= money[t]
  <2>1. my_money_now \in Int /\ \A t \in Clients : reg[t] \in Int /\ money[t] \in Int
    BY DEF TypeOK
  <2>2. ASSUME NEW x \in Int
        PROVE  /\ Gain(x) \in Int /\ Loss(x) \in Int /\ Gain(x) >= 0 /\ Loss(x) <= 0
               /\ x <= Gain(x) /\ Loss(x) <= x
    BY DEF Gain, Loss
  <2>3. QED
    BY <2>1, <2>2, SumsTyped
<1>1. ASSUME NEW c \in Clients, Send(c) PROVE Funded'
  BY <1>1, FundedStay DEF Send
<1>2. ASSUME NEW c \in Clients, Close(c) PROVE Funded'
  BY <1>2, FundedStay DEF Close
<1>3. ASSUME NEW c \in Clients, Accept(c) PROVE Funded'
  BY <1>3, FundedStay DEF TypeOK, Accept, Go
<1>4. ASSUME NEW t \in Clients, Start(t) PROVE Funded'
  BY <1>4, FundedStay DEF TypeOK, Start, Go
<1>5. ASSUME NEW t \in Clients, RecvOperation(t) PROVE Funded'
  <2> DEFINE a == Amount[sock[t]]
  <2>1. sock[t] \in Clients /\ a \in Int
    BY <1>5 DEF TypeOK, RecvOperation
  <2>2. /\ money'[t] = a /\ pc[t] = "recv" /\ pc'[t] = "load"
        /\ my_money_now' = my_money_now /\ reg' = reg
        /\ \A u \in Clients \ {t} : money'[u] = money[u] /\ pc'[u] = pc[u]
    BY <1>5 DEF TypeOK, RecvOperation, Go
  <2>3. D' = D + Gain(a) /\ W' = W + Loss(a)
    BY <1>5, <2>1, TotalChange DEF RecvOperation
  <2>4. Gains[t] = 0 /\ Losses[t] = 0 /\ Gains'[t] = Gain(a) /\ Losses'[t] = Loss(a)
    BY <2>2 DEF Gains, Losses
  <2>5. /\ WaitingGains' = WaitingGains + (Gains'[t] - Gains[t])
        /\ WaitingLosses' = WaitingLosses + (Losses'[t] - Losses[t])
    BY <2>2, WaitingChange
  <2>6. Gain(a) \in Int /\ Loss(a) \in Int
    BY <2>1 DEF Gain, Loss
  <2>7. WaitingGains' = WaitingGains + Gain(a) /\ WaitingLosses' = WaitingLosses + Loss(a)
    BY <1>0, <2>4, <2>5, <2>6
  <2> HIDE DEF a, D, W
  <2>8. /\ my_money_now' + WaitingGains' <= D'
        /\ my_money_now' + WaitingLosses' >= W'
    BY <1>0, <2>2, <2>3, <2>6, <2>7 DEF Funded, D, W
  <2>9. ASSUME NEW u \in Clients, pc'[u] = "store"
        PROVE  /\ reg'[u] + Gain(money'[u]) + WaitingGains' <= D'
               /\ reg'[u] + Loss(money'[u]) + WaitingLosses' >= W'
    <3>1. pc[u] = "store" /\ money'[u] = money[u] /\ reg'[u] = reg[u]
      BY <2>2, <2>9
    <3>2. /\ reg[u] + Gain(money[u]) + WaitingGains <= D
          /\ reg[u] + Loss(money[u]) + WaitingLosses >= W
      BY <3>1 DEF Funded, D, W
    <3>3. QED
      BY <1>0, <2>3, <2>6, <2>7, <3>1, <3>2
  <2>10. QED
    BY <2>8, <2>9 DEF Funded, D, W
<1>6. ASSUME NEW t \in Clients, Load(t) PROVE Funded'
  <2>1. /\ pc[t] = "load" /\ pc'[t] = "store" /\ reg'[t] = my_money_now
        /\ my_money_now' = my_money_now /\ money' = money /\ applied' = applied
        /\ \A u \in Clients \ {t} : reg'[u] = reg[u] /\ pc'[u] = pc[u]
    BY <1>6 DEF TypeOK, Load, Go
  <2>2. D' = D /\ W' = W
    BY <2>1 DEF Total, Moved, Depositors, Withdrawers
  <2>3. Gains[t] = Gain(money[t]) /\ Losses[t] = Loss(money[t]) /\ Gains'[t] = 0 /\ Losses'[t] = 0
    BY <2>1 DEF Gains, Losses
  <2>4. /\ WaitingGains' = WaitingGains + (Gains'[t] - Gains[t])
        /\ WaitingLosses' = WaitingLosses + (Losses'[t] - Losses[t])
    BY <2>1, WaitingChange
  <2>5. /\ WaitingGains' = WaitingGains - Gain(money[t])
        /\ WaitingLosses' = WaitingLosses - Loss(money[t])
    BY <1>0, <2>3, <2>4
  <2>6. my_money_now + WaitingGains <= D /\ my_money_now + WaitingLosses >= W
    BY DEF Funded
  <2> HIDE DEF D, W
  <2>7. /\ my_money_now' + WaitingGains' <= D'
        /\ my_money_now' + WaitingLosses' >= W'
    BY <1>0, <2>1, <2>2, <2>5, <2>6
  <2>8. ASSUME NEW u \in Clients, pc'[u] = "store"
        PROVE  /\ reg'[u] + Gain(money'[u]) + WaitingGains' <= D'
               /\ reg'[u] + Loss(money'[u]) + WaitingLosses' >= W'
    <3>1. CASE u = t
      BY <1>0, <2>1, <2>2, <2>5, <2>6, <3>1
    <3>2. CASE u # t
      <4>1. /\ reg[u] + Gain(money[u]) + WaitingGains <= D
            /\ reg[u] + Loss(money[u]) + WaitingLosses >= W
        BY <2>1, <2>8, <3>2 DEF Funded, D, W
      <4>2. money'[u] = money[u] /\ reg'[u] = reg[u]
        BY <2>1, <3>2
      <4>3. QED
        BY <1>0, <2>2, <2>5, <4>1, <4>2
    <3>3. QED
      BY <3>1, <3>2
  <2>9. QED
    BY <2>7, <2>8 DEF Funded, D, W
<1>7. ASSUME NEW t \in Clients, SaveMoney(t) PROVE Funded'
  <2>1. /\ pc[t] = "store" /\ pc'[t] = "recv" /\ reg' = reg
        /\ my_money_now' = reg[t] + money[t] /\ money' = money /\ applied' = applied
        /\ \A u \in Clients \ {t} : pc'[u] = pc[u]
    BY <1>7 DEF TypeOK, SaveMoney, Go
  <2>2. D' = D /\ W' = W
    BY <2>1 DEF Total, Moved, Depositors, Withdrawers
  <2>3. WaitingGains' = WaitingGains /\ WaitingLosses' = WaitingLosses
    BY <2>1, WaitingStay
  <2>4. /\ reg[t] + Gain(money[t]) + WaitingGains <= D
        /\ reg[t] + Loss(money[t]) + WaitingLosses >= W
    BY <2>1 DEF Funded
  <2> HIDE DEF D, W
  <2>5. /\ my_money_now' + WaitingGains' <= D'
        /\ my_money_now' + WaitingLosses' >= W'
    BY <1>0, <2>1, <2>2, <2>3, <2>4
  <2>6. ASSUME NEW u \in Clients, pc'[u] = "store"
        PROVE  /\ reg'[u] + Gain(money'[u]) + WaitingGains' <= D'
               /\ reg'[u] + Loss(money'[u]) + WaitingLosses' >= W'
    BY <2>1, <2>2, <2>3, <2>6 DEF Funded, D, W
  <2>7. QED
    BY <2>5, <2>6 DEF Funded, D, W
<1>8. ASSUME NEW t \in Clients, Finish(t) PROVE Funded'
  BY <1>8, FundedStay DEF TypeOK, Finish, Go
<1>9. CASE UNCHANGED vars
  BY <1>9, FundedStay DEF vars
<1>10. QED
  BY <1>1, <1>2, <1>3, <1>4, <1>5, <1>6, <1>7, <1>8, <1>9 DEF Next

\* At the start there is no money, and nobody wants any.
LEMMA BankInitFunded == ASSUME Init, TypeOK PROVE Funded
<1>1. \A c \in Clients : Gains[c] = 0 /\ Losses[c] = 0 /\ Moved[c] = 0 /\ pc[c] = "off"
  BY DEF Init, Gains, Losses, Moved
<1>2. WaitingGains = 0 /\ WaitingLosses = 0
  BY <1>1, SumOfZeros DEF WaitingGains, WaitingLosses
<1>3. /\ Depositors \in SUBSET Clients /\ Withdrawers \in SUBSET Clients
      /\ IsFiniteSet(Depositors) /\ IsFiniteSet(Withdrawers)
  BY SumsTyped
<1>4. Total(Depositors) = 0 /\ Total(Withdrawers) = 0
  BY <1>1, <1>3, SumOfZeros DEF Total
<1>5. QED
  BY <1>1, <1>2, <1>4 DEF Init, Funded

-----------------------------------------------------------------------------
\* The variables of the bank keep their types, whichever connection a thread
\* has found in client_socket.
THEOREM BankTypeCorrect == Spec => []TypeOK
<1>1. BInv => TypeOK
  BY DEF BInv
<1>2. QED
  BY <1>1, BankInductive, PTL

\* No deposit or withdrawal is received twice or lost on the way, although the
\* threads of several clients may read one socket.
THEOREM BankReceivesOnce == Spec => []ReceivedOnce
<1>1. BInv => ReceivedOnce
  BY DEF BInv, OpenWire, ReceivedOnce
<1>2. QED
  BY <1>1, BankInductive, PTL

\* The balance never exceeds what was deposited, and never falls below what was
\* withdrawn: unlocked updates of my_money_now can lose operations, but not
\* invent money, for any number of threads and any amounts.
THEOREM BankBounded == Spec => []BalanceBounded
<1>1. Init => TypeOK /\ Funded
  BY BankInitInv, BankInitFunded DEF BInv
<1>2. TypeOK /\ Funded /\ [Next]_vars => TypeOK' /\ Funded'
  BY BankTypeStep, BankFundedStep
<1>3. TypeOK /\ Funded => BalanceBounded
  <2> SUFFICES ASSUME TypeOK, Funded PROVE BalanceBounded
    OBVIOUS
  <2>1. 0 <= WaitingGains /\ WaitingLosses <= 0
    <3> DEFINE zero == [c \in Clients |-> 0]
    <3>1. SumFunctionOnSet(zero, Clients) = 0
      BY SumOfZeros
    <3>2. \A c \in Clients : /\ zero[c] \in Int /\ Gains[c] \in Int /\ Losses[c] \in Int
                             /\ zero[c] <= Gains[c] /\ Losses[c] <= zero[c]
      BY SumsTyped
    <3> HIDE DEF zero
    <3>3. SumFunctionOnSet(zero, Clients) <= WaitingGains
      BY <3>2, SumMonotone DEF WaitingGains
    <3>4. WaitingLosses <= SumFunctionOnSet(zero, Clients)
      BY <3>2, SumMonotone DEF WaitingLosses
    <3>5. QED
      BY <3>1, <3>3, <3>4
  <2>2. /\ my_money_now \in Int /\ WaitingGains \in Int /\ WaitingLosses \in Int
        /\ Total(Depositors) \in Int /\ Total(Withdrawers) \in Int
    BY SumsTyped DEF TypeOK
  <2>3. QED
    BY <2>1, <2>2 DEF Funded, BalanceBounded
<1>4. QED
  BY <1>1, <1>2, <1>3, PTL DEF Spec

-----------------------------------------------------------------------------
(* What is missing is a lock around the update.  README:45 is right of     *)
(* every behaviour in which no two threads are between reading and writing *)
(* my_money_now at a time.                                                 *)

NoOverlap == \A t, u \in Clients : pc[t] = "store" /\ pc[u] = "store" => t = u

\* The operations received and not yet added to the balance.
Open == [t \in Clients |-> IF pc[t] \in {"load", "store"} THEN money[t] ELSE 0]

Balanced ==
    /\ my_money_now + SumFunctionOnSet(Open, Clients) = Total(Clients)
    /\ \A t \in Clients : pc[t] = "store" => reg[t] = my_money_now

\* An operation that is received, or added, opens or closes its amount.
LEMMA OpenChange ==
    ASSUME TypeOK, TypeOK', NEW t \in Clients,
           \A u \in Clients \ {t} : money'[u] = money[u] /\ pc'[u] = pc[u]
    PROVE  /\ \A u \in Clients : Open[u] \in Int /\ Open'[u] \in Int
           /\ SumFunctionOnSet(Open, Clients) \in Int
           /\ SumFunctionOnSet(Open, Clients)' =
                  SumFunctionOnSet(Open, Clients) + (Open'[t] - Open[t])
<1>1. \A u \in Clients : Open[u] \in Int /\ Open'[u] \in Int
  BY DEF TypeOK, Open
<1>2. \A u \in Clients \ {t} : Open'[u] = Open[u]
  BY DEF Open
<1>3. SumFunctionOnSet(Open, Clients) \in Int
  BY <1>1, SumIsInt
<1>4. SumFunctionOnSet(Open, Clients)' = SumFunctionOnSet(Open, Clients) + (Open'[t] - Open[t])
  BY <1>1, <1>2, SumChange
<1>5. QED
  BY <1>1, <1>3, <1>4

\* An operation of s adds its amount to the total of all clients.
LEMMA TotalOfAll ==
    ASSUME TypeOK, NEW s \in Clients, applied' = [applied EXCEPT ![s] = @ + 1]
    PROVE  /\ Total(Clients) \in Int
           /\ Total(Clients)' = Total(Clients) + Amount[s]
<1>1. \A c \in Clients \ {s} : Moved'[c] = Moved[c]
  BY DEF TypeOK, Moved
<1>2. Moved'[s] = Moved[s] + Amount[s]
  <2>1. applied[s] \in Int /\ Amount[s] \in Int /\ applied'[s] = applied[s] + 1
    BY DEF TypeOK
  <2>2. (applied[s] + 1) * Amount[s] = applied[s] * Amount[s] + Amount[s]
    BY <2>1
  <2>3. QED
    BY <2>1, <2>2 DEF Moved
<1>3. \A c \in Clients : Moved[c] \in Int
  BY SumsTyped
<1>4. Moved'[s] \in Int /\ Amount[s] \in Int
  BY <1>2, <1>3
<1>5. Total(Clients)' = Total(Clients) + (Moved'[s] - Moved[s])
  BY <1>1, <1>3, <1>4, SumChange DEF Total
<1>6. Total(Clients) \in Int
  BY <1>3, SumIsInt DEF Total
<1>7. QED
  BY <1>2, <1>3, <1>4, <1>5, <1>6

\* A step that opens and closes nothing keeps Balanced.
LEMMA BalancedStay ==
    ASSUME TypeOK, Balanced, UNCHANGED <<my_money_now, money, reg, applied>>,
           \A t \in Clients : /\ pc'[t] \in {"load", "store"} <=> pc[t] \in {"load", "store"}
                              /\ pc'[t] = "store" => pc[t] = "store"
    PROVE  Balanced'
<1>1. Open' = Open
  BY DEF Open
<1>2. Total(Clients)' = Total(Clients)
  BY DEF Total, Moved
<1>3. QED
  BY <1>1, <1>2 DEF Balanced

\* Every step from a state without an overlap keeps Balanced.
LEMMA BankBalancedStep ==
    ASSUME TypeOK, TypeOK', Balanced, NoOverlap, [Next]_vars
    PROVE  Balanced'
<1>0. my_money_now \in Int /\ \A t \in Clients : reg[t] \in Int /\ money[t] \in Int
  BY DEF TypeOK
<1>1. ASSUME NEW c \in Clients, Send(c) PROVE Balanced'
  BY <1>1, BalancedStay DEF Send
<1>2. ASSUME NEW c \in Clients, Close(c) PROVE Balanced'
  BY <1>2, BalancedStay DEF Close
<1>3. ASSUME NEW c \in Clients, Accept(c) PROVE Balanced'
  BY <1>3, BalancedStay DEF TypeOK, Accept, Go
<1>4. ASSUME NEW t \in Clients, Start(t) PROVE Balanced'
  BY <1>4, BalancedStay DEF TypeOK, Start, Go
<1>5. ASSUME NEW t \in Clients, RecvOperation(t) PROVE Balanced'
  <2> DEFINE a == Amount[sock[t]]
             o == SumFunctionOnSet(Open, Clients)
  <2>1. sock[t] \in Clients /\ a \in Int
    BY <1>5 DEF TypeOK, RecvOperation
  <2>2. /\ money'[t] = a /\ pc[t] = "recv" /\ pc'[t] = "load"
        /\ my_money_now' = my_money_now /\ reg' = reg
        /\ \A u \in Clients \ {t} : money'[u] = money[u] /\ pc'[u] = pc[u]
    BY <1>5 DEF TypeOK, RecvOperation, Go
  <2>3. Total(Clients) \in Int /\ Total(Clients)' = Total(Clients) + a
    BY <1>5, <2>1, TotalOfAll DEF RecvOperation
  <2>4. o \in Int /\ o' = o + (Open'[t] - Open[t])
    BY <2>2, OpenChange
  <2>5. Open[t] = 0 /\ Open'[t] = a
    BY <2>2 DEF Open
  <2>6. o' = o + a
    BY <2>1, <2>4, <2>5
  <2>7. my_money_now + o = Total(Clients)
    BY DEF Balanced
  <2> HIDE DEF a, o
  <2>8. my_money_now' + o' = Total(Clients)'
    BY <1>0, <2>1, <2>2, <2>3, <2>4, <2>6, <2>7
  <2>9. \A u \in Clients : pc'[u] = "store" => reg'[u] = my_money_now'
    BY <2>2 DEF Balanced
  <2>10. QED
    BY <2>8, <2>9 DEF Balanced, o
<1>6. ASSUME NEW t \in Clients, Load(t) PROVE Balanced'
  <2>1. /\ pc[t] = "load" /\ pc'[t] = "store" /\ reg'[t] = my_money_now
        /\ my_money_now' = my_money_now /\ money' = money /\ applied' = applied
        /\ \A u \in Clients \ {t} : reg'[u] = reg[u] /\ pc'[u] = pc[u]
    BY <1>6 DEF TypeOK, Load, Go
  <2>2. Open' = Open /\ Total(Clients)' = Total(Clients)
    BY <2>1 DEF Open, Total, Moved
  <2>3. QED
    BY <2>1, <2>2 DEF Balanced
<1>7. ASSUME NEW t \in Clients, SaveMoney(t) PROVE Balanced'
  <2> DEFINE o == SumFunctionOnSet(Open, Clients)
  <2>1. /\ pc[t] = "store" /\ pc'[t] = "recv" /\ reg' = reg
        /\ my_money_now' = reg[t] + money[t] /\ money' = money /\ applied' = applied
        /\ \A u \in Clients \ {t} : pc'[u] = pc[u]
    BY <1>7 DEF TypeOK, SaveMoney, Go
  <2>2. reg[t] = my_money_now /\ my_money_now + o = Total(Clients)
    BY <2>1 DEF Balanced
  <2>3. o \in Int /\ o' = o + (Open'[t] - Open[t])
    BY <2>1, OpenChange
  <2>4. Open[t] = money[t] /\ Open'[t] = 0
    BY <2>1 DEF Open
  <2>5. Total(Clients)' = Total(Clients)
    BY <2>1 DEF Total, Moved
  <2> HIDE DEF o
  <2>6. my_money_now' + o' = Total(Clients)'
    BY <1>0, <2>1, <2>2, <2>3, <2>4, <2>5
  <2>7. \A u \in Clients : pc'[u] # "store"
    BY <2>1 DEF NoOverlap
  <2>8. QED
    BY <2>6, <2>7 DEF Balanced, o
<1>8. ASSUME NEW t \in Clients, Finish(t) PROVE Balanced'
  BY <1>8, BalancedStay DEF TypeOK, Finish, Go
<1>9. CASE UNCHANGED vars
  BY <1>9, BalancedStay DEF vars
<1>10. QED
  BY <1>1, <1>2, <1>3, <1>4, <1>5, <1>6, <1>7, <1>8, <1>9 DEF Next

\* If no two threads update my_money_now at a time, then the balance is the sum
\* of all operations when every thread has ended (README:45): overlapping
\* updates are the only way in which the bank loses money.
THEOREM BankExactWithoutOverlap == Spec /\ []NoOverlap => []BalanceExact
<1>1. Init => TypeOK /\ Balanced
  <2> SUFFICES ASSUME Init PROVE TypeOK /\ Balanced
    OBVIOUS
  <2>1. TypeOK
    BY BankInitInv DEF BInv
  <2>2. \A c \in Clients : Open[c] = 0 /\ Moved[c] = 0 /\ pc[c] = "off"
    BY DEF Init, Open, Moved
  <2>3. SumFunctionOnSet(Open, Clients) = 0 /\ Total(Clients) = 0
    BY <2>2, SumOfZeros DEF Total
  <2>4. QED
    BY <2>1, <2>2, <2>3 DEF Init, Balanced
<1>2. TypeOK /\ Balanced /\ NoOverlap /\ [Next]_vars => TypeOK' /\ Balanced'
  BY BankTypeStep, BankBalancedStep
<1>3. TypeOK /\ Balanced => BalanceExact
  <2> SUFFICES ASSUME TypeOK, Balanced, \A c \in Clients : pc[c] = "done"
               PROVE  my_money_now = Total(Clients)
    BY DEF BalanceExact
  <2>1. \A c \in Clients : Open[c] = 0
    BY DEF Open
  <2>2. SumFunctionOnSet(Open, Clients) = 0
    BY <2>1, SumOfZeros
  <2>3. QED
    BY <2>2 DEF Balanced, TypeOK
<1>4. QED
  BY <1>1, <1>2, <1>3, PTL DEF Spec

=============================================================================
