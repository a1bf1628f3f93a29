---------------------------------- MODULE Shop ----------------------------------
(***************************************************************************)
(* The single-client delivery server of HomeWork/312512032_eos_hw2/hw2.c:  *)
(* main() serves one connection after the other from the same variables.   *)
(* What an order is counted in is reset for every client; order_check is   *)
(* written over, never cleared, so a word longer than "order" makes the    *)
(* server deaf to all later orders.  Replies are not modelled.             *)
(***************************************************************************)
EXTENDS Integers

CONSTANTS
    Numbers,        \* the numbers in "order" messages, atoi() of the last word
    MaxMessages     \* bound on the orders of one client

ASSUME ShopAssumption == Numbers \subseteq Int /\ MaxMessages \in Nat

Shops == {3, 5, 8}                  \* named by their distance
Dishes == Shops \X {0, 1}
Cost == [d \in Dishes |->
            CASE d = <<3, 0>> -> 60  [] d = <<3, 1>> -> 80
              [] d = <<5, 0>> -> 40  [] d = <<5, 1>> -> 70
              [] d = <<8, 0>> -> 120 [] d = <<8, 1>> -> 50]

VARIABLES
    session,        \* "accept", "recv" or "deliver"
    flag,           \* the distance of the shop of the order, 0 without one
    price, order_num,
    long_word,      \* order_check holds more than "order"
    basket,         \* history: the dishes this client has been allowed
    messages        \* orders of this client, for the bound

shopVars == <<session, flag, price, order_num, long_word, basket, messages>>

NoDish == [d \in Dishes |-> 0]

ShopInit ==
    /\ session = "accept" /\ flag = 0 /\ price = 0
    /\ order_num = [i \in {0, 1} |-> 0]
    /\ long_word = FALSE /\ basket = NoDish /\ messages = 0

-----------------------------------------------------------------------------
\* Mutant: the dishes of the client before are not forgotten.
AcceptClient_KeepsNum ==
    /\ session = "accept" /\ session' = "recv"
    /\ flag' = 0 /\ price' = 0
    /\ basket' = NoDish /\ messages' = 0
    /\ UNCHANGED <<order_num, long_word>>

AcceptClient ==
    /\ session = "accept" /\ session' = "recv"
    /\ flag' = 0 /\ price' = 0 /\ order_num' = [i \in {0, 1} |-> 0]
    /\ basket' = NoDish /\ messages' = 0
    /\ UNCHANGED long_word

\* "order" of n dishes d: the first dish fixes the shop, and dishes of other
\* shops are ignored.
OrderDish(d, n) ==
    /\ session = "recv" /\ long_word = FALSE /\ messages < MaxMessages
    /\ flag \in {0, d[1]}
    /\ flag' = d[1]
    /\ order_num' = [order_num EXCEPT ![d[2]] = @ + n]
    /\ price' = Cost[<<d[1], 0>>] * order_num'[0] + Cost[<<d[1], 1>>] * order_num'[1]
    /\ basket' = [basket EXCEPT ![d] = @ + n]
    /\ messages' = messages + 1
    /\ UNCHANGED <<session, long_word>>

\* Any other message whose first word has more than five letters.
LongWord ==
    /\ session = "recv"
    /\ long_word' = TRUE
    /\ UNCHANGED <<session, flag, price, order_num, basket, messages>>

ConfirmBill ==
    /\ session = "recv" /\ price # 0
    /\ session' = "deliver"
    /\ UNCHANGED <<flag, price, order_num, long_word, basket, messages>>

\* sleep(flag) is over, "cancel", or the client has closed.
Part ==
    /\ session \in {"recv", "deliver"}
    /\ session' = "accept"
    /\ UNCHANGED <<flag, price, order_num, long_word, basket, messages>>

-----------------------------------------------------------------------------
ShopNext ==
    \/ AcceptClient \/ LongWord \/ ConfirmBill \/ Part
    \/ \E d \in Dishes, n \in Numbers : OrderDish(d, n)

ShopSpec == ShopInit /\ [][ShopNext]_shopVars

-----------------------------------------------------------------------------
(* Properties.                                                             *)

ShopTypeOK ==
    /\ session \in {"accept", "recv", "deliver"}
    /\ flag \in Shops \cup {0} /\ price \in Int
    /\ order_num \in [{0, 1} -> Int] /\ basket \in [Dishes -> Int]
    /\ long_word \in BOOLEAN /\ messages \in 0 .. MaxMessages

\* Every client pays for its own dishes, all of one shop, at the prices of that
\* shop, although the counters are those of the client before and know only
\* the place of a dish in its shop.
BillIsBasket ==
    \A s \in Shops :
        /\ s # flag => basket[<<s, 0>>] = 0 /\ basket[<<s, 1>>] = 0
        /\ s = flag => price = Cost[<<s, 0>>] * basket[<<s, 0>>]
                                 + Cost[<<s, 1>>] * basket[<<s, 1>>]

=============================================================================
