------------------------------ MODULE FlashSale ------------------------------
(***************************************************************************)
(* What the backend promises of the stock, whatever runs concurrently and  *)
(* whatever fails: units leave it only by sales, one order at a time, each *)
(* of exactly the quantity ordered and covered by the stock at that very   *)
(* moment; nothing but a sale or an administrator changes it.              *)
(***************************************************************************)
EXTENDS Integers

CONSTANTS
    Requests, Products, InitialStock, AdminStock,
    Carts,     \* what an order may ask for: a product and a quantity of it
    Resell     \* whether an order may be sold more than once

VARIABLES
    cart,      \* what each order asks for
    stock,     \* units left of each product
    debits     \* how often each order was sold

saleVars == <<cart, stock, debits>>

SaleInit ==
    /\ cart \in [Requests -> Carts]
    /\ stock \in [Products -> InitialStock \cup {0}]
    /\ debits = [o \in Requests |-> 0]

Sell(o) ==
    LET p == cart[o].product
        q == cart[o].quantity
    IN  /\ debits[o] = 0 \/ Resell
        /\ stock[p] >= q
        /\ stock' = [stock EXCEPT ![p] = @ - q]
        /\ debits' = [debits EXCEPT ![o] = @ + 1]
        /\ UNCHANGED cart

Restock(p, s) ==
    /\ stock' = [stock EXCEPT ![p] = s]
    /\ UNCHANGED <<cart, debits>>

SaleNext ==
    \/ \E o \in Requests : Sell(o)
    \/ \E p \in Products, s \in AdminStock : Restock(p, s)

SaleSpec == SaleInit /\ [][SaleNext]_saleVars
==============================================================================
