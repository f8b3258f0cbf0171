-------------------------- MODULE NoraI2CCallbacks --------------------------
(***************************************************************************)
(* What the slave engine promises the application behind its callbacks, in *)
(* terms of nothing but the callbacks: which one may be called when.       *)
(* NoraI2CSlave implements it.                                             *)
(*                                                                         *)
(* It does not promise an on_stop() for every transaction: the next        *)
(* on_addr_match() may come without one, after a repeated START or when    *)
(* the vector is slower than a STOP and a START.                           *)
(***************************************************************************)
VARIABLES
  loose,     \* fixed: the bus does not wait for the vector
  open,      \* the transaction the application is in: "closed", "w" or "r"
  calling    \* the callback being made

vars == <<loose, open, calling>>

Callbacks == {"on_addr_match", "on_rx_byte", "on_tx_byte", "on_stop"}

(* A byte is given to a transaction the master writes in and asked for in  *)
(* one it reads in; a transaction ends once, unless the bus runs ahead.    *)
May(callback, transaction) ==
  CASE callback = "on_addr_match" -> TRUE
    [] callback = "on_rx_byte" -> transaction = "w"
    [] callback = "on_tx_byte" -> transaction = "r"
    [] OTHER -> transaction # "closed" \/ loose

Init == loose \in BOOLEAN /\ open = "closed" /\ calling = "none"

Enter ==
  /\ calling = "none"
  /\ \E callback \in Callbacks : May(callback, open) /\ calling' = callback
  /\ UNCHANGED <<loose, open>>

(* The end of a callback.  A read is asked for its first byte right away.  *)
Leave ==
  /\ calling # "none"
  /\ CASE calling = "on_addr_match" ->
            \/ open' = "w" /\ calling' = "none"
            \/ open' = "r" /\ calling' = "on_tx_byte"
       [] calling = "on_stop" -> open' = "closed" /\ calling' = "none"
       [] OTHER -> open' = open /\ calling' = "none"
  /\ UNCHANGED loose

Next == Enter \/ Leave

Spec == Init /\ [][Next]_vars
=============================================================================
