--------------------------- MODULE MCDeliveryPass ---------------------------
(* Three accounts, pages of one, two goroutines. *)
EXTENDS DeliveryPass, TLC

=============================================================================
