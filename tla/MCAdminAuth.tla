---------------------------- MODULE MCAdminAuth ----------------------------
(* Two requests at a time from two addresses, of which one fits the table. *)
EXTENDS AdminAuth

MCMaxRequests == [lock |-> 0, bearer |-> 0, factor |-> 4, cap |-> 5]
MCMaxLogins == [lock |-> 1, bearer |-> 0, factor |-> 3, cap |-> 3]
=============================================================================
