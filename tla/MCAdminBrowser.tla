---------------------------- MODULE MCAdminBrowser ----------------------------
(* One tab in which the user logs in and out, and one left open. *)
EXTENDS AdminBrowser

CONSTANTS t1, t2

OneClicksOneReads == {<<t1, "click">>, <<t2, "read">>}

=============================================================================
