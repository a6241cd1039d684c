--------------------------- MODULE MCCertificates ---------------------------
(* Values for the constants of Certificates. *)
EXTENDS Certificates

CONSTANTS first, fresh, synced, timer, request

(* An ACME certificate, renewed automatically, whose renewal date an older *)
(* version of the program has not computed; it is edited, renewed and      *)
(* deleted, and another is issued.                                         *)
WithACME ==
  [stored |-> <<[id |-> first, source |-> "acme", terms |-> "http", autoRenew |-> TRUE,
                 status |-> "valid", expires |-> 1, renewAt |-> None]>>,
   fresh |-> {fresh}, terms |-> {"http", "manual"},
   operations |-> {"CreateACME", "Update", "Renew", "Delete"},
   bindable |-> {}, lists |-> {Unreadable}, maxIssued |-> 2, maxCrashes |-> 1]

(* An imported certificate, and an external list that comes and goes. *)
WithList ==
  [stored |-> <<[id |-> first, source |-> "imported", terms |-> "http", autoRenew |-> FALSE,
                 status |-> "valid", expires |-> 1, renewAt |-> None]>>,
   fresh |-> {fresh}, terms |-> {"http"},
   operations |-> {"Import", "GenerateSelfSigned", "Update", "Delete"},
   bindable |-> {synced}, lists |-> {Unreadable, {}, {synced}}, maxIssued |-> 3, maxCrashes |-> 0]

Both == {WithACME, WithList}

(* Nothing but the timer: the certificate is due again and again. *)
Unattended == {[WithACME EXCEPT !.operations = {}, !.maxIssued = 3, !.maxCrashes = 0]}

(* A certificate for two domains, whose records the user adds. *)
ByHand == {[WithACME EXCEPT !.operations = {"CreateACME"}, !.terms = {"manual"}]}

(* A certificate of the external list, bound to services; the list changes. *)
Listing ==
  {[WithList EXCEPT !.stored = <<[@[1] EXCEPT !.id = synced, !.source = "file_sync"]>>,
                    !.fresh = {}, !.operations = {}, !.lists = {{}, {synced}}]}
=============================================================================
