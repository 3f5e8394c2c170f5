------------------------------ MODULE Receipts ------------------------------
(***************************************************************************)
(* The delivery events of one outbound letter (outbound/store.py): the     *)
(* numbered files in state/receipts/<letter id>/, and what reconcile()     *)
(* makes of them.                                                          *)
(*                                                                         *)
(* Of the files only two things are ever read: which events occurred and   *)
(* which was the last.  Recording is one step: the number of the next file *)
(* is the length of the listing, O_EXCL refuses a name that is taken, and  *)
(* two writers who picked one number for different events both succeed, in *)
(* either order.  The file and its directory are fsynced before anything   *)
(* follows from the event.                                                 *)
(***************************************************************************)

Event == {"composed", "sending", "sent", "refused", "ambiguous", "throttled",
          "dead"}

(* States nothing leads out of, and the one whose outcome is known without *)
(* being final.                                                            *)
TERMINAL == {"sent", "refused", "ambiguous", "dead"}
DEFERRED == {"throttled"}

History == [events : SUBSET Event, tail : Event \cup {"none"}]
NoHistory == [events |-> {}, tail |-> "none"]

(* record_event *)
Recorded(h, e) == [events |-> h.events \cup {e}, tail |-> e]

(* A slip that takes a letter for deferred if it was throttled ever.       *)
VerdictEver(h) ==
  IF h.tail = "none" THEN "none"
  ELSE IF h.events \cap TERMINAL # {} THEN "clean"
  ELSE IF h.events \cap DEFERRED # {} THEN "throttled"
  ELSE IF "sending" \in h.events THEN "ambiguous"
  ELSE "unsent"

(* reconcile: "clean" letters are not reported, "none" has no receipts.    *)
Verdict(h) ==
  IF h.tail = "none" THEN "none"
  ELSE IF h.events \cap TERMINAL # {} THEN "clean"
  ELSE IF h.tail \in DEFERRED THEN "throttled"
  ELSE IF "sending" \in h.events THEN "ambiguous"
  ELSE "unsent"
=============================================================================
