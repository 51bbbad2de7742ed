--------------------------- MODULE RedactedTranscript ---------------------------
(* What Wayang promises about text that is removed from a transcript.  It   *)
(* is removed while the search index serves nothing of the session, and     *)
(* nothing that may hold it is served again.  A pledge comes before the     *)
(* rewrite, and stays until the row of the catalog is clean and the index   *)
(* derived from what is left; that of a deletion until the file is gone.    *)
EXTENDS Naturals

VARIABLES row,      \* the session in the catalog: none yet, kept or deleted
          text,     \* version of the transcript, or 0: none
          removed,  \* version of the last removal
          derived,  \* version that the row was derived from, or 0: none
          body,     \* version of the transcript that is served, or 0
          title,    \* version of the row that is served, or 0
          pledge    \* none, open, owed after a removal, or unlink

promise == <<row, text, removed, derived, body, title, pledge>>

Init ==
  /\ row \in {"none", "kept"} /\ text = 1 /\ removed = 0
  /\ derived = (IF row = "kept" THEN 1 ELSE 0)
  /\ body = 0 /\ title = 0 /\ pledge = "none"

Less == body' \in {0, body} /\ title' \in {0, title}

Find ==
  /\ row = "none" /\ text # 0
  /\ row' = "kept" /\ derived' = 0
  /\ UNCHANGED <<text, removed, body, title, pledge>>

Append ==
  /\ text # 0 /\ text' = text + 1
  /\ UNCHANGED <<row, removed, derived, body, title, pledge>>

(* Derived from what was left, or empty.                                   *)
Clean(v) == v = 0 \/ v >= removed

(* Only under a pledge may the row hold what was removed.                  *)
Derive ==
  /\ row = "kept"
  /\ derived' \in Nat
  /\ Clean(derived') \/ pledge \in {"open", "owed"}
  /\ Less /\ UNCHANGED <<row, text, removed, pledge>>

Serve ==
  /\ row = "kept"
  /\ body' \in {0, body, text} /\ title' \in {0, title, derived}
  /\ Clean(body') /\ Clean(title')
  /\ UNCHANGED <<row, text, removed, derived, pledge>>

Hide == Less /\ UNCHANGED <<row, text, removed, derived, pledge>>

Pledge ==
  /\ row = "kept" /\ pledge = "none" /\ pledge' = "open"
  /\ Less /\ UNCHANGED <<row, text, removed, derived>>

Redact ==
  /\ row = "kept" /\ pledge = "open" /\ body = 0 /\ title = 0
  /\ text' = text + 1 /\ removed' = text' /\ pledge' = "owed"
  /\ UNCHANGED <<row, derived, body, title>>

Withdraw ==
  /\ pledge = "open" /\ Clean(derived)
  /\ pledge' = "none"
  /\ UNCHANGED <<row, text, removed, derived, body, title>>

Reconcile ==
  /\ pledge = "owed"
  /\ body = text /\ title = derived /\ Clean(derived)
  /\ pledge' = "none"
  /\ UNCHANGED <<row, text, removed, derived, body, title>>

Delete ==
  /\ row = "kept" /\ pledge = "none"
  /\ row' = "deleted" /\ derived' = 0 /\ pledge' = "unlink"
  /\ UNCHANGED <<text, removed, body, title>>

Unlink ==
  /\ row = "deleted" /\ pledge = "unlink"
  /\ text' = 0
  /\ UNCHANGED <<row, removed, derived, body, title, pledge>>

Forget ==
  /\ pledge = "unlink" /\ text = 0
  /\ pledge' = "none"
  /\ UNCHANGED <<row, text, removed, derived, body, title>>

Next == \/ Find \/ Append \/ Derive \/ Serve \/ Hide
        \/ Pledge \/ Redact \/ Withdraw \/ Reconcile
        \/ Delete \/ Unlink \/ Forget

Spec == Init /\ [][Next]_promise
=============================================================================
