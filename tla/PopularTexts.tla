----------------------------- MODULE PopularTexts -----------------------------
(* What a popular query promises those who view it: a rendering reaches the  *)
(* store and the views in one step, a view fills in a text only where there  *)
(* is none, and what does not render is neither stored nor shown.            *)
(* PopularQuery shows the cache, the loads, the tasks and the write lock     *)
(* behind it.                                                                *)
EXTENDS Naturals

CONSTANTS Sids, Slots, MaxEdits, Broken, Blank, Failed

VARIABLES
  tmpl,    \* the template of each searcher, by its version
  stored,  \* the text stored with it
  edits,   \* the last version that was handed out
  shown,   \* the text a view gets without waiting, or Nothing
  job      \* renderings that were asked for, or NoJob

vars == <<tmpl, stored, edits, shown, job>>

Versions == 0..MaxEdits
Texts == (Versions \ Broken) \cup {Failed}

Nothing       == [is |-> "none"]
Shown(t, put) == [is |-> "held", text |-> t, put |-> put]

NoJob == [sid |-> "none", tmpl |-> 0]

Init ==
  /\ tmpl = [s \in Sids |-> 0]
  /\ stored = [s \in Sids |-> Blank]
  /\ edits = 0
  /\ shown = [s \in Sids |-> Nothing]
  /\ job = [k \in Slots |-> NoJob]

Edit(s) ==
  /\ edits < MaxEdits
  /\ edits' = edits + 1
  /\ tmpl' = [tmpl EXCEPT ![s] = edits + 1]
  /\ UNCHANGED <<stored, shown, job>>

(* A rendering is of the template as it is when it is asked for. *)
Ask(k, s) ==
  /\ job[k] = NoJob
  /\ job' = [job EXCEPT ![k] = [sid |-> s, tmpl |-> tmpl[s]]]
  /\ UNCHANGED <<tmpl, stored, edits, shown>>

(* Stored and shown at once. *)
Render(k) ==
  /\ job[k] # NoJob /\ job[k].tmpl \notin Broken
  /\ stored' = [stored EXCEPT ![job[k].sid] = job[k].tmpl]
  /\ shown' = [shown EXCEPT ![job[k].sid] = Shown(job[k].tmpl, TRUE)]
  /\ job' = [job EXCEPT ![k] = NoJob]
  /\ UNCHANGED <<tmpl, edits>>

Reject(k) ==
  /\ job[k] # NoJob /\ job[k].tmpl \in Broken
  /\ job' = [job EXCEPT ![k] = NoJob]
  /\ UNCHANGED <<tmpl, stored, edits, shown>>

(* A view brings its text where none is shown. *)
Fill(s) ==
  /\ shown[s] = Nothing
  /\ \E t \in Texts : shown' = [shown EXCEPT ![s] = Shown(t, FALSE)]
  /\ UNCHANGED <<tmpl, stored, edits, job>>

(* After an edit, or with time. *)
Forget(s) ==
  /\ shown' = [shown EXCEPT ![s] = Nothing]
  /\ UNCHANGED <<tmpl, stored, edits, job>>

Remove(s) ==
  /\ tmpl' = [tmpl EXCEPT ![s] = 0]
  /\ stored' = [stored EXCEPT ![s] = Blank]
  /\ UNCHANGED <<edits, shown, job>>

Next ==
  \/ \E s \in Sids : Edit(s) \/ Fill(s) \/ Forget(s) \/ Remove(s)
  \/ \E k \in Slots, s \in Sids : Ask(k, s)
  \/ \E k \in Slots : Render(k) \/ Reject(k)

Spec == Init /\ [][Next]_vars
==============================================================================
