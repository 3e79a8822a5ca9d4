----------------------------- MODULE Campaign -----------------------------
(***************************************************************************)
(* What a fuzzing campaign promises, whatever the engine does inside.      *)
(* The corpus is a log: every entry was kept for features nobody had seen  *)
(* before, it is never changed or removed afterwards, and a feature found  *)
(* is either credited to exactly one entry or was given up because the     *)
(* target asked for the run to be discarded (or it was found before any    *)
(* input existed).  Executor implements this module.                       *)
(***************************************************************************)
EXTENDS Integers, Sequences

CONSTANTS Entry,      \* what the corpus keeps
          Feature,    \* what the sensors can report
          FirstEntry  \* the entry the corpus is born with

VARIABLES log,      \* Seq([entry, found]): the corpus, with what each entry was kept for
          known,    \* features the sensors have reported
          pending,  \* those the current run reported first
          given,    \* those that were given up
          excused   \* may the current run give its features up?

vars == <<log, known, pending, given, excused>>

Init == /\ log = <<[entry |-> FirstEntry, found |-> {}]>>
        /\ known = {}
        /\ pending = {}
        /\ given = {}
        /\ excused = TRUE

(* The sensors report a feature for the first time. *)
Discover(f) == /\ f \in Feature \ known
               /\ known' = known \union {f}
               /\ pending' = pending \union {f}
               /\ UNCHANGED <<log, given, excused>>

(* The target discards the run, or takes that back. *)
Excuse(b) == /\ excused' = b
             /\ UNCHANGED <<log, known, pending, given>>

(* A run with new features ends and its input joins the corpus. *)
Keep(e) == /\ pending # {}
           /\ ~excused
           /\ e \in Entry
           /\ log' = Append(log, [entry |-> e, found |-> pending])
           /\ pending' = {}
           /\ UNCHANGED <<known, given, excused>>

(* A discarded run with new features ends. *)
GiveUp == /\ pending # {}
          /\ excused
          /\ given' = given \union pending
          /\ pending' = {}
          /\ UNCHANGED <<log, known, excused>>

(* The entry kept is named by the step itself, so that Entry may be infinite. *)
Next == \/ \E f \in Feature : Discover(f)
        \/ \E b \in BOOLEAN : Excuse(b)
        \/ Keep(log'[Len(log')].entry)
        \/ GiveUp

Spec == Init /\ [][Next]_vars
-----------------------------------------------------------------------------
TypeOK == /\ log \in Seq([entry : Entry, found : SUBSET Feature])
          /\ known \subseteq Feature
          /\ pending \subseteq Feature
          /\ given \subseteq Feature
          /\ excused \in BOOLEAN

(* No feature is counted twice: two entries never share a feature, and     *)
(* neither pending nor given-up features belong to an entry.               *)
Disjoint ==
    /\ \A i, j \in 1..Len(log) : i # j => log[i].found \intersect log[j].found = {}
    /\ \A i \in 1..Len(log) : log[i].found \intersect (pending \union given) = {}
    /\ pending \intersect given = {}

(* Every entry but the first pays its way. *)
NoIdleEntry == \A i \in 2..Len(log) : log[i].found # {}

(* Every feature found is accounted for. *)
Accounted == known = pending \union given \union UNION {log[i].found : i \in 1..Len(log)}
=============================================================================
