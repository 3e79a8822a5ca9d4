-------------------------- MODULE CampaignProofs --------------------------
(***************************************************************************)
(* What every campaign guarantees.                                         *)
(***************************************************************************)
EXTENDS Campaign, SequenceTheorems, TLAPS

(* The accounts are an inductive invariant as they stand. *)
Accounts == TypeOK /\ Disjoint /\ NoIdleEntry /\ Accounted

LEMMA InitAccounts == ASSUME FirstEntry \in Entry, Init PROVE Accounts
<1>1. /\ log \in Seq([entry : Entry, found : SUBSET Feature])
      /\ Len(log) = 1 /\ log[1].found = {}
  BY DEF Init
<1> QED
  BY <1>1 DEF Init, Accounts, TypeOK, Disjoint, NoIdleEntry, Accounted

LEMMA KeepAccounts == ASSUME Accounts, NEW e, Keep(e) PROVE Accounts'
<1> DEFINE new == [entry |-> e, found |-> pending]
<1>1. new \in [entry : Entry, found : SUBSET Feature] /\ new.found = pending
  BY DEF Keep, Accounts, TypeOK
<1>2. /\ log' \in Seq([entry : Entry, found : SUBSET Feature])
      /\ Len(log') = Len(log) + 1
      /\ \A i \in 1..Len(log) : log'[i] = log[i]
      /\ log'[Len(log) + 1] = new
  BY <1>1, AppendProperties DEF Keep, Accounts, TypeOK
<1>3. Len(log) \in Nat
  BY LenProperties DEF Accounts, TypeOK
<1>4. ASSUME NEW i \in 1..Len(log') PROVE i \in 1..Len(log) \/ i = Len(log) + 1
  BY <1>2, <1>3
<1>5. TypeOK'
  BY <1>2 DEF Keep, Accounts, TypeOK
<1>6. Disjoint'
  <2>1. ASSUME NEW i \in 1..Len(log'), NEW j \in 1..Len(log'), i # j
        PROVE  log'[i].found \intersect log'[j].found = {}
    BY <1>1, <1>2, <1>4, <2>1 DEF Accounts, Disjoint
  <2>2. ASSUME NEW i \in 1..Len(log')
        PROVE  log'[i].found \intersect (pending' \union given') = {}
    BY <1>1, <1>2, <1>4 DEF Accounts, Disjoint, Keep
  <2> QED
    BY <2>1, <2>2 DEF Disjoint, Keep
<1>7. NoIdleEntry'
  BY <1>1, <1>2, <1>3, <1>4 DEF Accounts, NoIdleEntry, Keep
<1>8. Accounted'
  <2>1. UNION {log'[i].found : i \in 1..Len(log')}
           = pending \union UNION {log[i].found : i \in 1..Len(log)}
    <3>1. Len(log) + 1 \in 1..Len(log') /\ \A i \in 1..Len(log) : i \in 1..Len(log')
      BY <1>2, <1>3
    <3> QED
      BY <1>1, <1>2, <1>4, <3>1
  <2> QED
    BY <2>1 DEF Accounts, Accounted, Keep
<1> QED
  BY <1>5, <1>6, <1>7, <1>8 DEF Accounts

LEMMA AccountsStep == Accounts /\ [Next]_vars => Accounts'
<1> SUFFICES ASSUME Accounts, [Next]_vars PROVE Accounts'
  OBVIOUS
<1>1. ASSUME NEW f \in Feature, Discover(f) PROVE Accounts'
  <2>1. f \notin pending /\ f \notin given /\ \A i \in 1..Len(log) : f \notin log[i].found
    BY <1>1 DEF Accounts, Accounted, Discover
  <2> QED
    BY <1>1, <2>1 DEF Accounts, TypeOK, Disjoint, NoIdleEntry, Accounted, Discover
<1>2. ASSUME NEW b \in BOOLEAN, Excuse(b) PROVE Accounts'
  BY <1>2 DEF Accounts, TypeOK, Disjoint, NoIdleEntry, Accounted, Excuse
<1>3. CASE Keep(log'[Len(log')].entry)
  BY <1>3, KeepAccounts
<1>4. CASE GiveUp
  BY <1>4 DEF Accounts, TypeOK, Disjoint, NoIdleEntry, Accounted, GiveUp
<1>5. CASE UNCHANGED vars
  BY <1>5 DEF Accounts, TypeOK, Disjoint, NoIdleEntry, Accounted, vars
<1> QED
  BY <1>1, <1>2, <1>3, <1>4, <1>5 DEF Next

(* Every feature found has exactly one home, and no entry is kept for nothing. *)
THEOREM AccountsHold ==
    ASSUME FirstEntry \in Entry
    PROVE  Spec => [](TypeOK /\ Disjoint /\ NoIdleEntry /\ Accounted)
<1>0. Init => Accounts
  BY InitAccounts
<1>1. Accounts => TypeOK /\ Disjoint /\ NoIdleEntry /\ Accounted
  BY DEF Accounts
<1> QED
  BY <1>0, <1>1, AccountsStep, PTL DEF Spec
=============================================================================
