-------------------------- MODULE RegulationProofs --------------------------
(***************************************************************************)
(* What holds of the regulatory desks for any number of processes, orders  *)
(* and required signatures.                                                *)
(***************************************************************************)
EXTENDS Regulation, FiniteSetTheorems, TLAPS

Placed == DOMAIN pc = Handlers /\ DOMAIN job = Handlers

LEMMA PlacedKept == ASSUME Placed, [Next]_vars PROVE Placed'
<1>1. ASSUME NEW h \in Handlers, NEW label, NEW work, Begin(h, label, work)
      PROVE  Placed'
  BY <1>1 DEF Placed, Begin
<1>2. ASSUME NEW h \in Handlers, NEW label, Goto(h, label) PROVE Placed'
  BY <1>2 DEF Placed, Goto
<1>3. ASSUME NEW h \in Handlers, Done(h) PROVE Placed'
  BY <1>3 DEF Placed, Done
<1>4. ASSUME NEW h \in Handlers, Kill(h) PROVE Placed'
  BY <1>4 DEF Placed, Kill
<1>5. CASE NextLicence
  BY <1>1, <1>2, <1>3, <1>5 DEF NextLicence, File, TransitionFetch, Decide,
     ActivateProject, Grant, Revive, TouchFetch, Touch, RenewFetch, Renew,
     RenewApplication, WithdrawFetch, Withdraw, EditProjectFetch, EditProject
<1>6. CASE NextApproval
  BY <1>1, <1>2, <1>3, <1>6 DEF NextApproval, RuleFetch, Rule, PassOn,
     RouteFetch, Route, CountersignFetch, Seal, Commit, Attest,
     PatchFetch, Patch, RecordFetch, Record
<1>7. CASE NextSite
  BY <1>1, <1>2, <1>3, <1>7 DEF NextSite, IssueFetch, Issue, Suspend,
     FailInspection, LiftFetch, Lift, LookAround, Reopen, CheckinFetch,
     AmendFetch, SaveInspection, SubmitFetch, Submit, CheckoutFetch, Checkout,
     SignOffFetch, SignOff
<1>8. CASE UNCHANGED vars
  BY <1>8 DEF Placed, vars, requestVars
<1> QED  BY <1>4, <1>5, <1>6, <1>7, <1>8 DEF Next, Step, KilledDeciding

----------------------------------------------------------------------------
(* Sign-off                                                                *)

SealInv ==
    /\ SignedWhatStands
    /\ \A h \in Handlers : pc[h] = "signing" =>
           submission # None /\ job[h].seal = submission.sealed

LEMMA SealKept == ASSUME Placed, SealInv, [Next]_vars PROVE SealInv'
<1> USE DEF Placed, SealInv, SignedWhatStands, At, Begin, Goto, Done, Kill
<1>1. ASSUME NEW h \in Handlers, Submit(h) PROVE SealInv'
  BY <1>1 DEF Submit, None
<1>2. ASSUME NEW h \in Handlers, SignOffFetch(h) PROVE SealInv'
  BY <1>2 DEF SignOffFetch, siteVars
<1>3. ASSUME NEW h \in Handlers, SignOff(h) PROVE SealInv'
  BY <1>3 DEF SignOff
<1>4. CASE NextSite
  BY <1>1, <1>2, <1>3, <1>4 DEF NextSite, IssueFetch, Issue, Suspend,
     FailInspection, LiftFetch, Lift, LookAround, Reopen, CheckinFetch,
     AmendFetch, SaveInspection, SubmitFetch, CheckoutFetch, Checkout,
     siteVars, formVars
<1>5. CASE NextLicence /\ UNCHANGED siteVars
  BY <1>5 DEF NextLicence, File, TransitionFetch, Decide, siteVars,
     ActivateProject, Grant, Revive, TouchFetch, Touch, RenewFetch, Renew,
     RenewApplication, WithdrawFetch, Withdraw, EditProjectFetch, EditProject
<1>6. CASE NextApproval /\ UNCHANGED siteVars
  <2>1. ASSUME NEW h \in Handlers,
               \/ \E r \in Rulings : RuleFetch(h, r)
               \/ \E step \in {"assign", "gate", "return", "escalate"} :
                      RouteFetch(h, step)
               \/ CountersignFetch(h)
        PROVE  SealInv'
    BY <1>6, <2>1 DEF RuleFetch, RouteFetch, CountersignFetch, siteVars
  <2>2. ASSUME NEW h \in Handlers, Rule(h) \/ Seal(h) \/ Commit(h)
        PROVE  SealInv'
    BY <1>6, <2>2 DEF Rule, Seal, Commit, siteVars
  <2>3. ASSUME NEW h \in Handlers, PassOn(h) \/ Route(h) \/ Attest(h)
        PROVE  SealInv'
    BY <1>6, <2>3 DEF PassOn, Route, Attest, siteVars
  <2>4. ASSUME NEW h \in Handlers,
               \/ \E fields, e : PatchFetch(h, fields, e)
               \/ RecordFetch(h) \/ Patch(h) \/ Record(h)
        PROVE  SealInv'
    BY <1>6, <2>4 DEF PatchFetch, RecordFetch, Patch, Record, siteVars
  <2> QED  BY <1>6, <2>1, <2>2, <2>3, <2>4 DEF NextApproval
<1>7. CASE UNCHANGED vars
  BY <1>7 DEF vars, requestVars, siteVars
<1>8. ASSUME NEW h \in Handlers, Kill(h), UNCHANGED siteVars PROVE SealInv'
  BY <1>8 DEF siteVars
<1> QED  BY <1>4, <1>5, <1>6, <1>7, <1>8 DEF Next, Step, KilledDeciding

----------------------------------------------------------------------------
(* Signatures                                                              *)

Told == claimed + signatures + kills + Cardinality(Attesting)

(* A row of the request, or a copy of one, that counts no more than n.     *)
Counts(row, n) ==
    DOMAIN row = {"status", "done"} /\ row.done \in Nat /\ row.done <= n

SignInv ==
    /\ {claimed, signatures, kills} \subseteq Nat
    /\ Counts(request, Told)
    /\ \A h \in Handlers :
        /\ pc[h] \in {"ruling", "routing", "patching"} => Counts(job[h].row, Told)
        /\ pc[h] \in {"sealing", "committing"} => Counts(job[h].row, Told + 1)

LEMMA AttestingFinite ==
    IsFiniteSet(Attesting) /\ Cardinality(Attesting) \in Nat
<1>1. IsFiniteSet(Attesting)
  BY HandlersAssumption, FS_Subset, Attesting \subseteq Handlers DEF Attesting
<1> QED  BY <1>1, FS_CardinalityType

(* A save that counts a signature leaves it to be told; nothing else, but  *)
(* the telling and a kill, touches the set.                                *)
LEMMA SomebodyTells ==
    ASSUME Placed, SignInv, [Next]_vars
    PROVE  /\ Told \in Nat /\ Told' \in Nat /\ Told <= Told'
           /\ {claimed', signatures', kills'} \subseteq Nat
           /\ \A h \in Handlers : Commit(h) => Told' = Told + 1
<1> USE DEF Placed, At, Begin, Goto, Done, Kill
<1>0. Cardinality(Attesting) \in Nat /\ IsFiniteSet(Attesting)
  BY AttestingFinite
<1>1. ASSUME NEW h \in Handlers, Commit(h)
      PROVE  Told' = Told + 1 /\ UNCHANGED <<claimed, signatures, kills>>
  <2>1. Attesting' = Attesting \cup {h} /\ h \notin Attesting
    BY <1>1 DEF Commit, Attesting
  <2>2. Cardinality(Attesting') = Cardinality(Attesting) + 1
    BY <1>0, <2>1, FS_AddElement
  <2> QED  BY <1>0, <1>1, <2>2 DEF Commit, Told, SignInv
<1>2. ASSUME NEW h \in Handlers, Attest(h)
      PROVE  /\ Told' = Told /\ signatures' = signatures + 1
             /\ UNCHANGED <<claimed, kills>>
  <2>1. Attesting' = Attesting \ {h} /\ h \in Attesting
    BY <1>2 DEF Attest, Attesting
  <2>2. Cardinality(Attesting') = Cardinality(Attesting) - 1
    BY <1>0, <2>1, FS_RemoveElement
  <2> QED  BY <1>0, <1>2, <2>2 DEF Attest, Told, SignInv
<1>3. ASSUME NEW h \in Handlers, Kill(h), UNCHANGED <<claimed, signatures>>
      PROVE  Told <= Told' /\ Told' \in Nat /\ kills' = kills + 1
  <2>1. CASE h \in Attesting
    <3>1. Attesting' = Attesting \ {h}
      BY <1>3, <2>1 DEF Attesting
    <3>2. Cardinality(Attesting') = Cardinality(Attesting) - 1
      BY <1>0, <2>1, <3>1, FS_RemoveElement
    <3> QED  BY <1>0, <1>3, <3>2 DEF Told, SignInv
  <2>2. CASE h \notin Attesting
    <3>1. Attesting' = Attesting
      BY <1>3, <2>2 DEF Attesting
    <3> QED  BY <1>0, <1>3, <3>1 DEF Told, SignInv
  <2> QED  BY <2>1, <2>2
<1>4. ASSUME NextLicence \/ NextSite, UNCHANGED <<claimed, signatures>>
      PROVE  Attesting' = Attesting /\ UNCHANGED <<claimed, signatures, kills>>
  <2>1. CASE NextLicence
    BY <1>4, <2>1 DEF Attesting, NextLicence, File, TransitionFetch, Decide,
       ActivateProject, Grant, Revive, TouchFetch, Touch, RenewFetch, Renew,
       RenewApplication, WithdrawFetch, Withdraw, EditProjectFetch, EditProject
  <2>2. CASE NextSite
    BY <1>4, <2>2 DEF Attesting, NextSite, IssueFetch, Issue, Suspend,
       FailInspection, LiftFetch, Lift, LookAround, Reopen, CheckinFetch,
       AmendFetch, SaveInspection, SubmitFetch, Submit, CheckoutFetch, Checkout,
       SignOffFetch, SignOff
  <2> QED  BY <1>4, <2>1, <2>2
<1>5. ASSUME NEW h \in Handlers,
             \/ \E r \in Rulings : RuleFetch(h, r)
             \/ Rule(h) \/ PassOn(h) \/ Route(h) \/ CountersignFetch(h) \/ Seal(h)
             \/ \E step \in {"assign", "gate", "return", "escalate"} :
                    RouteFetch(h, step)
      PROVE  Attesting' = Attesting /\ UNCHANGED <<claimed, signatures, kills>>
  <2>1. ASSUME \/ \E r \in Rulings : RuleFetch(h, r)
               \/ \E step \in {"assign", "gate", "return", "escalate"} :
                      RouteFetch(h, step)
               \/ CountersignFetch(h)
        PROVE  Attesting' = Attesting /\ UNCHANGED <<claimed, signatures, kills>>
    BY <2>1 DEF Attesting, RuleFetch, RouteFetch, CountersignFetch, approvalVars
  <2>2. ASSUME Rule(h) \/ PassOn(h) \/ Route(h) \/ Seal(h)
        PROVE  Attesting' = Attesting /\ UNCHANGED <<claimed, signatures, kills>>
    BY <2>2 DEF Attesting, Rule, PassOn, Route, Seal
  <2> QED  BY <1>5, <2>1, <2>2
<1>6. ASSUME Attesting' = Attesting, UNCHANGED <<claimed, signatures, kills>>
      PROVE  Told' = Told /\ Told \in Nat
  BY <1>0, <1>6 DEF Told, SignInv
<1>7. Told \in Nat
  BY <1>0 DEF Told, SignInv
<1>13. ASSUME NEW h \in Handlers, Patch(h) \/ RecordFetch(h) \/ Record(h)
       PROVE  Attesting' = Attesting /\ UNCHANGED <<claimed, signatures, kills>>
  BY <1>13 DEF Attesting, Patch, RecordFetch, Record, approvalVars
<1>14. ASSUME NEW h \in Handlers, NEW fields, NEW e \in Entered,
              PatchFetch(h, fields, e)
       PROVE  /\ Told <= Told' /\ Told' \in Nat /\ claimed' \in Nat
              /\ UNCHANGED <<signatures, kills>>
  <2>1. Attesting' = Attesting /\ UNCHANGED <<signatures, kills>>
    BY <1>14 DEF Attesting, PatchFetch
  <2>2. claimed' \in Nat /\ claimed <= claimed'
    BY <1>14, EnteredAssumption DEF PatchFetch, SignInv
  <2> QED  BY <1>0, <2>1, <2>2 DEF Told, SignInv
<1>8. CASE NextApproval
  <2>1. ASSUME NEW h \in Handlers, NEW fields, NEW e \in Entered,
               PatchFetch(h, fields, e), NEW g \in Handlers, Commit(g)
        PROVE  FALSE
    <3>1. pc'[g] = "attesting" /\ pc[g] = "committing"
      BY <2>1 DEF Commit
    <3>2. pc'[g] \in {pc[g], "patching"}
      BY <2>1 DEF PatchFetch
    <3> QED  BY <3>1, <3>2
  <2> QED  BY <1>1, <1>2, <1>5, <1>6, <1>7, <1>8, <1>13, <1>14, <2>1
              DEF NextApproval, SignInv
<1>9. CASE NextLicence /\ UNCHANGED <<approvalVars, siteVars>>
  BY <1>1, <1>4, <1>6, <1>9 DEF approvalVars, SignInv
<1>10. CASE NextSite /\ UNCHANGED <<licenceVars, approvalVars>>
  BY <1>1, <1>4, <1>6, <1>10 DEF approvalVars, SignInv
<1>11. ASSUME NEW h \in Handlers, KilledDeciding(h)
       PROVE  /\ Told \in Nat /\ Told' \in Nat /\ Told <= Told'
              /\ {claimed', signatures', kills'} \subseteq Nat
              /\ \A g \in Handlers : Commit(g) => Told' = Told + 1
  <2>1. ASSUME NEW g \in Handlers, Commit(g) PROVE FALSE
    <3>1. kills' = kills
      BY <1>1, <2>1
    <3>2. kills' = kills + 1 /\ kills \in Nat
      BY <1>3, <1>11 DEF KilledDeciding, SignInv
    <3> QED  BY <3>1, <3>2
  <2>2. Told <= Told' /\ Told' \in Nat /\ kills' = kills + 1
    BY <1>3, <1>11 DEF KilledDeciding
  <2>3. {claimed', signatures', kills'} \subseteq Nat
    BY <1>11, <2>2 DEF KilledDeciding, SignInv
  <2> QED  BY <1>7, <2>1, <2>2, <2>3
<1>12. CASE UNCHANGED vars
  BY <1>1, <1>6, <1>7, <1>12 DEF vars, requestVars, approvalVars, SignInv, Attesting
<1> QED  BY <1>8, <1>9, <1>10, <1>11, <1>12 DEF Next, Step

(* What the handlers make of the copy they fetched.                        *)
LEMMA RowsCount ==
    ASSUME NEW n \in Nat, NEW row, Counts(row, n)
    PROVE  /\ \A r : Counts([row EXCEPT !.status = r], n)
           /\ \A step : Counts(Routed(row, step), n)
           /\ Counts(Signed(row), n + 1)
           /\ \A m \in Nat : n <= m => Counts(row, m) /\ Counts(row, m + 1)
<1>1. ASSUME NEW r PROVE Counts([row EXCEPT !.status = r], n)
  BY DEF Counts
<1>2. ASSUME NEW step PROVE Counts(Routed(row, step), n)
  BY <1>1 DEF Routed
<1>3. Counts(Signed(row), n + 1)
  <2> DEFINE k == IF row.done + 1 < Required THEN row.done + 1 ELSE Required
  <2>1. k \in Nat /\ k <= row.done + 1
    BY RequiredAssumption DEF Counts
  <2>2. Signed(row) = [status |-> IF k = Required THEN "Approved" ELSE row.status,
                       done |-> k]
    BY DEF Signed
  <2> HIDE DEF k
  <2> QED  BY <2>1, <2>2 DEF Counts
<1>4. \A m \in Nat : n <= m => Counts(row, m) /\ Counts(row, m + 1)
  BY DEF Counts
<1> QED  BY <1>1, <1>2, <1>3, <1>4

LEMMA SignKept == ASSUME Placed, SignInv, [Next]_vars PROVE SignInv'
<1> USE DEF Placed, At, Begin, Goto, Done, Kill
<1> DEFINE t == Told
           u == Told'
<1>0. /\ t \in Nat /\ u \in Nat /\ t <= u
      /\ {claimed', signatures', kills'} \subseteq Nat
      /\ \A h \in Handlers : Commit(h) => u = t + 1
  BY SomebodyTells
<1>1. /\ Counts(request, t) /\ Counts(request, u)
      /\ \A h \in Handlers :
          /\ pc[h] \in {"ruling", "routing", "patching"} => Counts(job[h].row, u)
          /\ pc[h] \in {"sealing", "committing"} => Counts(job[h].row, u + 1)
          /\ Commit(h) => Counts(job[h].row, u)
  <2>1. ASSUME NEW row, Counts(row, t) PROVE Counts(row, u)
    BY <1>0, <2>1, RowsCount
  <2>2. ASSUME NEW row, Counts(row, t + 1) PROVE Counts(row, u + 1)
    BY <1>0, <2>2 DEF Counts
  <2>3. ASSUME NEW h \in Handlers, Commit(h) PROVE Counts(job[h].row, u)
    BY <1>0, <2>3 DEF SignInv, Commit
  <2> QED  BY <2>1, <2>2, <2>3 DEF SignInv
<1>2. /\ \A r : Counts([request EXCEPT !.status = r], u)
      /\ \A step : Counts(Routed(request, step), u)
      /\ Counts(Signed(request), u + 1)
  BY <1>0, <1>1, RowsCount
<1>3. SignInv' = /\ {claimed', signatures', kills'} \subseteq Nat
                 /\ Counts(request', u)
                 /\ \A h \in Handlers :
                     /\ pc'[h] \in {"ruling", "routing", "patching"}
                            => Counts(job'[h].row, u)
                     /\ pc'[h] \in {"sealing", "committing"}
                            => Counts(job'[h].row, u + 1)
  BY DEF SignInv
<1> HIDE DEF t, u
<1>8. CASE NextApproval
  <2>1. ASSUME NEW h \in Handlers, NEW label, NEW work,
               Begin(h, label, work), UNCHANGED request,
               label \in {"ruling", "routing", "patching"}
                   => Counts(work.row, u),
               label \in {"sealing", "committing"} => Counts(work.row, u + 1)
        PROVE  SignInv'
    BY <1>0, <1>1, <1>3, <2>1
  <2> HIDE DEF Begin
  <2>2. ASSUME NEW h \in Handlers, NEW r, RuleFetch(h, r) PROVE SignInv'
    BY <1>2, <2>1, <2>2 DEF RuleFetch, approvalVars
  <2>3. ASSUME NEW h \in Handlers, NEW step, RouteFetch(h, step) PROVE SignInv'
    BY <1>2, <2>1, <2>3 DEF RouteFetch, approvalVars
  <2>4. ASSUME NEW h \in Handlers, CountersignFetch(h) PROVE SignInv'
    BY <1>2, <2>1, <2>4 DEF CountersignFetch, approvalVars
  <2>6. ASSUME NEW h \in Handlers, NEW fields, NEW e \in Entered,
               PatchFetch(h, fields, e)
        PROVE  SignInv'
    <3> DEFINE row == [k \in {"status", "done"} |->
                          IF k \in fields THEN e[k] ELSE request[k]]
    <3>1. /\ Begin(h, "patching", [op |-> "patch", row |-> row,
                                   ruled |-> "status" \in fields])
          /\ UNCHANGED <<request, signatures>>
      BY <2>6 DEF PatchFetch
    <3>2. DOMAIN row = {"status", "done"} /\ row.done \in Nat
      BY <1>1, EnteredAssumption DEF Counts
    <3>3. row.done <= u
      <4>1. CASE "done" \in fields
        <5>1. row.done <= claimed'
          BY <2>6, <4>1, EnteredAssumption DEF PatchFetch, SignInv
        <5>2. claimed' <= u
          <6>1. Cardinality(Attesting') \in Nat
            <7>1. IsFiniteSet(Attesting')
              BY HandlersAssumption, FS_Subset, Attesting' \subseteq Handlers
                 DEF Attesting
            <7> QED  BY <7>1, FS_CardinalityType
          <6>2. u = claimed' + signatures' + kills' + Cardinality(Attesting')
            BY DEF u, Told
          <6> HIDE DEF u
          <6> QED  BY <1>0, <6>1, <6>2
        <5> QED  BY <1>0, <3>2, <5>1, <5>2
      <4>2. CASE "done" \notin fields
        BY <1>1, <4>2 DEF Counts
      <4> QED  BY <4>1, <4>2
    <3>4. Counts(row, u)
      BY <3>2, <3>3 DEF Counts
    <3> HIDE DEF row
    <3> QED  BY <2>1, <3>1, <3>4
  <2>7. ASSUME NEW h \in Handlers, RecordFetch(h) PROVE SignInv'
    BY <2>1, <2>7 DEF RecordFetch, approvalVars
  <2>8. ASSUME NEW h \in Handlers, Patch(h) \/ Record(h) PROVE SignInv'
    BY <1>0, <1>1, <1>3, <2>8 DEF Patch, Record
  <2>5. ASSUME NEW h \in Handlers,
               \/ Rule(h) \/ Route(h) \/ Commit(h)
               \/ PassOn(h) \/ Seal(h) \/ Attest(h)
        PROVE  SignInv'
    BY <1>0, <1>1, <1>3, <2>5 DEF Rule, Route, Commit, PassOn, Seal, Attest
  <2> QED  BY <1>8, <2>2, <2>3, <2>4, <2>5, <2>6, <2>7, <2>8 DEF NextApproval
<1>9. CASE NextLicence /\ UNCHANGED <<approvalVars, siteVars>>
  BY <1>0, <1>1, <1>3, <1>9 DEF NextLicence, File, TransitionFetch, Decide,
     ActivateProject, Grant, Revive, TouchFetch, Touch, RenewFetch, Renew,
     RenewApplication, WithdrawFetch, Withdraw, EditProjectFetch, EditProject,
     approvalVars
<1>10. CASE NextSite /\ UNCHANGED <<licenceVars, approvalVars>>
  BY <1>0, <1>1, <1>3, <1>10 DEF NextSite, IssueFetch, Issue, Suspend,
     FailInspection, LiftFetch, Lift, LookAround, Reopen, CheckinFetch, AmendFetch,
     SaveInspection, SubmitFetch, Submit, CheckoutFetch, Checkout, SignOffFetch,
     SignOff, approvalVars
<1>11. ASSUME NEW h \in Handlers, KilledDeciding(h)
       PROVE  SignInv'
  BY <1>0, <1>1, <1>3, <1>11 DEF KilledDeciding
<1>12. CASE UNCHANGED vars
  BY <1>0, <1>1, <1>3, <1>12 DEF vars, requestVars, approvalVars
<1> QED  BY <1>8, <1>9, <1>10, <1>11, <1>12 DEF Next, Step

(* "Binds the submission hash": whatever requests cross and whatever       *)
(* process dies, a sign-off binds the submission that stands.              *)
THEOREM SignOffBindsSubmission == Spec => []SignedWhatStands
<1>1. Init => Placed /\ SealInv
  BY DEF Init, InitRequests, InitSite, Placed, SealInv, SignedWhatStands
<1>2. (Placed /\ SealInv) /\ [Next]_vars => (Placed /\ SealInv)'
  BY PlacedKept, SealKept
<1>3. Placed /\ SealInv => SignedWhatStands
  BY DEF SealInv
<1> QED  BY <1>1, <1>2, <1>3, PTL DEF Spec

LEMMA SignInit == Init => SignInv
<1> SUFFICES ASSUME Init PROVE SignInv
  OBVIOUS
<1>1. \A h \in Handlers : pc[h] = "idle"
  BY DEF Init, InitRequests
<1>2. Attesting = {}
  BY <1>1 DEF Attesting, At
<1>3. DOMAIN request = {"status", "done"} /\ request.done \in Nat
  BY EnteredAssumption DEF Init, InitApproval
<1>4. /\ claimed = request.done /\ signatures = 0 /\ kills = 0
      /\ Told = request.done
  BY <1>2, <1>3, FS_EmptySet DEF Told, Init, InitRequests, InitApproval
<1> QED  BY <1>1, <1>3, <1>4 DEF SignInv, Counts

(* The countersignatures counted on a request, beyond a count some client  *)
(* entered, are those that signatories gave, or that a killed process was  *)
(* about to record.                                                        *)
THEOREM SignaturesAreGiven == Spec => []NoSignatureInvented
<1>1. Init => Placed /\ SignInv
  BY SignInit DEF Init, InitRequests, Placed
<1>2. (Placed /\ SignInv) /\ [Next]_vars => (Placed /\ SignInv)'
  BY PlacedKept, SignKept
<1>3. Placed /\ SignInv => NoSignatureInvented
  BY DEF SignInv, Counts, Told, NoSignatureInvented
<1> QED  BY <1>1, <1>2, <1>3, PTL DEF Spec

----------------------------------------------------------------------------
(* A request that disturbs others runs alone until some request crosses.   *)

Fits(label, work) ==
    /\ label \in {"lifting", "looking", "reopening"} => work.op = "lift"
    /\ label \in {"ordering", "suspending", "failing"} => work.op = "issue"
    /\ label = "editing" => work.op = "edit"
    /\ label \in {"renewing", "renewed"} => work.op = "renew"
    /\ label = "withdrawing" => work.op = "withdraw"
    /\ label \in {"ruling", "passing on"} => work.op = "rule"
    /\ label = "routing" => work.op = "route"
    /\ label = "patching" => work.op = "patch"
    /\ label = "filing" => work.op = "file"
    /\ label \in {"sealing", "committing", "attesting"} => work.op = "countersign"

OnDuty == \A h \in Handlers : Fits(pc[h], job[h])

AloneInv == OnDuty /\ (~crossed => ~Crossing)

LEMMA AloneKept == ASSUME Placed, AloneInv, [Next]_vars PROVE AloneInv'
<1> USE DEF AloneInv, At
<1>1. ASSUME Next PROVE OnDuty'
  <2>1. ASSUME NEW h \in Handlers, NEW label, NEW work, Begin(h, label, work),
               Fits(label, work)
        PROVE  OnDuty'
    BY <2>1 DEF Begin, OnDuty, Placed
  <2>2. ASSUME NEW h \in Handlers, NEW label, Goto(h, label), Fits(label, job[h])
        PROVE  OnDuty'
    BY <2>2 DEF Goto, OnDuty, Placed
  <2>3. ASSUME NEW h \in Handlers, Done(h) \/ Kill(h) PROVE OnDuty'
    <3>1. ASSUME NEW g \in Handlers
          PROVE  pc'[g] = "idle" \/ (pc'[g] = pc[g] /\ job'[g] = job[g])
      <4>1. /\ pc' = [pc EXCEPT ![h] = "idle"] /\ job' = [job EXCEPT ![h] = Nothing]
        BY <2>3 DEF Done, Kill
      <4>2. CASE g = h
        BY <4>1, <4>2 DEF Placed
      <4>3. CASE g # h
        BY <4>1, <4>3 DEF Placed
      <4> QED  BY <4>2, <4>3
    <3>2. \A work : Fits("idle", work)
      BY DEF Fits
    <3> QED  BY <3>1, <3>2 DEF OnDuty
  <2>4. \A h \in Handlers : Fits(pc[h], job[h])
    BY DEF OnDuty
  <2>5. CASE NextLicence
    <3>1. ASSUME NEW h \in Handlers,
                 \/ File(h)
                 \/ \E to \in DOMAIN Transitions : TransitionFetch(h, to)
                 \/ \E assigning \in BOOLEAN : TouchFetch(h, assigning)
                 \/ RenewFetch(h)
                 \/ \E to \in {"SUSPENDED", "REVOKED", "EXPIRED"} :
                        WithdrawFetch(h, to)
                 \/ EditProjectFetch(h)
          PROVE  OnDuty'
      BY <2>1, <3>1 DEF File, TransitionFetch, TouchFetch, RenewFetch,
         WithdrawFetch, EditProjectFetch, Fits, Nothing
    <3>2. ASSUME NEW h \in Handlers,
                 \/ Decide(h) \/ ActivateProject(h) \/ Grant(h) \/ Revive(h)
                 \/ Touch(h) \/ Renew(h) \/ RenewApplication(h) \/ Withdraw(h)
                 \/ EditProject(h)
          PROVE  OnDuty'
      BY <2>2, <2>3, <2>4, <3>2 DEF Decide, ActivateProject, Grant, Revive,
         Touch, Renew, RenewApplication, Withdraw, EditProject, Fits
    <3> QED  BY <2>5, <3>1, <3>2 DEF NextLicence
  <2>6. CASE NextApproval
    <3>1. ASSUME NEW h \in Handlers,
                 \/ \E ruling \in Rulings : RuleFetch(h, ruling)
                 \/ \E step \in {"assign", "gate", "return", "escalate"} :
                        RouteFetch(h, step)
                 \/ CountersignFetch(h)
          PROVE  OnDuty'
      BY <2>1, <3>1 DEF RuleFetch, RouteFetch, CountersignFetch, Fits
    <3>2. ASSUME NEW h \in Handlers,
                 \/ Rule(h) \/ PassOn(h) \/ Route(h)
                 \/ Seal(h) \/ Commit(h) \/ Attest(h)
          PROVE  OnDuty'
      BY <2>2, <2>3, <2>4, <3>2 DEF Rule, PassOn, Route, Seal, Commit, Attest,
         Fits
    <3>3. ASSUME NEW h \in Handlers,
                 (\E fields, e : PatchFetch(h, fields, e)) \/ RecordFetch(h)
          PROVE  OnDuty'
      BY <2>1, <3>3 DEF PatchFetch, RecordFetch, Fits
    <3>4. ASSUME NEW h \in Handlers, Patch(h) \/ Record(h) PROVE OnDuty'
      BY <2>3, <3>4 DEF Patch, Record
    <3> QED  BY <2>6, <3>1, <3>2, <3>3, <3>4 DEF NextApproval
  <2>7. CASE NextSite
    <3>1. ASSUME NEW h \in Handlers,
                 \/ \E by \in {"inspection", "desk", "issue"} : IssueFetch(h, by)
                 \/ \E o \in Orders : LiftFetch(h, o)
          PROVE  OnDuty'
      BY <2>1, <3>1 DEF IssueFetch, LiftFetch, Fits
    <3>2. ASSUME NEW h \in Handlers,
                 \/ \E fix \in Fixes : CheckinFetch(h, fix)
                 \/ \E what \in Amendments : AmendFetch(h, what)
                 \/ \E time \in Times : SubmitFetch(h, time)
                 \/ CheckoutFetch(h) \/ SignOffFetch(h)
          PROVE  OnDuty'
      BY <2>1, <3>2 DEF CheckinFetch, AmendFetch, SubmitFetch, CheckoutFetch,
         SignOffFetch, Fits
    <3>3. ASSUME NEW h \in Handlers,
                 \/ Issue(h) \/ Suspend(h) \/ FailInspection(h)
                 \/ Lift(h) \/ LookAround(h) \/ Reopen(h) \/ SaveInspection(h)
                 \/ Submit(h) \/ Checkout(h) \/ SignOff(h)
          PROVE  OnDuty'
      BY <2>2, <2>3, <2>4, <3>3 DEF Issue, Suspend, FailInspection, Lift,
         LookAround, Reopen, SaveInspection, Submit, Checkout, SignOff, Fits
    <3> QED  BY <2>7, <3>1, <3>2, <3>3 DEF NextSite
  <2> QED  BY <1>1, <2>3, <2>5, <2>6, <2>7 DEF Next, Step, KilledDeciding
<1>2. ASSUME Next PROVE ~crossed' => ~Crossing'
  BY <1>2 DEF Next, History
<1>3. CASE UNCHANGED vars
  BY <1>3 DEF vars, requestVars, Crossing, Busy, OnDuty
<1> QED  BY <1>1, <1>2, <1>3

(* What it gives: while such a request is under way, only it takes steps.  *)
LEMMA Alone ==
    ASSUME AloneInv, ~crossed, NEW h \in Handlers, NEW g \in Handlers,
           pc[h] # "idle", pc[g] # "idle", job[h].op \notin Harmless
    PROVE  g = h
BY DEF AloneInv, Crossing, Busy

----------------------------------------------------------------------------
(* Renewal                                                                 *)

PermitInv ==
    \A h \in Handlers :
        /\ pc[h] = "renewing" /\ ~crossed => permit \in {"ACTIVE", "EXPIRED"}
        /\ pc[h] = "withdrawing" => job[h].to \in {"SUSPENDED", "REVOKED", "EXPIRED"}

LEMMA CrossedStays == ASSUME [Next]_vars, ~crossed' PROVE ~crossed
BY DEF Next, History, vars, requestVars

LEMMA PermitKept ==
    ASSUME Placed, AloneInv, PermitInv, [Next]_vars PROVE PermitInv'
<1> USE DEF Placed, At
<1>1. ASSUME Next, NEW h \in Handlers, pc'[h] = "withdrawing"
      PROVE  job'[h].to \in {"SUSPENDED", "REVOKED", "EXPIRED"}
  <2> USE DEF Begin, Goto, Done, Kill
  <2>1. CASE NextLicence
    BY <1>1, <2>1 DEF PermitInv, NextLicence, File, TransitionFetch, Decide,
       ActivateProject, Grant, Revive, TouchFetch, Touch, RenewFetch, Renew,
       RenewApplication, WithdrawFetch, Withdraw, EditProjectFetch, EditProject
  <2>2. CASE NextApproval
    <3>1. ASSUME NEW g \in Handlers,
                 \/ \E r \in Rulings : RuleFetch(g, r)
                 \/ \E step \in {"assign", "gate", "return", "escalate"} :
                        RouteFetch(g, step)
                 \/ CountersignFetch(g)
          PROVE  pc[h] = "withdrawing" /\ job'[h] = job[h]
      BY <1>1, <3>1 DEF RuleFetch, RouteFetch, CountersignFetch
    <3>2. ASSUME NEW g \in Handlers,
                 Rule(g) \/ PassOn(g) \/ Route(g) \/ Seal(g) \/ Commit(g) \/ Attest(g)
          PROVE  pc[h] = "withdrawing" /\ job'[h] = job[h]
      BY <1>1, <3>2 DEF Rule, PassOn, Route, Seal, Commit, Attest
    <3>3. ASSUME NEW g \in Handlers,
                 \/ \E fields, e : PatchFetch(g, fields, e)
                 \/ RecordFetch(g) \/ Patch(g) \/ Record(g)
          PROVE  pc[h] = "withdrawing" /\ job'[h] = job[h]
      BY <1>1, <3>3 DEF PatchFetch, RecordFetch, Patch, Record
    <3> QED  BY <2>2, <3>1, <3>2, <3>3 DEF PermitInv, NextApproval
  <2>3. CASE NextSite
    BY <1>1, <2>3 DEF PermitInv, NextSite, IssueFetch, Issue, Suspend,
       FailInspection, LiftFetch, Lift, LookAround, Reopen, CheckinFetch,
       AmendFetch, SaveInspection, SubmitFetch, Submit, CheckoutFetch, Checkout,
       SignOffFetch, SignOff
  <2>4. CASE \E g \in Handlers : Kill(g)
    BY <1>1, <2>4 DEF PermitInv
  <2> QED  BY <1>1, <2>1, <2>2, <2>3, <2>4 DEF Next, Step, KilledDeciding
<1>2. ASSUME Next, ~crossed', NEW h \in Handlers, pc'[h] = "renewing"
      PROVE  permit' \in {"ACTIVE", "EXPIRED"}
  <2>1. ~crossed
    BY <1>2, CrossedStays
  <2>2. CASE pc[h] = "renewing"
    <3>1. permit \in {"ACTIVE", "EXPIRED"}
      BY <2>1, <2>2 DEF PermitInv
    <3>2. \A g \in Handlers : pc[g] # "idle" => g = h
      BY <2>1, <2>2, Alone DEF AloneInv, OnDuty, Fits, Harmless
    <3>3. UNCHANGED permit
      <4> USE DEF Begin, Goto, Done, Kill
      <4>1. CASE NextLicence
        BY <1>2, <2>2, <3>2, <4>1 DEF NextLicence, File, TransitionFetch, Decide,
           ActivateProject, Grant, Revive, TouchFetch, Touch, RenewFetch, Renew,
           RenewApplication, WithdrawFetch, Withdraw, EditProjectFetch,
           EditProject, licenceVars
      <4>2. CASE NextApproval
        BY <1>2, <2>2, <3>2, <4>2 DEF NextApproval, RuleFetch, Rule, PassOn,
           RouteFetch, Route, CountersignFetch, Seal, Commit, Attest,
     PatchFetch, Patch, RecordFetch, Record, licenceVars
      <4> QED  BY <1>2, <4>1, <4>2 DEF Next, Step, licenceVars
    <3> QED  BY <3>1, <3>3
  <2>3. CASE pc[h] # "renewing"
    <3>1. RenewFetch(h)
      <4> USE DEF Begin, Goto, Done, Kill
      <4>1. CASE NextLicence
        BY <1>2, <2>3, <4>1 DEF NextLicence, File, TransitionFetch, Decide,
           ActivateProject, Grant, Revive, TouchFetch, Touch, RenewFetch, Renew,
           RenewApplication, WithdrawFetch, Withdraw, EditProjectFetch, EditProject
      <4>2. CASE NextApproval
        BY ZenonT(30), <1>2, <2>3, <4>2 DEF NextApproval, RuleFetch, Rule, PassOn,
           RouteFetch, Route, CountersignFetch, Seal, Commit, Attest,
     PatchFetch, Patch, RecordFetch, Record
      <4>3. CASE NextSite
        BY <1>2, <2>3, <4>3 DEF NextSite, IssueFetch, Issue, Suspend,
           FailInspection, LiftFetch, Lift, LookAround, Reopen, CheckinFetch,
           AmendFetch, SaveInspection, SubmitFetch, Submit, CheckoutFetch,
           Checkout, SignOffFetch, SignOff
      <4>4. CASE \E g \in Handlers : Kill(g)
        BY <1>2, <2>3, <4>4
      <4> QED  BY <1>2, <4>1, <4>2, <4>3, <4>4 DEF Next, Step, KilledDeciding
    <3> QED  BY <3>1 DEF RenewFetch, licenceVars
  <2> QED  BY <2>2, <2>3
<1>3. CASE UNCHANGED vars
  BY <1>3 DEF PermitInv, vars, requestVars, licenceVars
<1> QED  BY <1>1, <1>2, <1>3 DEF PermitInv

(* A suspended or revoked permit comes back only by an approval of its     *)
(* application, whatever is decided, signed, renewed or killed meanwhile.  *)
THEOREM OnlyApprovalRevives == Spec => RevivedByApprovalOnly
<1>1. Init => Placed /\ AloneInv /\ PermitInv
  BY DEF Init, InitRequests, Placed, AloneInv, OnDuty, Fits, Crossing, Busy, PermitInv
<1>2. (Placed /\ AloneInv /\ PermitInv) /\ [Next]_vars
          => (Placed /\ AloneInv /\ PermitInv)'
  BY PlacedKept, AloneKept, PermitKept
<1>3. (Placed /\ AloneInv /\ PermitInv) /\ [Next]_vars
          => [ (permit \in {"SUSPENDED", "REVOKED"} /\ permit' = "ACTIVE" /\ ~crossed')
                   => \E h \in Handlers : At(h, "reviving") ]_vars
  <2> SUFFICES ASSUME Placed, AloneInv, PermitInv, Next,
                      permit \in {"SUSPENDED", "REVOKED"}, permit' = "ACTIVE", ~crossed'
               PROVE  \E h \in Handlers : At(h, "reviving")
    BY DEF vars, licenceVars
  <2>1. ~crossed
    BY CrossedStays
  <2>2. CASE NextLicence
    BY <2>1, <2>2 DEF PermitInv, At, NextLicence, File, TransitionFetch, Decide,
       ActivateProject, Grant, Revive, TouchFetch, Touch, RenewFetch, Renew,
       RenewApplication, WithdrawFetch, Withdraw, EditProjectFetch, EditProject,
       licenceVars
  <2>3. CASE NextApproval
    BY <2>3 DEF NextApproval, RuleFetch, Rule, PassOn, RouteFetch, Route,
       CountersignFetch, Seal, Commit, Attest,
     PatchFetch, Patch, RecordFetch, Record, licenceVars, SyncSource, Outcome
  <2> QED  BY <2>2, <2>3 DEF Next, Step, licenceVars
<1> QED  BY <1>1, <1>2, <1>3, PTL DEF Spec, RevivedByApprovalOnly

----------------------------------------------------------------------------
(* Rulings and the record                                                  *)

Agrees(status) ==
    /\ status \in {"Approved", "Conditional"} => record = Status("Approved")
    /\ status = "Rejected" => record = Status("Rejected")

Calm == kills = 0 /\ ~crossed

SourceInv ==
    ~crossed /\ source # "PermitApplication" =>
        /\ \/ unsynced
           \/ Agrees(request.status)
           \/ \E h \in Handlers : Behind(h)
        /\ \A h \in Handlers :
            /\ pc[h] = "ruling" => /\ unsynced \/ Agrees(request.status)
                                   /\ job[h].row.status \in Rulings
            /\ pc[h] = "passing on" =>
                   /\ job[h].row.status = request.status
                   /\ request.status \in Rulings
            /\ pc[h] = "patching" =>
                   unsynced \/ job[h].ruled \/ Agrees(job[h].row.status)
            /\ pc[h] \in {"routing", "committing"} =>
                   unsynced \/ Agrees(job[h].row.status)
            /\ pc[h] \in {"sealing", "committing"} /\ job[h].row.done = Required =>
                   job[h].row.status = "Approved"
            /\ pc[h] = "sealing" => /\ job[h].row.done = Required
                                    /\ unsynced \/ Agrees(request.status)

LEMMA CalmStays == ASSUME kills \in Nat, [Next]_vars, Calm' PROVE Calm
<1>1. ~crossed
  BY CrossedStays DEF Calm
<1>2. CASE UNCHANGED kills
  BY <1>1, <1>2 DEF Calm
<1>3. CASE \E h \in Handlers : KilledDeciding(h)
  BY <1>3 DEF KilledDeciding, Kill, Calm
<1>4. CASE NextLicence
  <2>1. UNCHANGED kills
    BY <1>4 DEF Begin, Goto, Done, NextLicence, File, TransitionFetch, Decide,
       ActivateProject, Grant, Revive, TouchFetch, Touch, RenewFetch, Renew,
       RenewApplication, WithdrawFetch, Withdraw, EditProjectFetch, EditProject
  <2> QED  BY <1>2, <2>1
<1>5. CASE NextApproval
  <2>1. UNCHANGED kills
    BY <1>5 DEF Begin, Goto, Done, NextApproval, RuleFetch, Rule, PassOn,
       RouteFetch, Route, CountersignFetch, Seal, Commit, Attest,
     PatchFetch, Patch, RecordFetch, Record
  <2> QED  BY <1>2, <2>1
<1>6. CASE NextSite
  <2>1. UNCHANGED kills
    BY <1>6 DEF Begin, Goto, Done, NextSite, IssueFetch, Issue, Suspend,
       FailInspection, LiftFetch, Lift, LookAround, Reopen, CheckinFetch,
       AmendFetch, SaveInspection, SubmitFetch, Submit, CheckoutFetch, Checkout,
       SignOffFetch, SignOff
  <2> QED  BY <1>2, <2>1
<1> QED  BY <1>2, <1>3, <1>4, <1>5, <1>6 DEF Next, Step, vars, requestVars

ApprovalLabels ==
    {"ruling", "passing on", "routing", "sealing", "committing", "attesting",
     "patching", "filing"}

(* A request begins, and no other may be under way.                        *)
LEMMA FirstIn ==
    ASSUME Placed, Next, ~crossed', NEW h \in Handlers, NEW label, NEW work,
           Begin(h, label, work), label # "idle", work.op \notin Harmless
    PROVE  \A g \in Handlers : pc[g] = "idle"
<1>1. ASSUME NEW g \in Handlers, pc[g] # "idle" PROVE FALSE
  <2>1. g # h /\ pc'[g] # "idle" /\ pc'[h] # "idle" /\ job'[h].op \notin Harmless
    BY <1>1 DEF Begin, Placed
  <2>2. Crossing'
    BY <2>1 DEF Crossing, Busy
  <2> QED  BY <2>2 DEF Next, History
<1> QED  BY <1>1

(* Requests of the other desks leave the copies of this one alone.         *)
Keeps(h) == /\ pc'[h] \in ApprovalLabels => pc[h] = pc'[h] /\ job'[h] = job[h]
            /\ pc[h] \in ApprovalLabels => pc[h] = pc'[h]

LEMMA OthersKeepCopies ==
    ASSUME Placed, NextLicence \/ NextSite, NEW h \in Handlers
    PROVE  Keeps(h)
<1>1. ASSUME NEW g \in Handlers, NEW label, NEW work, Begin(g, label, work),
             label \notin ApprovalLabels
      PROVE  Keeps(h)
  BY <1>1 DEF Begin, ApprovalLabels, Placed, Keeps
<1>2. ASSUME NEW g \in Handlers, NEW label, Goto(g, label),
             pc[g] \notin ApprovalLabels, label \notin ApprovalLabels
      PROVE  Keeps(h)
  BY <1>2 DEF Goto, ApprovalLabels, Placed, Keeps
<1>3. ASSUME NEW g \in Handlers, Done(g), pc[g] \notin ApprovalLabels PROVE Keeps(h)
  BY <1>3 DEF Done, ApprovalLabels, Placed, Keeps
<1> USE DEF At, ApprovalLabels
<1>4. CASE NextLicence
  BY <1>1, <1>2, <1>3, <1>4 DEF NextLicence, File, TransitionFetch, Decide,
     ActivateProject, Grant, Revive, TouchFetch, Touch, RenewFetch, Renew,
     RenewApplication, WithdrawFetch, Withdraw, EditProjectFetch, EditProject
<1>5. CASE NextSite
  <2>1. ASSUME NEW g \in Handlers,
               NEW label \in {"suspending", "ordering", "lifting", "saving",
                              "submitting", "leaving", "signing"},
               NEW work, Begin(g, label, work)
        PROVE  Keeps(h)
    BY <1>1, <2>1
  <2> HIDE DEF At, ApprovalLabels
  <2>3. ASSUME NEW g \in Handlers, NEW by, IssueFetch(g, by) PROVE Keeps(h)
    BY <2>1, <2>3 DEF IssueFetch
  <2>4. ASSUME NEW g \in Handlers, NEW o, LiftFetch(g, o) PROVE Keeps(h)
    BY <2>1, <2>4 DEF LiftFetch
  <2>5. ASSUME NEW g \in Handlers, NEW fix, CheckinFetch(g, fix) PROVE Keeps(h)
    BY <2>1, <2>5 DEF CheckinFetch
  <2>6. ASSUME NEW g \in Handlers, NEW what, AmendFetch(g, what) PROVE Keeps(h)
    BY <2>1, <2>6 DEF AmendFetch
  <2>7. ASSUME NEW g \in Handlers, NEW time, SubmitFetch(g, time) PROVE Keeps(h)
    BY <2>1, <2>7 DEF SubmitFetch
  <2>8. ASSUME NEW g \in Handlers, CheckoutFetch(g) PROVE Keeps(h)
    BY <2>1, <2>8 DEF CheckoutFetch
  <2>9. ASSUME NEW g \in Handlers, SignOffFetch(g) PROVE Keeps(h)
    BY <2>1, <2>9 DEF SignOffFetch
  <2>2. ASSUME NEW g \in Handlers,
               \/ Issue(g) \/ Suspend(g) \/ FailInspection(g)
               \/ Lift(g) \/ LookAround(g) \/ Reopen(g) \/ SaveInspection(g)
               \/ Submit(g) \/ Checkout(g) \/ SignOff(g)
        PROVE  Keeps(h)
    BY <1>2, <1>3, <2>2 DEF Issue, Suspend, FailInspection, Lift, LookAround,
       Reopen, SaveInspection, Submit, Checkout, SignOff, At, ApprovalLabels
  <2> QED  BY <1>5, <2>2, <2>3, <2>4, <2>5, <2>6, <2>7, <2>8, <2>9
              DEF NextSite
<1> QED  BY <1>4, <1>5

LEMMA SourceKept ==
    ASSUME Placed, SignInv, AloneInv, SourceInv, [Next]_vars
    PROVE  SourceInv'
<1> SUFFICES ASSUME ~crossed', source' # "PermitApplication" PROVE SourceInv'
  BY DEF SourceInv
<1>1. ~crossed
  BY CrossedStays
<1>2. CASE UNCHANGED vars
  BY <1>2 DEF SourceInv, Agrees, Status, Behind, At, vars, requestVars, approvalVars
(* One request of this desk at a time, and nobody else's.                  *)
<1>3. \A h, g \in Handlers : pc[h] \in ApprovalLabels /\ pc[g] # "idle" => g = h
  <2>1. \A h \in Handlers : pc[h] \in ApprovalLabels =>
            pc[h] # "idle" /\ job[h].op \notin Harmless
    BY DEF AloneInv, OnDuty, Fits, ApprovalLabels, Harmless
  <2> QED  BY <1>1, <2>1, Alone
<1>4. \A h \in Handlers : Behind(h) => pc[h] \in ApprovalLabels
  BY DEF Behind, At, ApprovalLabels
<1>5. ASSUME UNCHANGED <<source, record>>
      PROVE  /\ source # "PermitApplication"
             /\ \A status : Agrees(status)' <=> Agrees(status')
  BY <1>5 DEF Agrees, Status
<1>6. ASSUME NextLicence \/ NextSite, UNCHANGED approvalVars PROVE SourceInv'
  <2>1. UNCHANGED <<source, record, request, unsynced>>
    BY <1>6 DEF approvalVars
  <2>2. \A h \in Handlers :
            /\ pc'[h] \in ApprovalLabels => pc[h] = pc'[h] /\ job'[h] = job[h]
            /\ pc[h] \in ApprovalLabels => pc[h] = pc'[h]
    BY <1>6, OthersKeepCopies DEF Keeps
  <2>3. \A h \in Handlers : Behind(h) => Behind(h)'
    BY <2>2 DEF Behind, At, ApprovalLabels
  <2> QED  BY ZenonT(30), <1>1, <2>1, <2>2, <2>3
              DEF SourceInv, ApprovalLabels, Agrees, Status
<1>7. ASSUME NEW h \in Handlers, KilledDeciding(h) PROVE SourceInv'
  <2>1. /\ pc' = [pc EXCEPT ![h] = "idle"] /\ job' = [job EXCEPT ![h] = Nothing]
        /\ UNCHANGED <<source, record, request>> /\ pc[h] # "idle"
        /\ unsynced' = (unsynced \/ Behind(h))
    BY <1>7 DEF KilledDeciding, Kill
  <2>2. \A g \in Handlers : /\ pc'[g] # "idle" => pc'[g] = pc[g] /\ job'[g] = job[g]
                            /\ g # h => pc'[g] = pc[g] /\ job'[g] = job[g]
    BY <2>1 DEF Placed
  <2>3. unsynced' \/ Agrees(request.status)
    BY <1>1, <1>3, <1>4, <2>1 DEF SourceInv
  <2> QED  BY ZenonT(30), <1>1, <2>1, <2>2, <2>3 DEF SourceInv, Agrees, Status
<1>8. ASSUME NextApproval, Next PROVE SourceInv'
  <2>1. source # "PermitApplication" /\ DOMAIN request = {"status", "done"}
    BY <1>8 DEF NextApproval, RuleFetch, Rule, PassOn, RouteFetch, Route,
       CountersignFetch, Seal, Commit, Attest, PatchFetch, Patch, RecordFetch,
       Record, approvalVars, SignInv, Counts
  <2>2. ASSUME NEW h \in Handlers, NEW label \in ApprovalLabels, NEW work,
               Begin(h, label, work), work.op \notin Harmless,
               UNCHANGED <<request, source, record, unsynced>>,
               label = "ruling" => work.row.status \in Rulings,
               label \in {"routing", "committing"} =>
                   (Agrees(request.status) => Agrees(work.row.status)),
               label \in {"sealing", "committing"} /\ work.row.done = Required =>
                   work.row.status = "Approved",
               label = "sealing" => work.row.done = Required,
               label = "patching" =>
                   \/ work.ruled
                   \/ Agrees(request.status) => Agrees(work.row.status),
               label # "passing on"
        PROVE  SourceInv'
    <3>1. \A g \in Handlers : pc[g] = "idle"
      BY <1>8, <2>2, FirstIn DEF ApprovalLabels
    <3>2. unsynced \/ Agrees(request.status)
      BY <1>1, <1>4, <2>1, <3>1 DEF SourceInv, ApprovalLabels
    <3>3. /\ pc' = [pc EXCEPT ![h] = label] /\ job' = [job EXCEPT ![h] = work]
      BY <2>2 DEF Begin
    <3>4. \A g \in Handlers : IF g = h THEN pc'[g] = label /\ job'[g] = work
                                       ELSE pc'[g] = "idle"
      BY <3>1, <3>3 DEF Placed
    <3>5. /\ Agrees(request.status)' <=> Agrees(request.status)
          /\ \A g \in Handlers :
                Agrees(job[g].row.status)' <=> Agrees(job'[g].row.status)
      BY <2>2 DEF Agrees, Status
    <3> HIDE DEF Agrees
    <3> QED  BY <2>2, <3>2, <3>4, <3>5 DEF SourceInv, ApprovalLabels
  <2>3. ASSUME NEW h \in Handlers, NEW ruling \in Rulings, RuleFetch(h, ruling)
        PROVE  SourceInv'
    BY <2>1, <2>2, <2>3 DEF RuleFetch, ApprovalLabels, approvalVars, Harmless
  <2>4. ASSUME NEW h \in Handlers, NEW step, RouteFetch(h, step) PROVE SourceInv'
    <3>1. Agrees(request.status) => Agrees(Routed(request, step).status)
      BY <2>1 DEF Agrees, Routed
    <3> QED  BY <2>2, <2>4, <3>1
                DEF RouteFetch, ApprovalLabels, approvalVars, Harmless
  <2>5. ASSUME NEW h \in Handlers, CountersignFetch(h) PROVE SourceInv'
    <3>1. Signed(request).done = Required => Signed(request).status = "Approved"
      BY DEF Signed
    <3>2. Signed(request).done # Required
              => Signed(request).status = request.status
      BY DEF Signed
    <3> QED  BY <2>2, <2>5, <3>1, <3>2
                DEF CountersignFetch, ApprovalLabels, approvalVars, Harmless
  <2>6. ASSUME NEW h \in Handlers, NEW fields, NEW e, PatchFetch(h, fields, e)
        PROVE  SourceInv'
    BY <2>2, <2>6 DEF PatchFetch, ApprovalLabels, Harmless
  <2>7. ASSUME NEW h \in Handlers, RecordFetch(h) PROVE SourceInv'
    BY <2>2, <2>7 DEF RecordFetch, ApprovalLabels, approvalVars, Harmless
  <2>8. ASSUME NEW h \in Handlers, NEW label, pc[h] \in ApprovalLabels, Goto(h, label)
        PROVE  \A g \in Handlers : IF g = h THEN pc'[g] = label /\ job'[g] = job[g]
                                            ELSE pc'[g] = "idle"
    BY <1>3, <2>8 DEF Goto, Placed
  <2>9. ASSUME NEW h \in Handlers, pc[h] \in ApprovalLabels, Done(h),
               unsynced' \/ Agrees(request.status)'
        PROVE  SourceInv'
    <3>1. \A g \in Handlers : pc'[g] = "idle"
      BY <1>3, <2>9 DEF Done, Placed
    <3> QED  BY <2>9, <3>1 DEF SourceInv
  <2> USE DEF At, ApprovalLabels
  <2>10. ASSUME NEW h \in Handlers, Rule(h) PROVE SourceInv'
    <3>1. job[h].row.status \in Rulings /\ request' = job[h].row /\ Goto(h, "passing on")
      BY <1>1, <2>1, <2>10 DEF Rule, SourceInv
    <3>2. Behind(h)'
      BY <2>8, <2>10, <3>1 DEF Behind, Rule
    <3> QED  BY ZenonT(30), <2>8, <2>10, <3>1, <3>2 DEF SourceInv, Rule
  <2>11. ASSUME NEW h \in Handlers, PassOn(h) PROVE SourceInv'
    <3>1. /\ job[h].row.status = request.status /\ request.status \in Rulings
          /\ UNCHANGED <<request, source>> /\ Done(h)
      BY <1>1, <2>1, <2>11 DEF PassOn, SourceInv
    <3>2. unsynced' \/ record' = Status(Outcome(request.status))
      BY <2>1, <2>11, <3>1 DEF PassOn, SyncSource
    <3>3. unsynced' \/ Agrees(request.status)'
      BY <3>1, <3>2 DEF Agrees, Status, Outcome, Rulings
    <3> QED  BY <2>9, <2>11, <3>1, <3>3 DEF PassOn
  <2>12. ASSUME NEW h \in Handlers, Route(h) PROVE SourceInv'
    <3>1. unsynced \/ Agrees(job[h].row.status)
      BY <1>1, <2>1, <2>12 DEF Route, SourceInv
    <3>2. unsynced' \/ Agrees(request.status)'
      BY <2>12, <3>1 DEF Route, Agrees, Status
    <3> QED  BY <2>9, <2>12, <3>2 DEF Route
  <2>13. ASSUME NEW h \in Handlers, Seal(h) PROVE SourceInv'
    <3>1. /\ job[h].row.done = Required /\ job[h].row.status = "Approved"
          /\ Goto(h, "committing") /\ UNCHANGED <<request, source>>
      BY <1>1, <2>1, <2>13 DEF Seal, SourceInv
    <3>2. Behind(h)'
      BY <2>8, <2>13, <3>1 DEF Behind, Seal
    <3>3. unsynced' \/ record' = Status("Approved")
      BY <2>1, <2>13 DEF Seal, SyncSource
    <3>4. unsynced' \/ Agrees(job[h].row.status)'
      <4>1. pc'[h] = "committing" /\ job'[h] = job[h]
        BY <2>8, <2>13, <3>1 DEF Seal
      <4> QED  BY <3>1, <3>3, <4>1 DEF Agrees, Status
    <3> HIDE DEF Agrees
    <3> QED  BY ZenonT(30), <2>8, <2>13, <3>1, <3>2, <3>4 DEF SourceInv, Seal
  <2>14. ASSUME NEW h \in Handlers, Commit(h) PROVE SourceInv'
    <3>1. /\ unsynced \/ Agrees(job[h].row.status)
          /\ Goto(h, "attesting") /\ request' = job[h].row
          /\ UNCHANGED <<source, record, unsynced>>
      BY <1>1, <2>1, <2>14 DEF Commit, SourceInv
    <3>2. unsynced' \/ Agrees(request.status)'
      BY <3>1 DEF Agrees, Status
    <3> QED  BY <2>8, <2>14, <3>1, <3>2 DEF SourceInv, Commit
  <2>15. ASSUME NEW h \in Handlers, Attest(h) PROVE SourceInv'
    <3>1. \A g \in Handlers : ~Behind(g)
      BY <1>3, <1>4, <2>15 DEF Attest, Behind
    <3>2. unsynced' \/ Agrees(request.status)'
      BY <1>1, <2>1, <2>15, <3>1 DEF Attest, SourceInv, Agrees, Status
    <3> QED  BY <2>9, <2>15, <3>2 DEF Attest
  <2>16. ASSUME NEW h \in Handlers, Patch(h) PROVE SourceInv'
    <3>1. unsynced \/ job[h].ruled \/ Agrees(job[h].row.status)
      BY <1>1, <2>1, <2>16 DEF Patch, SourceInv
    <3>2. unsynced' \/ Agrees(request.status)'
      BY <2>16, <3>1 DEF Patch, Agrees, Status
    <3> QED  BY <2>9, <2>16, <3>2 DEF Patch
  <2>17. ASSUME NEW h \in Handlers, Record(h) PROVE SourceInv'
    BY <2>9, <2>17 DEF Record
  <2> QED  BY <1>8, <2>3, <2>4, <2>5, <2>6, <2>7, <2>10, <2>11, <2>12, <2>13,
              <2>14, <2>15, <2>16, <2>17 DEF NextApproval
<1> QED  BY <1>2, <1>6, <1>7, <1>8 DEF Next, Step, siteVars

(* Once every request is served and none has crossed another, whoever was  *)
(* killed: a record that was told of its request has the status of the     *)
(* last ruling or signature on it.                                         *)
THEOREM RecordFollowsRuling == Spec => []SourceFollowsRequest
<1>1. Init => Placed /\ SignInv /\ AloneInv /\ SourceInv
  <2> SUFFICES ASSUME Init PROVE Placed /\ SignInv /\ AloneInv /\ SourceInv
    OBVIOUS
  <2>1. Placed /\ \A h \in Handlers : pc[h] = "idle"
    BY DEF Init, InitRequests, Placed
  <2>2. AloneInv
    BY <2>1 DEF AloneInv, OnDuty, Fits, Crossing, Busy
  <2>3. SourceInv
    BY <2>1 DEF SourceInv, Init, InitApproval
  <2> QED  BY <2>1, <2>2, <2>3, SignInit
<1>2. (Placed /\ SignInv /\ AloneInv /\ SourceInv) /\ [Next]_vars
          => (Placed /\ SignInv /\ AloneInv /\ SourceInv)'
  BY PlacedKept, SignKept, AloneKept, SourceKept
<1>3. SourceInv => SourceFollowsRequest
  BY DEF SourceInv, SourceFollowsRequest, Busy, Behind, At, Agrees
<1> QED  BY <1>1, <1>2, <1>3, PTL DEF Spec

----------------------------------------------------------------------------
(* Stop-work orders and the project                                        *)

Lifted == {o \in Orders : order[o] = "LIFTED"}

OrderInv ==
    /\ DOMAIN order = Orders
    /\ \A h \in Handlers :
        /\ pc[h] \in {"lifting", "looking", "reopening"} => job[h].on \in Orders
        /\ pc[h] \in {"looking", "reopening"} => job[h].on \in Lifted

SiteInv ==
    Calm =>
        /\ ~waived /\ Active # {} /\ project = "ACTIVE" =>
               \E h \in Handlers : pc[h] = "suspending"
        /\ Active = {} /\ Lifted # {} /\ project = "SUSPENDED" =>
               \E h \in Handlers : pc[h] \in {"looking", "reopening"}
        /\ \A h \in Handlers :
            /\ pc[h] = "reopening" => Active = {}
            /\ pc[h] = "suspending" => Active # {}
            /\ pc[h] = "editing" => job[h].project = project

SiteLabels ==
    {"lifting", "looking", "reopening", "ordering", "suspending", "editing"}

(* Work of the other desks, and on the inspection.                         *)
Elsewhere ==
    /\ UNCHANGED <<order, project>>
    /\ \A h \in Handlers :
        /\ pc'[h] \in SiteLabels => pc[h] = pc'[h] /\ job'[h] = job[h]
        /\ pc[h] \in SiteLabels => pc[h] = pc'[h]

LEMMA WorkElsewhere ==
    ASSUME Placed, UNCHANGED <<order, project>>, NEW g \in Handlers
    PROVE  /\ \A label, work :
                  Begin(g, label, work) /\ label \notin SiteLabels => Elsewhere
           /\ \A label :
                  /\ Goto(g, label)
                  /\ pc[g] \notin SiteLabels /\ label \notin SiteLabels
                  => Elsewhere
           /\ Done(g) /\ pc[g] \notin SiteLabels => Elsewhere
BY DEF Elsewhere, Begin, Goto, Done, SiteLabels, Placed

SiteSteps ==
    \E h \in Handlers :
        \/ EditProjectFetch(h) /\ UNCHANGED siteVars
        \/ EditProject(h) /\ UNCHANGED siteVars
        \/ ActivateProject(h) /\ UNCHANGED siteVars
        \/ \E by \in {"inspection", "desk", "issue"} : IssueFetch(h, by)
        \/ Issue(h) \/ Suspend(h)
        \/ \E o \in Orders : LiftFetch(h, o)
        \/ Lift(h) \/ LookAround(h) \/ Reopen(h)

LEMMA SiteOrElsewhere ==
    ASSUME Placed, Next
    PROVE  \/ SiteSteps
           \/ Elsewhere
           \/ \E h \in Handlers : Kill(h) /\ UNCHANGED siteVars
<1> USE DEF KilledDeciding
<1>1. ASSUME NextLicence, UNCHANGED siteVars PROVE SiteSteps \/ Elsewhere
  <2>1. ASSUME NEW h \in Handlers,
               \/ File(h) \/ RenewFetch(h)
               \/ \E to \in DOMAIN Transitions : TransitionFetch(h, to)
               \/ \E assigning \in BOOLEAN : TouchFetch(h, assigning)
               \/ \E to \in {"SUSPENDED", "REVOKED", "EXPIRED"} :
                      WithdrawFetch(h, to)
        PROVE  Elsewhere
    BY <1>1, <2>1, WorkElsewhere DEF siteVars, SiteLabels, File, RenewFetch,
       TransitionFetch, TouchFetch, WithdrawFetch
  <2>2. ASSUME NEW h \in Handlers,
               \/ Decide(h) \/ Grant(h) \/ Revive(h) \/ Touch(h)
               \/ Renew(h) \/ RenewApplication(h) \/ Withdraw(h)
        PROVE  Elsewhere
    BY <1>1, <2>2, WorkElsewhere DEF siteVars, SiteLabels, At, Decide, Grant,
       Revive, Touch, Renew, RenewApplication, Withdraw
  <2> QED  BY <1>1, <2>1, <2>2 DEF NextLicence, SiteSteps
<1>2. ASSUME NextApproval, UNCHANGED siteVars PROVE Elsewhere
  <2>1. ASSUME NEW h \in Handlers, NEW ruling, RuleFetch(h, ruling)
        PROVE  Elsewhere
    BY <1>2, <2>1, WorkElsewhere DEF siteVars, SiteLabels, RuleFetch
  <2>4. ASSUME NEW h \in Handlers, NEW step, RouteFetch(h, step) PROVE Elsewhere
    BY <1>2, <2>4, WorkElsewhere DEF siteVars, SiteLabels, RouteFetch
  <2>2. ASSUME NEW h \in Handlers, CountersignFetch(h) PROVE Elsewhere
    BY <1>2, <2>2, WorkElsewhere DEF siteVars, SiteLabels, CountersignFetch
  <2>3. ASSUME NEW h \in Handlers,
               \/ Rule(h) \/ PassOn(h) \/ Route(h)
               \/ Seal(h) \/ Commit(h) \/ Attest(h)
        PROVE  Elsewhere
    BY <1>2, <2>3, WorkElsewhere DEF siteVars, SiteLabels, At, Rule, PassOn, Route,
       Seal, Commit, Attest
  <2>5. ASSUME NEW h \in Handlers, NEW fields, NEW e, PatchFetch(h, fields, e)
        PROVE  Elsewhere
    BY <1>2, <2>5, WorkElsewhere DEF siteVars, SiteLabels, PatchFetch
  <2>6. ASSUME NEW h \in Handlers, RecordFetch(h) PROVE Elsewhere
    BY <1>2, <2>6, WorkElsewhere DEF siteVars, SiteLabels, RecordFetch
  <2>7. ASSUME NEW h \in Handlers, Patch(h) \/ Record(h) PROVE Elsewhere
    BY <1>2, <2>7, WorkElsewhere DEF siteVars, SiteLabels, At, Patch, Record
  <2> QED  BY <1>2, <2>1, <2>2, <2>3, <2>4, <2>5, <2>6, <2>7 DEF NextApproval
<1>3. ASSUME NextSite PROVE SiteSteps \/ Elsewhere
  <2>1. ASSUME NEW h \in Handlers,
               NEW label \in {"saving", "submitting", "leaving", "signing"},
               NEW work, Begin(h, label, work), UNCHANGED <<siteVars, project>>
        PROVE  Elsewhere
    BY <2>1, WorkElsewhere DEF siteVars, SiteLabels
  <2>2. ASSUME NEW h \in Handlers, NEW fix, CheckinFetch(h, fix) PROVE Elsewhere
    BY <2>1, <2>2 DEF CheckinFetch
  <2>3. ASSUME NEW h \in Handlers, NEW what, AmendFetch(h, what) PROVE Elsewhere
    BY <2>1, <2>3 DEF AmendFetch
  <2>4. ASSUME NEW h \in Handlers, NEW time, SubmitFetch(h, time) PROVE Elsewhere
    BY <2>1, <2>4 DEF SubmitFetch
  <2>5. ASSUME NEW h \in Handlers, CheckoutFetch(h) PROVE Elsewhere
    BY <2>1, <2>5 DEF CheckoutFetch
  <2>6. ASSUME NEW h \in Handlers, SignOffFetch(h) PROVE Elsewhere
    BY <2>1, <2>6 DEF SignOffFetch
  <2>7. ASSUME NEW h \in Handlers,
               \/ FailInspection(h) \/ SaveInspection(h) \/ Submit(h)
               \/ Checkout(h) \/ SignOff(h)
        PROVE  Elsewhere
    BY <2>7, WorkElsewhere DEF SiteLabels, At, FailInspection, SaveInspection,
       Submit, Checkout, SignOff
  <2> QED  BY <1>3, <2>2, <2>3, <2>4, <2>5, <2>6, <2>7 DEF NextSite, SiteSteps
<1> QED  BY <1>1, <1>2, <1>3 DEF Next, Step

LEMMA OrderKept == ASSUME Placed, OrderInv, [Next]_vars PROVE OrderInv'
<1> USE DEF OrderInv, Lifted
<1>1. ASSUME Elsewhere PROVE OrderInv'
  BY <1>1 DEF Elsewhere, SiteLabels
<1>2. ASSUME NEW h \in Handlers, Kill(h), UNCHANGED siteVars PROVE OrderInv'
  BY <1>2 DEF Kill, siteVars, Placed
<1>3. ASSUME SiteSteps PROVE OrderInv'
  <2> USE DEF Begin, Goto, Done, At, Placed, siteVars, formVars
  <2>1. ASSUME NEW h \in Handlers,
               \/ EditProjectFetch(h) \/ EditProject(h) \/ ActivateProject(h)
               \/ Suspend(h) \/ LookAround(h) \/ Reopen(h),
               UNCHANGED siteVars
        PROVE  OrderInv'
    BY <2>1 DEF EditProjectFetch, EditProject, ActivateProject, Suspend,
       LookAround, Reopen
  <2>2. ASSUME NEW h \in Handlers, NEW by, IssueFetch(h, by) PROVE OrderInv'
    BY <2>2 DEF IssueFetch
  <2>3. ASSUME NEW h \in Handlers, Issue(h) PROVE OrderInv'
    BY <2>3 DEF Issue
  <2>4. ASSUME NEW h \in Handlers, NEW o \in Orders, LiftFetch(h, o)
        PROVE  OrderInv'
    BY <2>4 DEF LiftFetch
  <2>5. ASSUME NEW h \in Handlers, Lift(h) PROVE OrderInv'
    BY <2>5 DEF Lift
  <2>6. ASSUME NEW h \in Handlers, Suspend(h) \/ LookAround(h) \/ Reopen(h)
        PROVE  UNCHANGED siteVars
    BY <2>6 DEF Suspend, LookAround, Reopen
  <2> QED  BY <1>3, <2>1, <2>2, <2>3, <2>4, <2>5, <2>6 DEF SiteSteps
<1>4. CASE UNCHANGED vars
  BY <1>4 DEF vars, siteVars, requestVars
<1> QED  BY <1>1, <1>2, <1>3, <1>4, SiteOrElsewhere

(* Work is waived only by an approval under an order in force.             *)
LEMMA WaivedByApproval ==
    ASSUME Next, Active' \subseteq Active, Active' # {}, ~waived',
           project' = "ACTIVE"
    PROVE  ~waived
BY DEF Next, History

LEMMA SiteKept ==
    ASSUME Placed, SignInv, AloneInv, OrderInv, SiteInv, [Next]_vars
    PROVE  SiteInv'
<1> SUFFICES ASSUME Calm' PROVE SiteInv'
  BY DEF SiteInv
<1>1. Calm
  BY CalmStays DEF SignInv
<1>2. CASE UNCHANGED vars
  BY <1>2 DEF SiteInv, Calm, Active, Lifted, vars, requestVars, siteVars
<1>3. ASSUME NEW h \in Handlers, Kill(h) PROVE FALSE
  BY <1>1, <1>3 DEF Kill, Calm
<1> SUFFICES ASSUME Next PROVE SiteInv'
  BY <1>2
<1>4. \A h, g \in Handlers :
          pc[h] \in {"ordering", "suspending", "editing"} /\ pc[g] # "idle"
              => g = h
  BY <1>1, Alone DEF AloneInv, OnDuty, Fits, Harmless, Calm
<1>5. ASSUME Active' \subseteq Active, Active' # {}, ~waived', project' = "ACTIVE"
      PROVE  ~waived
  BY <1>5, WaivedByApproval
<1>6. CASE Elsewhere
  <2>1. Active' = Active /\ Lifted' = Lifted /\ UNCHANGED project
    BY <1>6 DEF Elsewhere, Active, Lifted
  <2> QED  BY <1>1, <1>5, <1>6, <2>1 DEF SiteInv, Elsewhere, SiteLabels
<1>7. CASE SiteSteps
  <2> USE DEF Begin, Goto, Done, At, Placed
  <2>1. ASSUME NEW h \in Handlers, UNCHANGED <<order, project>>,
               NEW label, NEW work, Begin(h, label, work),
               label \in {"ordering", "suspending", "editing", "lifting"},
               label = "suspending" => Active # {},
               label = "editing" => work.project = project
        PROVE  SiteInv'
    <3>1. Active' = Active /\ Lifted' = Lifted /\ UNCHANGED project
      BY <2>1 DEF Active, Lifted
    <3> QED  BY <1>1, <1>5, <2>1, <3>1 DEF SiteInv
  <2>2. ASSUME NEW h \in Handlers, EditProjectFetch(h), UNCHANGED siteVars
        PROVE  SiteInv'
    BY <2>1, <2>2 DEF EditProjectFetch, siteVars
  <2>3. ASSUME NEW h \in Handlers, NEW by, IssueFetch(h, by) PROVE SiteInv'
    <3>1. UNCHANGED <<order, project>>
      BY <2>3 DEF IssueFetch, siteVars
    <3>2. CASE by = "issue" /\ Active # {}
      <4>1. Begin(h, "suspending", [op |-> "issue", by |-> by, row |-> inspection])
        BY <2>3, <3>2 DEF IssueFetch
      <4> HIDE DEF Begin
      <4> QED  BY <2>1, <3>1, <3>2, <4>1
    <3>3. CASE ~ (by = "issue" /\ Active # {})
      BY <2>1, <2>3, <3>1, <3>3 DEF IssueFetch
    <3> QED  BY <3>2, <3>3
  <2>4. ASSUME NEW h \in Handlers, NEW o, LiftFetch(h, o) PROVE SiteInv'
    BY <2>1, <2>4 DEF LiftFetch, siteVars
  <2>5. ASSUME NEW h \in Handlers, EditProject(h), UNCHANGED siteVars
        PROVE  SiteInv'
    <3>1. Active' = Active /\ Lifted' = Lifted /\ UNCHANGED project
      BY <1>1, <2>5 DEF EditProject, siteVars, Active, Lifted, SiteInv
    <3> QED  BY <1>1, <1>5, <2>5, <3>1 DEF SiteInv, EditProject
  <2>6. ASSUME NEW h \in Handlers, ActivateProject(h), UNCHANGED siteVars
        PROVE  SiteInv'
    <3>1. Active' = Active /\ Lifted' = Lifted /\ project' = "ACTIVE"
      BY <2>6 DEF ActivateProject, siteVars, Active, Lifted
    <3>2. waived' = (Active # {})
      BY <2>6 DEF Next, History, Approves, ActivateProject
    <3>3. \A g \in Handlers : pc[g] # "editing"
      BY <1>4, <2>6 DEF ActivateProject
    <3> QED  BY <1>1, <2>6, <3>1, <3>2, <3>3 DEF SiteInv, ActivateProject
  <2>7. ASSUME NEW h \in Handlers, Issue(h) PROVE SiteInv'
    <3>1. Active' # {} /\ pc' = [pc EXCEPT ![h] = "suspending"]
      BY <2>7 DEF Issue, Active, OrderInv
    <3>2. \A g \in Handlers : g # h => pc[g] = "idle"
      BY <1>4, <2>7 DEF Issue
    <3> QED  BY <3>1, <3>2 DEF SiteInv
  <2>8. ASSUME NEW h \in Handlers, Suspend(h) PROVE SiteInv'
    <3>1. Active' = Active /\ Active # {} /\ project' = "SUSPENDED"
      BY <1>1, <2>8 DEF Suspend, siteVars, Active, SiteInv
    <3>2. \A g \in Handlers : g # h => pc[g] = "idle"
      BY <1>4, <2>8 DEF Suspend
    <3>3. pc'[h] \in {"failing", "idle"} /\ \A g \in Handlers : g # h => pc'[g] = pc[g]
      BY <2>8 DEF Suspend
    <3> QED  BY <3>1, <3>2, <3>3 DEF SiteInv
  <2>9. ASSUME NEW h \in Handlers, Lift(h) PROVE SiteInv'
    <3>1. Active' \subseteq Active /\ UNCHANGED project
      BY <2>9 DEF Lift, Active, OrderInv
    <3>2. pc' = [pc EXCEPT ![h] = "looking"] /\ UNCHANGED job
      BY <2>9 DEF Lift
    <3>3. \A g \in Handlers : pc[g] \notin {"suspending", "editing"}
      BY <1>4, <2>9 DEF Lift
    <3> QED  BY <1>1, <1>5, <3>1, <3>2, <3>3 DEF SiteInv
  <2>10. ASSUME NEW h \in Handlers, LookAround(h) PROVE SiteInv'
    <3>1. Active' = Active /\ Lifted' = Lifted /\ UNCHANGED project
      BY <2>10 DEF LookAround, siteVars, Active, Lifted
    <3>2. job[h].on \notin Active
      BY <2>10 DEF LookAround, OrderInv, Active, Lifted
    <3>3. \/ Active = {} /\ pc' = [pc EXCEPT ![h] = "reopening"] /\ UNCHANGED job
          \/ Active # {} /\ Done(h)
      BY <2>10, <3>2 DEF LookAround
    <3>4. \A g \in Handlers : pc[g] \notin {"suspending", "editing"}
      BY <1>4, <2>10 DEF LookAround
    <3> QED  BY <1>1, <1>5, <3>1, <3>3, <3>4 DEF SiteInv
  <2>11. ASSUME NEW h \in Handlers, Reopen(h) PROVE SiteInv'
    <3>1. Active' = Active /\ Active = {} /\ project' = "ACTIVE"
      BY <1>1, <2>11 DEF Reopen, siteVars, Active, SiteInv
    <3>2. \A g \in Handlers : pc[g] \notin {"suspending", "editing"}
      BY <1>4, <2>11 DEF Reopen
    <3> QED  BY <2>11, <3>1, <3>2 DEF SiteInv, Reopen
  <2> QED  BY <1>7, <2>2, <2>3, <2>4, <2>5, <2>6, <2>7, <2>8, <2>9, <2>10, <2>11
              DEF SiteSteps
<1> QED  BY <1>3, <1>6, <1>7, SiteOrElsewhere

AllInv == Placed /\ SignInv /\ AloneInv /\ OrderInv /\ SiteInv

LEMMA SiteInvHolds == Spec => []AllInv
<1>1. Init => AllInv
  <2> SUFFICES ASSUME Init PROVE AllInv
    OBVIOUS
  <2>1. Placed /\ \A h \in Handlers : pc[h] = "idle"
    BY DEF Init, InitRequests, Placed
  <2>2. AloneInv
    BY <2>1 DEF AloneInv, OnDuty, Fits, Crossing, Busy
  <2>3. PICK A \in SUBSET Orders :
            /\ order = [o \in Orders |-> IF o \in A THEN "ACTIVE" ELSE "none"]
            /\ A # {} <=> project = "SUSPENDED"
    BY DEF Init, InitSite
  <2>4. OrderInv /\ Active = A /\ Lifted = {}
    BY <2>1, <2>3 DEF OrderInv, Active, Lifted
  <2>5. SiteInv
    BY <2>1, <2>3, <2>4 DEF SiteInv
  <2> QED  BY <2>1, <2>2, <2>4, <2>5, SignInit DEF AllInv
<1>2. AllInv /\ [Next]_vars => AllInv'
  BY PlacedKept, SignKept, AloneKept, OrderKept, SiteKept DEF AllInv
<1> QED  BY <1>1, <1>2, PTL DEF Spec

(* Any number of lifts and decisions at once: the site stays shut under an *)
(* order in force, unless work was approved under it.                      *)
THEOREM OrdersShutTheSite == Spec => []StopWorkShutsTheSite
<1>1. AllInv => StopWorkShutsTheSite
  BY DEF AllInv, SiteInv, Calm, StopWorkShutsTheSite, Quiet, Busy
<1> QED  BY <1>1, SiteInvHolds, PTL

(* Any number of lifts at once: the last of them opens the site.           *)
THEOREM LiftsOpenTheSite == Spec => []LastLiftReopens
<1>1. AllInv => LastLiftReopens
  BY DEF AllInv, SiteInv, Calm, LastLiftReopens, Quiet, Busy, Lifted
<1> QED  BY <1>1, SiteInvHolds, PTL
=============================================================================
