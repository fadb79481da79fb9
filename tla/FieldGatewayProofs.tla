------------------------- MODULE FieldGatewayProofs -------------------------
(***************************************************************************)
(* Proofs about FieldGateway for any number of files, processes,           *)
(* credentials and faults.  The platform, the provisioning and the gateway *)
(* share few variables, so each part's invariant is shown to be kept by    *)
(* that part's own steps, and Next to consist of such steps.               *)
(***************************************************************************)
EXTENDS FieldGateway, FiniteSetTheorems, TLAPS

(* What a step of Next does to the provisioning.                           *)
LEMMA ConfigMoves == ASSUME [Next]_vars PROVE [ConfigNext]_configVars
<1> USE DEF configVars, gatewayVars
<1>1. CASE UNCHANGED vars
  BY <1>1 DEF vars
<1>2. CASE \E f \in Files :
              Export(f) \/ PostLost(f) \/ \E h \in Handlers : Post(f, h)
  BY <1>2 DEF Export, PostLost, Post
<1>3. CASE Tick \/ TickUnsaved \/ Restart
  BY <1>3 DEF Tick, TickUnsaved, Restart
<1>4. CASE \E h \in Handlers :
              \/ Platform(h) \/ Unheard(h) \/ Killed(h)
              \/ Receive(h) \/ ReceiveUnsaved(h) \/ GiveUp(h)
              \/ UploadByHand(h) /\ UNCHANGED <<configVars, gatewayVars>>
  BY <1>4 DEF Platform, Authenticate, Unheard, Killed, Receive,
              ReceiveUnsaved, GiveUp
<1>5. CASE ConfigNext /\ UNCHANGED <<importVars, gatewayVars>>
  BY <1>5
<1> QED BY <1>1, <1>2, <1>3, <1>4, <1>5 DEF Next

----------------------------------------------------------------------------
(***************************************************************************)
(* Provisioning, for any number of officers at once: the types.            *)
(***************************************************************************)
ConfigOK ==
    /\ ConfigTypeOK
    /\ \A o \in Officers :
          /\ officer[o].pc \in {"writing", "revoking"} => officer[o].token \in minted
          /\ officer[o].old \subseteq minted

LEMMA ConfigOKKept == ASSUME ConfigOK, [ConfigNext]_configVars PROVE ConfigOK'
<1> USE DEF ConfigOK, ConfigTypeOK, OfficerState
<1> USE TokensAssumption
<1>1. CASE UNCHANGED configVars
  BY <1>1 DEF configVars
<1>2. CASE Reassign
  BY <1>2 DEF Reassign
<1>3. ASSUME NEW o \in Officers, Enable(o)
      PROVE  ConfigOK'
  <2>1. CASE EnableCurrent(o)
    BY <2>1 DEF EnableCurrent, Meets
  <2>2. CASE EnableRead(o)
    <3>0. \A old \in Provisioned : old \subseteq live
      BY DEF Provisioned
    <3>1. PICK old \in Provisioned :
              Work(o, [NoWork EXCEPT !.pc = "minting", !.old = old,
                                     !.on = enabled])
      BY <2>2, Zenon DEF EnableRead
    <3> DEFINE w == [NoWork EXCEPT !.pc = "minting", !.old = old,
                                   !.on = enabled]
    <3>2. w \in OfficerState /\ w.pc = "minting" /\ w.old = old
      BY <3>0 DEF NoWork
    <3>3. officer' = [officer EXCEPT ![o] = w]
      BY <3>1 DEF Work
    <3> HIDE DEF w, OfficerState
    <3>4. /\ officer' \in [Officers -> OfficerState]
          /\ \A p \in Officers \ {o} : officer'[p] = officer[p]
          /\ officer'[o] = w
      BY <3>2, <3>3
    <3>5. overlapped' \in BOOLEAN
      BY <2>2 DEF EnableRead, Meets
    <3>6. ConfigTypeOK'
      BY <2>2, <3>4, <3>5 DEF EnableRead
    <3> QED BY <2>2, <3>0, <3>2, <3>4, <3>6 DEF EnableRead
  <2>3. ASSUME NEW t \in Tokens, EnableMint(o, t)
        PROVE  ConfigOK'
    <3> DEFINE w == [officer[o] EXCEPT !.pc = "writing", !.token = t]
    <3>1. w \in OfficerState /\ w.token = t /\ w.old = officer[o].old
      OBVIOUS
    <3>2. officer' = [officer EXCEPT ![o] = w]
      BY <2>3 DEF EnableMint, Work
    <3>3. /\ t \in Tokens /\ minted' = minted \cup {t} /\ live' = live \cup {t}
          /\ UNCHANGED <<config, outdated, enabled, leftover, byHand,
                         overlapped, disables, configFaults>>
      BY <2>3 DEF EnableMint, IsNew
    <3> HIDE DEF w, OfficerState
    <3>4. /\ officer' \in [Officers -> OfficerState]
          /\ \A p \in Officers \ {o} : officer'[p] = officer[p]
          /\ officer'[o] = w
      BY <3>1, <3>2
    <3>5. ConfigTypeOK'
      BY <3>3, <3>4
    <3> QED BY <3>1, <3>3, <3>4, <3>5
  <2>4. CASE EnableWrite(o)
    <3> DEFINE w == [officer[o] EXCEPT !.pc = "revoking"]
    <3>1. w \in OfficerState /\ w.token = officer[o].token
                            /\ w.old = officer[o].old
      OBVIOUS
    <3>2. officer' = [officer EXCEPT ![o] = w]
      BY <2>4 DEF EnableWrite, Work
    <3>3. /\ officer[o].pc = "writing" /\ config' = officer[o].token
          /\ outdated' = FALSE /\ leftover' = FALSE
          /\ UNCHANGED <<minted, live, enabled, byHand, overlapped, disables,
                         configFaults>>
      BY <2>4 DEF EnableWrite
    <3> HIDE DEF w, OfficerState
    <3>4. /\ officer' \in [Officers -> OfficerState]
          /\ \A p \in Officers \ {o} : officer'[p] = officer[p]
          /\ officer'[o] = w
      BY <3>1, <3>2
    <3>5. ConfigTypeOK'
      BY <3>3, <3>4
    <3> QED BY <3>1, <3>3, <3>4, <3>5
  <2>5. CASE EnableWriteFails(o)
    BY <2>5 DEF EnableWriteFails, Finish, Work, NoWork
  <2>6. CASE EnableRevoke(o)
    BY <2>6 DEF EnableRevoke, Finish, Work, NoWork
  <2> QED BY <1>3, <2>1, <2>2, <2>3, <2>4, <2>5, <2>6 DEF Enable
<1>4. ASSUME NEW o \in Officers, Disable(o)
      PROVE  ConfigOK'
  <2>1. CASE DisableRevoke(o)
    <3>1. [NoWork EXCEPT !.pc = "removing", !.on = enabled] \in OfficerState
      BY DEF NoWork
    <3>2. officer' \in [Officers -> OfficerState]
      BY <2>1, <3>1 DEF DisableRevoke, Work
    <3>3. \A p \in Officers :
             /\ officer'[p].pc \in {"writing", "revoking"}
                   => officer[p].pc \in {"writing", "revoking"}
             /\ officer'[p].pc \in {"writing", "revoking"}
                   => officer'[p].token = officer[p].token
             /\ officer'[p].old \subseteq officer[p].old
      BY <2>1 DEF DisableRevoke, Work, NoWork
    <3> QED BY <2>1, <3>2, <3>3 DEF DisableRevoke, Meets
  <2>2. CASE DisableRemove(o)
    BY <2>2 DEF DisableRemove, Finish, Work, NoWork
  <2>3. CASE DisableRemoveFails(o)
    BY <2>3 DEF DisableRemoveFails, Finish, Work, NoWork
  <2> QED BY <1>4, <2>1, <2>2, <2>3 DEF Disable
<1>5. ASSUME NEW t \in Tokens, ByHand(t)
      PROVE  ConfigOK'
  BY <1>5 DEF ByHand
<1> QED BY <1>1, <1>2, <1>3, <1>4, <1>5 DEF ConfigNext

----------------------------------------------------------------------------
(***************************************************************************)
(* Provisioning, until two officers' requests overlap.  What is said of    *)
(* the live credentials leaves out the ones handled by hand.               *)
(***************************************************************************)

(* The credentials that are live when nobody is replacing them.            *)
Settled == IF config # NoToken /\ ~leftover THEN {config} ELSE {}

FlagRight == enabled <=> config # NoToken
AtRest == FlagRight /\ live \ byHand = Settled \ byHand

OfficerInv(o) ==
    /\ officer[o].pc # "idle" => officer[o].on = enabled
    /\ officer[o].pc = "minting"
          => AtRest /\ officer[o].old \ byHand = live \ byHand
    /\ officer[o].pc = "writing"
          => /\ FlagRight
             /\ officer[o].old \ byHand = Settled \ byHand
             /\ officer[o].token \notin officer[o].old
             /\ live \ byHand = (officer[o].old \cup {officer[o].token}) \ byHand
    /\ officer[o].pc = "revoking"
          => /\ config = officer[o].token /\ ~leftover
             /\ officer[o].token \notin officer[o].old
             /\ live \ byHand = (officer[o].old \cup {officer[o].token}) \ byHand
    /\ officer[o].pc = "removing" => FlagRight /\ live \subseteq byHand

Alone(o) == \A p \in Officers \ {o} : officer[p].pc = "idle"

ConfigInv ==
    /\ ConfigOK
    /\ ~overlapped =>
          /\ NobodyWorks => AtRest
          /\ \A o \in Officers : OfficerInv(o)
          /\ \A o \in Officers : officer[o].pc # "idle" => Alone(o)

LEMMA ConfigInitially == ASSUME Init PROVE ConfigInv
<1> USE DEF Init, ConfigInit
<1>1. ConfigTypeOK
  <2>1. NoWork \in OfficerState
    BY DEF NoWork, OfficerState
  <2>2. officer \in [Officers -> OfficerState]
    BY <2>1
  <2>3. {outdated, enabled, leftover, overlapped} \subseteq BOOLEAN
    OBVIOUS
  <2>4. {disables, configFaults} \subseteq Nat
    OBVIOUS
  <2> QED BY <2>2, <2>3, <2>4 DEF ConfigTypeOK
<1>2. ASSUME NEW o \in Officers
      PROVE  officer[o].pc = "idle" /\ officer[o].old = {}
  BY DEF NoWork
<1>3. AtRest
  BY DEF AtRest, FlagRight, Settled
<1> QED BY <1>1, <1>2, <1>3 DEF ConfigInv, ConfigOK, OfficerInv

(* A step of one officer, alone before and after it, who ends up in state  *)
(* w: only what the invariant says of w has to be shown.                   *)
LEMMA OneOfficer ==
    ASSUME officer \in [Officers -> OfficerState],
           NEW o \in Officers, NEW w, officer' = [officer EXCEPT ![o] = w],
           Alone(o),
           w.pc = "idle" => AtRest',
           w.pc # "idle" => OfficerInv(o)'
    PROVE  /\ (NobodyWorks => AtRest)'
           /\ \A p \in Officers : OfficerInv(p)'
           /\ \A p \in Officers : officer'[p].pc # "idle" => Alone(p)'
<1>1. officer'[o] = w /\ \A p \in Officers \ {o} : officer'[p].pc = "idle"
  BY DEF Alone
<1>2. ASSUME NEW p \in Officers, officer'[p].pc = "idle" PROVE OfficerInv(p)'
  BY <1>2 DEF OfficerInv
<1>3. ASSUME NEW p \in Officers PROVE OfficerInv(p)'
  BY <1>1, <1>2
<1>4. ASSUME NEW p \in Officers, officer'[p].pc # "idle" PROVE Alone(p)'
  BY <1>1, <1>4 DEF Alone
<1>5. NobodyWorks' => w.pc = "idle"
  BY <1>1 DEF NobodyWorks
<1> QED BY <1>3, <1>4, <1>5

(* While o works alone, its own invariant holds; while nobody works, the   *)
(* credentials are at rest.                                                *)
LEMMA ConfigKept == ASSUME ConfigInv, [ConfigNext]_configVars PROVE ConfigInv'
<1>0. ConfigOK /\ ConfigOK'
  BY ConfigOKKept DEF ConfigInv
<1> SUFFICES ASSUME ~overlapped'
             PROVE  /\ (NobodyWorks => AtRest)'
                    /\ \A p \in Officers : OfficerInv(p)'
                    /\ \A p \in Officers : officer'[p].pc # "idle" => Alone(p)'
  BY <1>0 DEF ConfigInv
<1> USE TokensAssumption
<1> USE DEF AtRest, FlagRight, Settled
<1>1. ASSUME ~overlapped
      PROVE  /\ NobodyWorks => AtRest
             /\ \A o \in Officers : OfficerInv(o)
             /\ \A o \in Officers : officer[o].pc # "idle" => Alone(o)
  BY <1>1 DEF ConfigInv
<1>2. /\ officer \in [Officers -> OfficerState]
      /\ live \subseteq minted /\ byHand \subseteq minted
      /\ config \in minted \cup {NoToken} /\ NoToken \notin minted
      /\ enabled \in BOOLEAN /\ leftover \in BOOLEAN
      /\ \A o \in Officers : /\ officer[o].old \subseteq minted
                             /\ officer[o].on \in BOOLEAN
                             /\ officer[o].pc \in {"writing", "revoking"}
                                   => officer[o].token \in minted
  BY <1>0 DEF ConfigOK, ConfigTypeOK, OfficerState
<1>3. CASE UNCHANGED configVars
  BY <1>1, <1>3 DEF configVars, NobodyWorks, OfficerInv, Alone
<1>4. CASE Reassign
  BY <1>1, <1>4 DEF Reassign, NobodyWorks, OfficerInv, Alone
(* A request that starts and does not meet another one.                    *)
<1>5. ASSUME NEW o \in Officers, Meets(o)
      PROVE  ~overlapped /\ NobodyWorks /\ AtRest /\ Alone(o)
  BY <1>1, <1>5 DEF Meets, NobodyWorks, Alone
<1>6. ASSUME NEW o \in Officers, officer[o].pc # "idle", UNCHANGED overlapped
      PROVE  Alone(o) /\ OfficerInv(o)
  BY <1>1, <1>6
<1>7. ASSUME NEW o \in Officers, Enable(o)
      PROVE  /\ (NobodyWorks => AtRest)'
             /\ \A p \in Officers : OfficerInv(p)'
             /\ \A p \in Officers : officer'[p].pc # "idle" => Alone(p)'
  <2>1. CASE EnableCurrent(o)
    <3>1. NobodyWorks /\ AtRest
      BY <1>5, <2>1 DEF EnableCurrent
    <3> QED BY <2>1, <3>1
            DEF EnableCurrent, IsCurrent, NobodyWorks, OfficerInv, Alone
  <2>2. CASE EnableRead(o)
    <3>0. \A old \in Provisioned : old \ byHand = live \ byHand
      BY DEF Provisioned
    <3>1. PICK old \in Provisioned :
              Work(o, [NoWork EXCEPT !.pc = "minting", !.old = old,
                                     !.on = enabled])
      BY <2>2, Zenon DEF EnableRead
    <3> DEFINE w == [NoWork EXCEPT !.pc = "minting", !.old = old,
                                   !.on = enabled]
    <3>2. /\ w.pc = "minting" /\ w.old = old /\ w.on = enabled
          /\ officer' = [officer EXCEPT ![o] = w]
      BY <3>1 DEF NoWork, Work
    <3> HIDE DEF w
    <3>3. Alone(o) /\ AtRest
      BY <1>5, <2>2 DEF EnableRead
    <3>4. UNCHANGED <<minted, live, config, enabled, leftover, byHand>>
      BY <2>2 DEF EnableRead
    <3>5. officer'[o] = w
      BY <1>2, <3>2
    <3>6. OfficerInv(o)'
      BY <3>0, <3>2, <3>3, <3>4, <3>5 DEF OfficerInv
    <3> QED BY <1>2, <3>2, <3>3, <3>6, OneOfficer
  <2>3. ASSUME NEW t \in Tokens, EnableMint(o, t)
        PROVE  /\ (NobodyWorks => AtRest)'
               /\ \A p \in Officers : OfficerInv(p)'
               /\ \A p \in Officers : officer'[p].pc # "idle" => Alone(p)'
    <3> DEFINE w == [officer[o] EXCEPT !.pc = "writing", !.token = t]
    <3>1. /\ w.pc = "writing" /\ w.token = t
          /\ w.old = officer[o].old /\ w.on = officer[o].on
          /\ officer' = [officer EXCEPT ![o] = w]
      BY <1>2, <2>3 DEF EnableMint, Work, OfficerState
    <3> HIDE DEF w
    <3>2. officer[o].pc = "minting" /\ t \notin minted /\ live' = live \cup {t}
      BY <2>3 DEF EnableMint, IsNew
    <3>3. UNCHANGED <<config, enabled, leftover, byHand, overlapped>>
      BY <2>3 DEF EnableMint
    <3>4. Alone(o) /\ OfficerInv(o)
      BY <1>6, <3>2, <3>3
    <3>5. officer'[o] = w
      BY <1>2, <3>1
    <3>6. /\ officer[o].old \ byHand = live \ byHand
          /\ live \ byHand = Settled \ byHand /\ FlagRight
          /\ t \notin officer[o].old /\ t \notin byHand
      BY <1>2, <3>2, <3>4 DEF OfficerInv
    <3>7. OfficerInv(o)'
      BY <3>1, <3>2, <3>3, <3>4, <3>5, <3>6 DEF OfficerInv
    <3> QED BY <1>2, <3>1, <3>4, <3>7, OneOfficer
  <2>4. CASE EnableWrite(o)
    <3> DEFINE w == [officer[o] EXCEPT !.pc = "revoking"]
    <3>1. /\ w.pc = "revoking" /\ w.token = officer[o].token
          /\ w.old = officer[o].old /\ w.on = officer[o].on
          /\ officer' = [officer EXCEPT ![o] = w]
      BY <1>2, <2>4 DEF EnableWrite, Work, OfficerState
    <3> HIDE DEF w
    <3>2. /\ officer[o].pc = "writing" /\ config' = officer[o].token
          /\ ~leftover' /\ UNCHANGED <<live, enabled, byHand, overlapped>>
      BY <2>4 DEF EnableWrite
    <3>3. Alone(o) /\ OfficerInv(o)
      BY <1>6, <3>2
    <3>4. officer'[o] = w
      BY <1>2, <3>1
    <3>5. OfficerInv(o)'
      BY <3>1, <3>2, <3>3, <3>4 DEF OfficerInv
    <3> QED BY <1>2, <3>1, <3>3, <3>5, OneOfficer
  <2>5. CASE EnableWriteFails(o)
    <3>1. /\ officer[o].pc = "writing" /\ live' = live \ {officer[o].token}
          /\ officer' = [officer EXCEPT ![o] = NoWork]
          /\ UNCHANGED <<config, enabled, leftover, byHand, overlapped>>
      BY <2>5 DEF EnableWriteFails, Finish, Work
    <3>2. Alone(o) /\ OfficerInv(o)
      BY <1>6, <3>1
    <3>3. AtRest'
      BY <3>1, <3>2 DEF OfficerInv
    <3> QED BY <1>2, <3>1, <3>2, <3>3, OneOfficer DEF NoWork
  <2>6. CASE EnableRevoke(o)
    <3>1. /\ officer[o].pc = "revoking" /\ live' = live \ officer[o].old
          /\ enabled' = (enabled \/ ~officer[o].on)
          /\ officer' = [officer EXCEPT ![o] = NoWork]
          /\ UNCHANGED <<config, leftover, byHand, overlapped>>
      BY <2>6 DEF EnableRevoke, Finish, Work
    <3>2. Alone(o) /\ OfficerInv(o)
      BY <1>6, <3>1
    <3>3. /\ config # NoToken /\ ~leftover /\ enabled'
          /\ config \notin officer[o].old
          /\ live \ byHand = (officer[o].old \cup {config}) \ byHand
      BY <1>2, <3>1, <3>2 DEF OfficerInv
    <3>4. live' \ byHand = {config} \ byHand
      BY <3>1, <3>3
    <3>5. AtRest'
      BY <3>1, <3>3, <3>4
    <3> QED BY <1>2, <3>1, <3>2, <3>5, OneOfficer DEF NoWork
  <2> QED BY <1>7, <2>1, <2>2, <2>3, <2>4, <2>5, <2>6 DEF Enable
<1>8. ASSUME NEW o \in Officers, Disable(o)
      PROVE  /\ (NobodyWorks => AtRest)'
             /\ \A p \in Officers : OfficerInv(p)'
             /\ \A p \in Officers : officer'[p].pc # "idle" => Alone(p)'
  <2>1. CASE DisableRevoke(o)
    <3> DEFINE w == [NoWork EXCEPT !.pc = "removing", !.on = enabled]
    <3>1. /\ w.pc = "removing" /\ w.on = enabled
          /\ officer' = [officer EXCEPT ![o] = w]
      BY <2>1 DEF DisableRevoke, Work, NoWork
    <3> HIDE DEF w
    <3>2. live' \subseteq byHand
      BY <2>1 DEF DisableRevoke, Provisioned
    <3>3. UNCHANGED <<config, enabled, byHand>>
      BY <2>1 DEF DisableRevoke
    <3>4. Alone(o) /\ AtRest
      BY <1>5, <2>1 DEF DisableRevoke
    <3>5. officer'[o] = w
      BY <1>2, <3>1
    <3>6. OfficerInv(o)'
      BY <3>1, <3>2, <3>3, <3>4, <3>5 DEF OfficerInv
    <3> QED BY <1>2, <3>1, <3>4, <3>6, OneOfficer
  <2>2. CASE DisableRemove(o)
    <3>1. /\ officer[o].pc = "removing" /\ config' = NoToken
          /\ enabled' = (enabled /\ ~officer[o].on)
          /\ officer' = [officer EXCEPT ![o] = NoWork]
          /\ UNCHANGED <<live, byHand, overlapped>>
      BY <2>2 DEF DisableRemove, Finish, Work
    <3>2. Alone(o) /\ OfficerInv(o)
      BY <1>6, <3>1
    <3>3. AtRest'
      BY <3>1, <3>2 DEF OfficerInv
    <3> QED BY <1>2, <3>1, <3>2, <3>3, OneOfficer DEF NoWork
  <2>3. CASE DisableRemoveFails(o)
    <3>1. /\ officer[o].pc = "removing" /\ leftover'
          /\ officer' = [officer EXCEPT ![o] = NoWork]
          /\ UNCHANGED <<live, config, enabled, byHand, overlapped>>
      BY <2>3 DEF DisableRemoveFails, Finish, Work
    <3>2. Alone(o) /\ OfficerInv(o)
      BY <1>6, <3>1
    <3>3. AtRest'
      BY <3>1, <3>2 DEF OfficerInv
    <3> QED BY <1>2, <3>1, <3>2, <3>3, OneOfficer DEF NoWork
  <2> QED BY <1>8, <2>1, <2>2, <2>3 DEF Disable
<1>9. ASSUME NEW t \in Tokens, ByHand(t)
      PROVE  /\ (NobodyWorks => AtRest)'
             /\ \A p \in Officers : OfficerInv(p)'
             /\ \A p \in Officers : officer'[p].pc # "idle" => Alone(p)'
  <2>1. /\ byHand' = byHand \cup {t}
        /\ live' = live \cup {t} \/ live' = live \ {t}
        /\ UNCHANGED <<config, enabled, leftover, officer, overlapped>>
    BY <1>9 DEF ByHand
  <2>2. NobodyWorks' <=> NobodyWorks
    BY <2>1 DEF NobodyWorks
  <2>3. \A p \in Officers : Alone(p)' <=> Alone(p)
    BY <2>1 DEF Alone
  <2>4. AtRest => AtRest'
    BY <2>1
  <2>5. ASSUME NEW p \in Officers, OfficerInv(p) PROVE OfficerInv(p)'
    BY <2>1, <2>4, <2>5 DEF OfficerInv
  <2> QED BY <1>1, <2>1, <2>2, <2>3, <2>4, <2>5
<1> QED BY <1>3, <1>4, <1>7, <1>8, <1>9 DEF ConfigNext

(* Until two officers' requests for the instrument overlap, and for any    *)
(* number of officers: between requests the config names the one live      *)
(* credential and the panel says whether there is a config, whatever       *)
(* failed, and whatever was done by hand to other credentials.             *)
THEOREM ProvisioningSound ==
    Spec => [](ConfigIsLive /\ NoLooseCredential /\ FlagMatchesFile)
<1>1. Init => ConfigInv
  BY ConfigInitially
<1>2. ConfigInv /\ [Next]_vars => ConfigInv'
  BY ConfigMoves, ConfigKept
<1>3. ConfigInv => ConfigIsLive /\ NoLooseCredential /\ FlagMatchesFile
  BY DEF ConfigInv, AtRest, FlagRight, Settled, ConfigIsLive,
         NoLooseCredential, FlagMatchesFile
<1> QED BY <1>1, <1>2, <1>3, PTL DEF Spec

----------------------------------------------------------------------------
(***************************************************************************)
(* Imports, for any number of processes.                                   *)
(***************************************************************************)

(* What a step does to the requests: a handler's own step, or one that     *)
(* starts, authenticates or ends a request.                                *)
Quiet == /\ UNCHANGED <<sessions, bytes>>
         /\ {leaks', uploads', faults', kills'} \subseteq Nat
         /\ failed' \subseteq Files /\ races' \in [Files -> Nat]
         /\ \A f \in Files : races[f] <= races'[f]
Begins(h) ==
    /\ request[h].pc = "idle"
    /\ \E r \in RequestState :
          /\ r.pc \in {"connecting", "arrived"} /\ r.file \in Files
          /\ request' = [request EXCEPT ![h] = r]
    /\ Quiet
Authenticates(h) ==
    /\ request[h].pc = "connecting"
    /\ Goto(h, "arrived") \/ Goto(h, "denied")
    /\ Quiet
Ends(h) == Drop(h) /\ Quiet
ImportMove ==
    \E h \in Handlers : Handle(h) \/ Begins(h) \/ Authenticates(h) \/ Ends(h)
Still == UNCHANGED <<sessions, bytes, request>> /\ Quiet

LEMMA ImportMoves ==
    ASSUME ImportTypeOK, [Next]_vars PROVE ImportMove \/ Still
<1> USE DEF Still, Quiet, ImportMove, importVars, ImportTypeOK, FaultHappens
<1>1. CASE UNCHANGED vars
  BY <1>1 DEF vars
<1>2. ASSUME NEW f \in Files, NEW h \in Handlers, Post(f, h)
      PROVE  ImportMove
  <2>1. [pc |-> "connecting", file |-> f, named |-> FALSE] \in RequestState
    BY DEF RequestState
  <2>2. Quiet
    BY <1>2 DEF Post
  <2> QED BY <1>2, <2>1, <2>2 DEF Post, Begins
<1>3. CASE \E f \in Files : Export(f) \/ PostLost(f)
  BY <1>3 DEF Export, PostLost
<1>4. CASE Tick \/ TickUnsaved \/ Restart
  BY <1>4 DEF Tick, TickUnsaved, Restart
<1>5. ASSUME NEW h \in Handlers, Platform(h) PROVE ImportMove
  BY <1>5 DEF Platform, Authenticate, Authenticates, Goto
<1>6. ASSUME NEW h \in Handlers, Unheard(h) \/ Killed(h) PROVE ImportMove
  BY <1>6 DEF Unheard, Killed, Hangup, KillHandler, Ends
<1>7. ASSUME NEW h \in Handlers, Receive(h) \/ ReceiveUnsaved(h)
      PROVE  ImportMove
  BY <1>7 DEF Receive, ReceiveUnsaved, Ends
<1>8. CASE \E h \in Handlers : GiveUp(h)
  BY <1>8 DEF GiveUp
<1>9. ASSUME NEW h \in Handlers, UploadByHand(h) PROVE ImportMove
  <2>1. PICK f \in Files, named \in BOOLEAN : Upload(h, f, named)
    BY <1>9 DEF UploadByHand
  <2>2. [pc |-> "arrived", file |-> f, named |-> named] \in RequestState
    BY DEF RequestState
  <2>3. Quiet
    BY <2>1 DEF Upload
  <2>4. Begins(h)
    BY <2>1, <2>2, <2>3 DEF Upload, Begins
  <2> QED BY <2>4
<1>10. CASE ConfigNext /\ UNCHANGED <<importVars, gatewayVars>>
  BY <1>10
<1> QED
  BY <1>1, <1>2, <1>3, <1>4, <1>5, <1>6, <1>7, <1>8, <1>9, <1>10 DEF Next

(* Every session, and every import about to become one, has its own copy   *)
(* of the original.                                                        *)
ImportInv ==
    /\ ImportTypeOK
    /\ \A h \in Handlers : request[h].pc # "idle" => request[h].file \in Files
    /\ \A h \in Handlers :
          request[h].pc \in Accepted => sessions[request[h].file] > 0
    /\ \A f \in Files : sessions[f] + Cardinality(Storing(f)) <= bytes[f]

(* How a set of processes changes when at most one of them joins it or     *)
(* leaves it.                                                              *)
LEMMA CountMoves ==
    ASSUME NEW S, NEW T, NEW h, IsFiniteSet(S),
           \A g : g # h => (g \in T <=> g \in S)
    PROVE  /\ Cardinality(S) \in Nat /\ Cardinality(T) \in Nat
           /\ h \in T /\ h \notin S => Cardinality(T) = Cardinality(S) + 1
           /\ h \notin T /\ h \in S => Cardinality(T) = Cardinality(S) - 1
           /\ (h \in T <=> h \in S) => Cardinality(T) = Cardinality(S)
<1>1. CASE h \in T /\ h \notin S
  <2>1. T = S \cup {h}
    BY <1>1
  <2> QED BY <1>1, <2>1, FS_AddElement, FS_CardinalityType
<1>2. CASE h \notin T /\ h \in S
  <2>1. T = S \ {h}
    BY <1>2
  <2> QED BY <1>2, <2>1, FS_RemoveElement, FS_CardinalityType
<1>3. CASE h \in T <=> h \in S
  <2>1. T = S
    BY <1>3
  <2> QED BY <1>3, <2>1, FS_CardinalityType
<1> QED BY <1>1, <1>2, <1>3

(* What happens to the storing processes when one request changes.         *)
LEMMA StoringMoves ==
    ASSUME IsFiniteSet(Handlers), request \in [Handlers -> RequestState],
           NEW h \in Handlers, NEW r \in RequestState,
           request' = [request EXCEPT ![h] = r], NEW f \in Files
    PROVE  /\ Cardinality(Storing(f)) \in Nat
           /\ Cardinality(Storing(f)') \in Nat
           /\ h \in Storing(f)' /\ h \notin Storing(f)
                 => Cardinality(Storing(f)') = Cardinality(Storing(f)) + 1
           /\ h \notin Storing(f)' /\ h \in Storing(f)
                 => Cardinality(Storing(f)') = Cardinality(Storing(f)) - 1
           /\ (h \in Storing(f)' <=> h \in Storing(f))
                 => Cardinality(Storing(f)') = Cardinality(Storing(f))
           /\ h \in Storing(f)' <=> r.pc = "stored" /\ r.file = f
<1>1. IsFiniteSet(Storing(f))
  BY FS_Subset DEF Storing
<1>2. ASSUME NEW g, g # h PROVE g \in Storing(f)' <=> g \in Storing(f)
  BY <1>2 DEF Storing
<1>3. h \in Storing(f)' <=> r.pc = "stored" /\ r.file = f
  BY DEF Storing
<1> HIDE DEF Storing
<1> QED BY <1>1, <1>2, <1>3, CountMoves

(* The same of the processes that are past the lookup of f.                *)
LEMMA ImportingMoves ==
    ASSUME IsFiniteSet(Handlers), request \in [Handlers -> RequestState],
           NEW h \in Handlers, NEW r \in RequestState,
           request' = [request EXCEPT ![h] = r], NEW f \in Files
    PROVE  /\ Cardinality(Importing(f)) \in Nat
           /\ Cardinality(Importing(f)') \in Nat
           /\ h \in Importing(f)' /\ h \notin Importing(f)
                 => Cardinality(Importing(f)') = Cardinality(Importing(f)) + 1
           /\ h \notin Importing(f)' /\ h \in Importing(f)
                 => Cardinality(Importing(f)') = Cardinality(Importing(f)) - 1
           /\ (h \in Importing(f)' <=> h \in Importing(f))
                 => Cardinality(Importing(f)') = Cardinality(Importing(f))
           /\ h \in Importing(f)' <=> r.pc \in {"importing", "stored"} /\ r.file = f
<1>1. IsFiniteSet(Importing(f))
  BY FS_Subset DEF Importing
<1>2. ASSUME NEW g, g # h PROVE g \in Importing(f)' <=> g \in Importing(f)
  BY <1>2 DEF Importing
<1>3. h \in Importing(f)' <=> r.pc \in {"importing", "stored"} /\ r.file = f
  BY DEF Importing
<1> QED BY <1>1, <1>2, <1>3, CountMoves

LEMMA ImportInitially ==
    ASSUME Init, IsFiniteSet(Handlers) PROVE ImportInv
<1> USE DEF Init, ImportInit
<1>1. ImportTypeOK
  <2>1. NoRequest \in RequestState
    BY DEF NoRequest, RequestState
  <2> QED BY <2>1 DEF ImportTypeOK
<1>2. \A h \in Handlers : request[h].pc = "idle"
  BY DEF NoRequest
<1>3. \A f \in Files : Storing(f) = {}
  BY <1>2 DEF Storing
<1>4. Cardinality({}) = 0
  BY FS_EmptySet
<1>5. \A f \in Files : sessions[f] + Cardinality(Storing(f)) <= bytes[f]
  BY <1>3, <1>4
<1>6. \A h \in Handlers : request[h].pc \notin Accepted
  BY <1>2 DEF Accepted
<1> QED BY <1>1, <1>2, <1>5, <1>6 DEF ImportInv

LEMMA ImportKept ==
    ASSUME ImportInv, IsFiniteSet(Handlers), [Next]_vars
    PROVE  /\ ImportInv'
           /\ \A f \in Files : sessions[f] <= sessions'[f]
<1> USE DEF ImportInv, ImportTypeOK
<1> DEFINE Goal == /\ ImportInv'
                   /\ \A f \in Files : sessions[f] <= sessions'[f]
           Becomes(h, r) == /\ r \in RequestState
                            /\ request' = [request EXCEPT ![h] = r]
<1>1. CASE Still
  BY <1>1 DEF Still, Quiet, Storing
(* A step that keeps sessions and bytes, and stores nothing. *)
<1>2. ASSUME NEW h \in Handlers, NEW r \in RequestState, Quiet,
             request' = [request EXCEPT ![h] = r],
             r.pc # "stored" \/ r = request[h],
             r.pc # "idle" => r.file \in Files,
             r.pc \in Accepted => sessions[r.file] > 0
      PROVE  Goal
  <2>1. \A f \in Files : Cardinality(Storing(f)') <= Cardinality(Storing(f))
                        /\ Cardinality(Storing(f)') \in Nat
                        /\ Cardinality(Storing(f)) \in Nat
    <3> SUFFICES ASSUME NEW f \in Files
                 PROVE  /\ Cardinality(Storing(f)') <= Cardinality(Storing(f))
                        /\ Cardinality(Storing(f)') \in Nat
                        /\ Cardinality(Storing(f)) \in Nat
      OBVIOUS
    <3>1. h \in Storing(f) <=> request[h].pc = "stored" /\ request[h].file = f
      BY DEF Storing
    <3>2. /\ Cardinality(Storing(f)) \in Nat /\ Cardinality(Storing(f)') \in Nat
          /\ h \notin Storing(f)' /\ h \in Storing(f)
                => Cardinality(Storing(f)') = Cardinality(Storing(f)) - 1
          /\ (h \in Storing(f)' <=> h \in Storing(f))
                => Cardinality(Storing(f)') = Cardinality(Storing(f))
          /\ h \in Storing(f)' <=> r.pc = "stored" /\ r.file = f
      BY <1>2, StoringMoves
    <3>3. h \in Storing(f)' => h \in Storing(f)
      BY <1>2, <3>1, <3>2
    <3> QED BY <3>2, <3>3
  <2> QED BY <1>2, <2>1 DEF Quiet
<1>3. ASSUME NEW h \in Handlers, Begins(h) \/ Authenticates(h) \/ Ends(h)
      PROVE  Goal
  <2>1. CASE Begins(h)
    BY <1>2, <2>1 DEF Begins, Accepted
  <2>2. CASE Authenticates(h)
    <3>1. PICK pc \in {"arrived", "denied"} : Goto(h, pc)
      BY <2>2 DEF Authenticates
    <3> DEFINE r == [request[h] EXCEPT !.pc = pc]
    <3>2. /\ r \in RequestState /\ r.pc = pc /\ r.file = request[h].file
          /\ request' = [request EXCEPT ![h] = r]
      BY <3>1 DEF Goto, RequestState, Answers
    <3> HIDE DEF r
    <3> QED BY <1>2, <2>2, <3>2 DEF Authenticates, Accepted
  <2>3. CASE Ends(h)
    <3>1. NoRequest \in RequestState /\ NoRequest.pc = "idle"
      BY DEF NoRequest, RequestState
    <3> QED BY <1>2, <2>3, <3>1 DEF Ends, Drop, Accepted
  <2> QED BY <1>3, <2>1, <2>2, <2>3
<1>4. ASSUME NEW h \in Handlers, Handle(h)
      PROVE  Goal
  <2> DEFINE file == request[h].file
             R(pc) == [request[h] EXCEPT !.pc = pc]
  <2>1. request[h].pc # "idle" /\ file \in Files
    BY <1>4 DEF Handle, AnswerHeld, RefuseBytes, Parse, Store, StoreFail,
                NameTaken, Commit, CommitFail
  <2>2. ASSUME NEW pc \in {"held", "refused", "importing", "stored", "created"}
        PROVE  R(pc) \in RequestState /\ R(pc).pc = pc /\ R(pc).file = file
    BY DEF RequestState, Answers
  <2>3. ASSUME NEW pc, Goto(h, pc)
        PROVE  /\ request' = [request EXCEPT ![h] = R(pc)]
               /\ request'[h] = R(pc)
               /\ \A g \in Handlers \ {h} : request'[g] = request[g]
    BY <2>3 DEF Goto
  (* The copies of each file when h starts or stops storing its own. *)
  <2>4. ASSUME NEW pc \in {"refused", "stored", "created"}, Goto(h, pc),
               NEW f \in Files
        PROVE  /\ Cardinality(Storing(f)) \in Nat
               /\ Cardinality(Storing(f)') \in Nat
               /\ f # file => Cardinality(Storing(f)') = Cardinality(Storing(f))
               /\ f = file /\ pc = "stored" /\ request[h].pc # "stored"
                     => Cardinality(Storing(f)') = Cardinality(Storing(f)) + 1
               /\ f = file /\ pc # "stored" /\ request[h].pc = "stored"
                     => Cardinality(Storing(f)') = Cardinality(Storing(f)) - 1
    <3> HIDE DEF R
    <3>1. h \in Storing(f) <=> request[h].pc = "stored" /\ file = f
      BY DEF Storing
    <3>2. /\ R(pc) \in RequestState /\ R(pc).pc = pc /\ R(pc).file = file
          /\ request' = [request EXCEPT ![h] = R(pc)]
      BY <2>2, <2>3, <2>4
    <3> DEFINE r == R(pc)
    <3> HIDE DEF r
    <3>3. /\ r \in RequestState /\ r.pc = pc /\ r.file = file
          /\ request' = [request EXCEPT ![h] = r]
      BY <3>2 DEF r
    <3>4. /\ Cardinality(Storing(f)) \in Nat /\ Cardinality(Storing(f)') \in Nat
          /\ h \in Storing(f)' /\ h \notin Storing(f)
                => Cardinality(Storing(f)') = Cardinality(Storing(f)) + 1
          /\ h \notin Storing(f)' /\ h \in Storing(f)
                => Cardinality(Storing(f)') = Cardinality(Storing(f)) - 1
          /\ (h \in Storing(f)' <=> h \in Storing(f))
                => Cardinality(Storing(f)') = Cardinality(Storing(f))
          /\ h \in Storing(f)' <=> r.pc = "stored" /\ r.file = f
      BY <3>3, StoringMoves
    <3> QED BY <3>1, <3>3, <3>4
  <2> HIDE DEF R
  <2>5. CASE AnswerHeld(h)
    <3>1. Goto(h, "held") /\ Quiet /\ sessions[file] > 0
      BY <2>5 DEF AnswerHeld, Quiet
    <3> QED BY <1>2, <2>1, <2>2, <2>3, <3>1
  <2>6. CASE RefuseBytes(h) \/ Parse(h) \/ StoreFail(h) \/ NameTaken(h)
    <3>1. PICK pc \in {"refused", "importing"} : Goto(h, pc)
      BY <2>6 DEF RefuseBytes, Parse, StoreFail, NameTaken
    <3>2. Quiet
      BY <2>1, <2>6 DEF RefuseBytes, Parse, Meeting, StoreFail, NameTaken,
                        Quiet, Fails, FaultHappens
    <3> QED BY <1>2, <2>1, <2>2, <2>3, <3>1, <3>2 DEF Accepted
  <2>7. CASE Store(h)
    <3>1. /\ Goto(h, "stored") /\ request[h].pc = "importing"
          /\ bytes' = [bytes EXCEPT ![file] = @ + 1]
          /\ UNCHANGED <<sessions, failed, races, leaks, uploads, faults, kills>>
      BY <2>7 DEF Store
    <3>2. \A f \in Files : sessions'[f] + Cardinality(Storing(f)') <= bytes'[f]
      BY <2>1, <2>4, <3>1
    <3> QED BY <2>1, <2>2, <2>3, <3>1, <3>2 DEF Accepted
  <2>8. CASE Commit(h)
    <3>1. /\ Goto(h, "created") /\ request[h].pc = "stored"
          /\ sessions' = [sessions EXCEPT ![file] = @ + 1]
          /\ UNCHANGED <<bytes, failed, races, leaks, uploads, faults, kills>>
      BY <2>8 DEF Commit
    <3>2. \A f \in Files : sessions'[f] + Cardinality(Storing(f)') <= bytes'[f]
      BY <2>1, <2>4, <3>1
    <3>3. \A f \in Files : sessions'[f] \in Nat /\ sessions[f] <= sessions'[f]
      BY <2>1, <3>1
    <3>4. sessions'[file] > 0
      BY <2>1, <3>1
    <3> QED BY <2>1, <2>2, <2>3, <3>1, <3>2, <3>3, <3>4 DEF Accepted
  <2>9. CASE CommitFail(h)
    <3>1. /\ Goto(h, "refused") /\ request[h].pc = "stored"
          /\ \/ bytes' = [bytes EXCEPT ![file] = @ - 1] /\ leaks' = leaks
             \/ bytes' = bytes /\ leaks' = leaks + 1
          /\ faults' = faults + 1 /\ failed' = failed \cup {file}
          /\ UNCHANGED <<sessions, races, uploads, kills>>
      BY <2>9 DEF CommitFail, Fails, FaultHappens
    <3>2. \A f \in Files : sessions'[f] + Cardinality(Storing(f)') <= bytes'[f]
      BY <2>1, <2>4, <3>1
    <3>3. bytes' \in [Files -> Nat]
      <4>1. \A f \in Files : bytes'[f] \in Int /\ sessions'[f] \in Nat
        BY <2>1, <3>1
      <4>2. \A f \in Files : bytes'[f] \in Nat
        BY <2>4, <3>1, <3>2, <4>1
      <4> QED BY <3>1, <4>2
    <3> QED BY <2>1, <2>2, <2>3, <3>1, <3>2, <3>3 DEF Accepted
  <2> QED BY <1>4, <2>5, <2>6, <2>7, <2>8, <2>9 DEF Handle
<1> QED BY <1>1, <1>3, <1>4, ImportMoves DEF ImportMove

(* "The raw bytes are kept because the packets are an interpretation of    *)
(* them": no failed, killed or repeated import takes the original away     *)
(* from a session, for any number of processes.                            *)
THEOREM OriginalsKept ==
    ASSUME IsFiniteSet(Handlers)
    PROVE  Spec => []OriginalsAreKept
<1>1. Init => ImportInv
  BY ImportInitially
<1>2. ImportInv /\ [Next]_vars => ImportInv'
  BY ImportKept
<1>3. ImportInv => OriginalsAreKept
  <2> SUFFICES ASSUME ImportInv, NEW f \in Files
               PROVE  sessions[f] <= bytes[f]
    BY DEF OriginalsAreKept
  <2>1. Cardinality(Storing(f)) \in Nat
    BY FS_Subset, FS_CardinalityType DEF Storing
  <2> QED BY <2>1 DEF ImportInv, ImportTypeOK
<1> QED BY <1>1, <1>2, <1>3, PTL DEF Spec


----------------------------------------------------------------------------
(***************************************************************************)
(* The gateway's ledger.                                                   *)
(***************************************************************************)
LEMMA MintedGrows == ASSUME [ConfigNext]_configVars PROVE minted \subseteq minted'
<1>1. ASSUME NEW o \in Officers, Enable(o) \/ Disable(o)
      PROVE  minted \subseteq minted'
  <2>1. EnableRead(o) => UNCHANGED minted
    BY Zenon DEF EnableRead
  <2>2. DisableRevoke(o) => UNCHANGED minted
    BY Zenon DEF DisableRevoke
  <2> QED BY <1>1, <2>1, <2>2
          DEF Enable, EnableCurrent, EnableMint, EnableWrite, EnableWriteFails,
              EnableRevoke, Disable, DisableRemove, DisableRemoveFails
<1> QED BY <1>1 DEF ConfigNext, Reassign, ByHand, configVars

GatewayTypeOK ==
    /\ folder \subseteq Files /\ todo \subseteq folder /\ sent \subseteq Files
    /\ token \in minted \cup {NoToken}
    /\ waiting \in Handlers \cup {NoHandler}
    /\ cred \in [Handlers -> Tokens \cup {NoToken}]
    /\ refused \in [Files -> Verdicts]
    /\ {restarts, timeouts} \subseteq Nat

(* The file the gateway waits for is one it has yet to record.             *)
Outstanding ==
    waiting \in Handlers =>
        /\ request[waiting].pc # "idle"
        /\ request[waiting].file \notin sent \cup todo
        /\ cred[waiting] \in Tokens

LedgerInv ==
    /\ GatewayTypeOK
    /\ todo \cap sent = {}
    /\ todo # {} => token # NoToken
    /\ Outstanding
    /\ LedgerTellsTruth /\ NeverSentAndRefused

IInv == ImportInv /\ ConfigOK /\ LedgerInv

LEMMA Initially == ASSUME Init, IsFiniteSet(Handlers) PROVE IInv
<1>1. ConfigOK
  BY ConfigInitially DEF ConfigInv
<1>2. LedgerInv
  BY GatewayAssumption
     DEF Init, LedgerInv, GatewayTypeOK, Outstanding, LedgerTellsTruth,
         NeverSentAndRefused, Verdicts
<1> QED BY <1>1, <1>2, ImportInitially DEF IInv

(* A request that the gateway is not waiting for does not concern it.      *)
LEMMA OthersRequests ==
    ASSUME LedgerInv, NEW h \in Handlers, waiting # h,
           \A g \in Handlers \ {h} : request'[g] = request[g],
           \A f \in Files : sessions[f] > 0 => sessions'[f] > 0,
           UNCHANGED <<configVars, gatewayVars>>
    PROVE  LedgerInv'
  BY DEF LedgerInv, GatewayTypeOK, Outstanding, LedgerTellsTruth,
         NeverSentAndRefused, configVars, gatewayVars

LEMMA LedgerKept ==
    ASSUME IInv, IsFiniteSet(Handlers), [Next]_vars PROVE LedgerInv'
<1>1. /\ \A f \in Files : sessions[f] \in Nat /\ sessions'[f] \in Nat
      /\ \A f \in Files : sessions[f] <= sessions'[f]
  BY ImportKept DEF IInv, ImportInv, ImportTypeOK
<1>2. \A f \in Files : sessions[f] > 0 => sessions'[f] > 0
  BY <1>1
<1>3. minted \subseteq minted'
  BY MintedGrows, ConfigMoves
<1>4. /\ minted \subseteq Tokens /\ config \in minted \cup {NoToken}
      /\ request \in [Handlers -> RequestState]
      /\ \A h \in Handlers : request[h].pc # "idle" => request[h].file \in Files
      /\ \A h \in Handlers :
            request[h].pc \in Accepted => sessions[request[h].file] > 0
  BY DEF IInv, ConfigOK, ConfigTypeOK, ImportInv, ImportTypeOK
<1> USE TokensAssumption, GatewayAssumption
<1> USE DEF LedgerInv, GatewayTypeOK, Outstanding, LedgerTellsTruth,
            NeverSentAndRefused
<1>5. LedgerInv
  BY DEF IInv
<1>6. CASE UNCHANGED vars
  BY <1>5, <1>6 DEF vars, importVars, configVars, gatewayVars
<1>7. ASSUME NEW f \in Files, Export(f) PROVE LedgerInv'
  BY <1>5, <1>7 DEF Export, importVars, configVars
<1>8. ASSUME NEW f \in Files, PostLost(f) PROVE LedgerInv'
  BY <1>5, <1>8 DEF PostLost, importVars, configVars
<1>9. ASSUME NEW f \in Files, NEW h \in Handlers, Post(f, h) PROVE LedgerInv'
  <2>1. request'[h].pc = "connecting" /\ request'[h].file = f
    BY <1>4, <1>9 DEF Post
  <2>2. token \in Tokens /\ f \in folder /\ f \notin sent
    BY <1>4, <1>5, <1>9 DEF Post
  <2>3. UNCHANGED <<sessions, minted, folder, token, sent, refused, restarts,
                    timeouts>>
    BY <1>9 DEF Post, configVars
  <2>4. /\ cred' = [cred EXCEPT ![h] = token] /\ waiting' = h
        /\ todo' = todo \ {f} /\ f \in todo
    BY <1>9 DEF Post
  <2> QED BY <1>5, <2>1, <2>2, <2>3, <2>4
<1>10. CASE Tick
  <2>1. /\ token' = config /\ waiting = NoHandler
        /\ UNCHANGED <<sessions, minted, folder, waiting, cred, sent, restarts,
                       timeouts>>
    BY <1>10 DEF Tick, importVars, configVars
  <2>2. CASE config = NoToken
    BY <1>4, <1>5, <1>10, <2>1, <2>2 DEF Tick
  <2>3. CASE config # NoToken
    <3>1. /\ refused' = Reoffered
          /\ todo' = {f \in folder \ sent : refused'[f] = "no"}
      BY <1>10, <2>3 DEF Tick
    <3>2. /\ refused' \in [Files -> Verdicts]
          /\ \A f \in Files : refused[f] = "no" => refused'[f] = "no"
      BY <1>5, <3>1 DEF Reoffered, Verdicts
    <3> QED BY <1>4, <1>5, <2>1, <2>3, <3>1, <3>2
  <2> QED BY <2>2, <2>3
<1>11. CASE TickUnsaved \/ Restart
  BY <1>5, <1>11 DEF TickUnsaved, Restart, importVars, configVars
<1>12. ASSUME NEW h \in Handlers, Platform(h) PROVE LedgerInv'
  <2>1. PICK pc : pc # "idle" /\ Goto(h, pc)
    BY <1>12 DEF Platform, Authenticate, Handle, AnswerHeld, RefuseBytes, Parse,
                 Store, StoreFail, NameTaken, Commit, CommitFail
  <2>2. request[h].pc # "idle"
    BY <1>12 DEF Platform, Authenticate, Handle, AnswerHeld, RefuseBytes, Parse,
                 Store, StoreFail, NameTaken, Commit, CommitFail
  <2>3. /\ \A g \in Handlers : request'[g].file = request[g].file
        /\ \A g \in Handlers : request[g].pc # "idle" => request'[g].pc # "idle"
    BY <1>4, <2>1 DEF Goto, RequestState
  <2>4. UNCHANGED <<configVars, gatewayVars>>
    BY <1>12 DEF Platform, Authenticate
  <2> QED BY <1>2, <1>5, <2>3, <2>4 DEF configVars, gatewayVars
<1>13. ASSUME NEW h \in Handlers, Unheard(h) PROVE LedgerInv'
  BY <1>2, <1>4, <1>5, <1>13, OthersRequests DEF Unheard, Hangup, Drop
<1>14. ASSUME NEW h \in Handlers, Killed(h) PROVE LedgerInv'
  <2>1. /\ \A g \in Handlers \ {h} : request'[g] = request[g]
        /\ waiting' = IF waiting = h THEN NoHandler ELSE waiting
        /\ UNCHANGED <<minted, folder, token, todo, cred, sent, refused,
                       restarts, timeouts>>
    BY <1>4, <1>14 DEF Killed, KillHandler, Drop, configVars
  <2> QED BY <1>2, <1>5, <2>1
<1>15. ASSUME NEW h \in Handlers, Receive(h) PROVE LedgerInv'
  <2> DEFINE f == request[h].file
             pc == request[h].pc
  <2>1. /\ sent' = IF pc \in Accepted THEN sent \cup {f} ELSE sent
        /\ refused' = [refused EXCEPT ![f] =
                           CASE pc = "refused" -> "content"
                             [] pc = "denied" -> cred[h]
                             [] OTHER -> "no"]
        /\ waiting = h /\ waiting' = NoHandler
        /\ UNCHANGED <<sessions, minted, folder, token, todo, cred, restarts,
                       timeouts>>
    BY <1>15 DEF Receive, configVars
  <2>2. f \in Files /\ f \notin sent \cup todo /\ cred[h] \in Tokens
    BY <1>4, <1>5, <2>1
  <2>3. pc \in Accepted => sessions[f] > 0
    BY <1>4
  <2>4. pc \in Accepted => pc # "refused" /\ pc # "denied"
    BY DEF Accepted
  <2>5. refused' \in [Files -> Verdicts]
    <3>1. (CASE pc = "refused" -> "content"
             [] pc = "denied" -> cred[h]
             [] OTHER -> "no") \in Verdicts
      BY <2>2 DEF Verdicts
    <3> QED BY <1>5, <2>1, <3>1
  <2>6. \A g \in sent' : sessions'[g] > 0 /\ refused'[g] = "no"
    BY <1>5, <2>1, <2>2, <2>3, <2>4
  <2>7. sent' \subseteq Files /\ todo' \cap sent' = {}
    BY <1>5, <2>1, <2>2
  <2> QED BY <1>5, <2>1, <2>5, <2>6, <2>7
<1>16. ASSUME NEW h \in Handlers, ReceiveUnsaved(h) PROVE LedgerInv'
  BY <1>5, <1>16 DEF ReceiveUnsaved, configVars
<1>17. ASSUME NEW h \in Handlers, GiveUp(h) PROVE LedgerInv'
  BY <1>5, <1>17 DEF GiveUp, importVars, configVars
<1>18. ASSUME NEW h \in Handlers, UploadByHand(h),
              UNCHANGED <<configVars, gatewayVars>>
       PROVE  LedgerInv'
  <2>1. /\ request[h].pc = "idle"
        /\ \A g \in Handlers \ {h} : request'[g] = request[g]
    BY <1>4, <1>18 DEF UploadByHand, Upload
  <2> QED BY <1>2, <1>5, <1>18, <2>1, OthersRequests
<1>19. CASE ConfigNext /\ UNCHANGED <<importVars, gatewayVars>>
  BY <1>3, <1>5, <1>19 DEF importVars, gatewayVars
<1> QED
  BY <1>6, <1>7, <1>8, <1>9, <1>10, <1>11, <1>12, <1>13, <1>14, <1>15, <1>16,
     <1>17, <1>18, <1>19 DEF Next

LEMMA Kept ==
    ASSUME IInv, IsFiniteSet(Handlers), [Next]_vars PROVE IInv'
  BY ImportKept, ConfigMoves, ConfigOKKept, LedgerKept DEF IInv

(* Whatever the gateway, the platform and the officers do, every variable  *)
(* keeps its type; in particular the credential served is a minted one.    *)
THEOREM TypesHold == ASSUME IsFiniteSet(Handlers) PROVE Spec => []TypeOK
<1>1. Init => IInv
  BY Initially
<1>2. IInv /\ [Next]_vars => IInv'
  BY Kept
<1>3. IInv => TypeOK
  BY DEF IInv, ImportInv, ConfigOK, LedgerInv, GatewayTypeOK, TypeOK
<1> QED BY <1>1, <1>2, <1>3, PTL DEF Spec

(* "An entry is written only after the platform has confirmed it holds     *)
(* those bytes": whatever answers, processes and restarts are lost, a file *)
(* the gateway never offers again has a session, and is no refusal.        *)
THEOREM LedgerSound ==
    ASSUME IsFiniteSet(Handlers)
    PROVE  Spec => [](LedgerTellsTruth /\ NeverSentAndRefused)
<1>1. Init => IInv
  BY Initially
<1>2. IInv /\ [Next]_vars => IInv'
  BY Kept
<1>3. IInv => LedgerTellsTruth /\ NeverSentAndRefused
  BY DEF IInv, LedgerInv
<1> QED BY <1>1, <1>2, <1>3, PTL DEF Spec

----------------------------------------------------------------------------
(***************************************************************************)
(* How often one capture can be filed, and what a refusal says.            *)
(***************************************************************************)
LEMMA GotoMoves ==
    ASSUME request \in [Handlers -> RequestState], NEW h \in Handlers, NEW pc,
           Goto(h, pc)
    PROVE  /\ request'[h].pc = pc /\ request'[h].file = request[h].file
           /\ request'[h].named = request[h].named
           /\ \A g \in Handlers \ {h} : request'[g] = request[g]
  BY DEF Goto, RequestState

(* Each process that is past the lookup either met another one, or may     *)
(* still file the one session that the file is due.                        *)
OnceInv ==
    \A f \in Files : sessions[f] + Cardinality(Importing(f)) <= 1 + races[f]

LEMMA OnceKept ==
    ASSUME ImportInv, OnceInv, IsFiniteSet(Handlers), [Next]_vars
    PROVE  OnceInv'
<1>1. /\ request \in [Handlers -> RequestState]
      /\ sessions \in [Files -> Nat] /\ races \in [Files -> Nat]
      /\ \A h \in Handlers : request[h].pc # "idle" => request[h].file \in Files
      /\ \A f \in Files : sessions[f] + Cardinality(Importing(f)) <= 1 + races[f]
  BY DEF ImportInv, ImportTypeOK, OnceInv
<1>2. CASE Still
  <2>1. \A f \in Files : Importing(f)' = Importing(f)
    BY <1>2 DEF Still, Importing
  <2>2. \A f \in Files : sessions'[f] = sessions[f]
    BY <1>2 DEF Still, Quiet
  <2> SUFFICES ASSUME NEW f \in Files
               PROVE  sessions'[f] + Cardinality(Importing(f)') <= 1 + races'[f]
    BY DEF OnceInv
  <2>3. /\ sessions[f] \in Nat /\ races[f] \in Nat /\ races'[f] \in Nat
        /\ races[f] <= races'[f] /\ Cardinality(Importing(f)) \in Nat
        /\ sessions[f] + Cardinality(Importing(f)) <= 1 + races[f]
    BY <1>1, <1>2, FS_Subset, FS_CardinalityType DEF Still, Quiet, Importing
  <2> QED BY <2>1, <2>2, <2>3
(* A step that files nothing and lets nobody past the lookup. *)
<1>3. ASSUME NEW h \in Handlers, NEW r \in RequestState,
             request' = [request EXCEPT ![h] = r], sessions' = sessions,
             \A f \in Files : races[f] <= races'[f] /\ races'[f] \in Nat,
             \/ r.pc \notin {"importing", "stored"}
             \/ /\ request[h].pc \in {"importing", "stored"}
                /\ r.file = request[h].file
      PROVE  OnceInv'
  <2> SUFFICES ASSUME NEW f \in Files
               PROVE  sessions'[f] + Cardinality(Importing(f)') <= 1 + races'[f]
    BY DEF OnceInv
  <2>1. h \in Importing(f)' => h \in Importing(f)
    BY <1>1, <1>3 DEF Importing
  <2>2. /\ Cardinality(Importing(f)) \in Nat /\ Cardinality(Importing(f)') \in Nat
        /\ h \notin Importing(f)' /\ h \in Importing(f)
              => Cardinality(Importing(f)') = Cardinality(Importing(f)) - 1
        /\ (h \in Importing(f)' <=> h \in Importing(f))
              => Cardinality(Importing(f)') = Cardinality(Importing(f))
    BY <1>1, <1>3, ImportingMoves
  <2>3. Cardinality(Importing(f)') <= Cardinality(Importing(f))
    BY <2>1, <2>2
  <2>4. /\ sessions[f] \in Nat /\ races[f] \in Nat /\ sessions'[f] = sessions[f]
        /\ races[f] <= races'[f] /\ races'[f] \in Nat
        /\ sessions[f] + Cardinality(Importing(f)) <= 1 + races[f]
    BY <1>1, <1>3
  <2> QED BY <2>2, <2>3, <2>4
<1>4. ASSUME NEW h \in Handlers, Begins(h) \/ Authenticates(h) \/ Ends(h)
      PROVE  OnceInv'
  <2>1. sessions' = sessions
    BY <1>4 DEF Begins, Authenticates, Ends, Quiet
  <2>2. \A f \in Files : races[f] <= races'[f] /\ races'[f] \in Nat
    BY <1>4 DEF Begins, Authenticates, Ends, Quiet
  <2>3. CASE Begins(h)
    BY <1>3, <2>1, <2>2, <2>3 DEF Begins
  <2>4. CASE Authenticates(h)
    <3>1. PICK pc \in {"arrived", "denied"} : Goto(h, pc)
      BY <2>4 DEF Authenticates
    <3> DEFINE r == [request[h] EXCEPT !.pc = pc]
    <3>2. /\ r \in RequestState /\ r.pc = pc
          /\ request' = [request EXCEPT ![h] = r]
      BY <1>1, <3>1 DEF Goto, RequestState, Answers
    <3> HIDE DEF r
    <3> QED BY <1>3, <2>1, <2>2, <3>2
  <2>5. CASE Ends(h)
    <3>1. NoRequest \in RequestState /\ NoRequest.pc = "idle"
      BY DEF NoRequest, RequestState
    <3> QED BY <1>3, <2>1, <2>2, <2>5, <3>1 DEF Ends, Drop
  <2> QED BY <1>4, <2>3, <2>4, <2>5
<1>5. ASSUME NEW h \in Handlers, Handle(h)
      PROVE  OnceInv'
  <2> DEFINE file == request[h].file
             R(pc) == [request[h] EXCEPT !.pc = pc]
  <2>1. request[h].pc # "idle" /\ file \in Files
    BY <1>1, <1>5 DEF Handle, AnswerHeld, RefuseBytes, Parse, Store, StoreFail,
                      NameTaken, Commit, CommitFail
  <2>2. ASSUME NEW pc \in {"held", "refused", "importing", "stored", "created"},
               Goto(h, pc)
        PROVE  /\ R(pc) \in RequestState /\ R(pc).pc = pc /\ R(pc).file = file
               /\ request' = [request EXCEPT ![h] = R(pc)]
    BY <1>1, <2>2 DEF RequestState, Answers, Goto
  <2> HIDE DEF R
  <2>3. CASE AnswerHeld(h) \/ RefuseBytes(h) \/ StoreFail(h) \/ NameTaken(h)
                \/ CommitFail(h)
    <3>1. PICK pc \in {"held", "refused"} : Goto(h, pc)
      BY <2>3 DEF AnswerHeld, RefuseBytes, StoreFail, NameTaken, CommitFail
    <3>2. UNCHANGED <<sessions, races>>
      BY <2>3 DEF AnswerHeld, RefuseBytes, StoreFail, NameTaken, CommitFail
    <3>3. \A f \in Files : races[f] <= races'[f] /\ races'[f] \in Nat
      BY <1>1, <3>2
    <3> QED BY <1>3, <2>2, <3>1, <3>2, <3>3
  <2>4. CASE Store(h)
    <3>1. /\ Goto(h, "stored") /\ request[h].pc = "importing"
          /\ UNCHANGED <<sessions, races>>
      BY <2>4 DEF Store
    <3>2. \A f \in Files : races[f] <= races'[f] /\ races'[f] \in Nat
      BY <1>1, <3>1
    <3> QED BY <1>3, <2>2, <3>1, <3>2
  <2>5. CASE Parse(h)
    <3>1. /\ Goto(h, "importing") /\ request[h].pc = "arrived"
          /\ sessions[file] = 0 /\ UNCHANGED sessions
          /\ races' = [races EXCEPT ![file] =
                          IF Importing(file) = {} THEN @ ELSE @ + 1]
      BY <2>5 DEF Parse, Meeting
    <3> DEFINE r == R("importing")
    <3>2. /\ r \in RequestState /\ r.pc = "importing" /\ r.file = file
          /\ request' = [request EXCEPT ![h] = r]
      BY <2>2, <3>1
    <3> HIDE DEF r
    <3> SUFFICES ASSUME NEW f \in Files
                 PROVE  sessions'[f] + Cardinality(Importing(f)') <= 1 + races'[f]
      BY DEF OnceInv
    <3>3. h \notin Importing(f)
      BY <3>1 DEF Importing
    <3>4. /\ Cardinality(Importing(f)) \in Nat
          /\ h \in Importing(f)' /\ h \notin Importing(f)
                => Cardinality(Importing(f)') = Cardinality(Importing(f)) + 1
          /\ (h \in Importing(f)' <=> h \in Importing(f))
                => Cardinality(Importing(f)') = Cardinality(Importing(f))
          /\ h \in Importing(f)' <=> r.pc \in {"importing", "stored"} /\ r.file = f
      BY <1>1, <3>2, ImportingMoves
    <3>5. /\ sessions[f] \in Nat /\ races[f] \in Nat
          /\ sessions[f] + Cardinality(Importing(f)) <= 1 + races[f]
      BY <1>1
    <3>6. CASE f # file
      BY <1>1, <3>1, <3>2, <3>3, <3>4, <3>5, <3>6
    <3>7. CASE f = file /\ Importing(f) = {}
      <4>1. Cardinality(Importing(f)) = 0
        BY <3>7, FS_EmptySet
      <4>2. sessions'[f] = 0 /\ races'[f] = races[f]
        BY <1>1, <3>1, <3>7
      <4> QED BY <3>2, <3>3, <3>4, <3>5, <3>7, <4>1, <4>2
    <3>8. CASE f = file /\ Importing(f) # {}
      <4>1. sessions'[f] = sessions[f] /\ races'[f] = races[f] + 1
        BY <1>1, <3>1, <3>8
      <4> QED BY <3>2, <3>3, <3>4, <3>5, <3>8, <4>1
    <3> QED BY <3>6, <3>7, <3>8
  <2>6. CASE Commit(h)
    <3>1. /\ Goto(h, "created") /\ request[h].pc = "stored" /\ UNCHANGED races
          /\ sessions' = [sessions EXCEPT ![file] = @ + 1]
      BY <2>6 DEF Commit
    <3> DEFINE r == R("created")
    <3>2. /\ r \in RequestState /\ r.pc = "created" /\ r.file = file
          /\ request' = [request EXCEPT ![h] = r]
      BY <2>2, <3>1
    <3> HIDE DEF r
    <3> SUFFICES ASSUME NEW f \in Files
                 PROVE  sessions'[f] + Cardinality(Importing(f)') <= 1 + races'[f]
      BY DEF OnceInv
    <3>3. h \in Importing(f) <=> f = file
      BY <3>1 DEF Importing
    <3>4. /\ Cardinality(Importing(f)) \in Nat
          /\ h \notin Importing(f)' /\ h \in Importing(f)
                => Cardinality(Importing(f)') = Cardinality(Importing(f)) - 1
          /\ (h \in Importing(f)' <=> h \in Importing(f))
                => Cardinality(Importing(f)') = Cardinality(Importing(f))
          /\ h \in Importing(f)' <=> r.pc \in {"importing", "stored"} /\ r.file = f
      BY <1>1, <3>2, ImportingMoves
    <3>5. /\ sessions[f] \in Nat /\ races[f] \in Nat /\ races'[f] = races[f]
          /\ sessions[f] + Cardinality(Importing(f)) <= 1 + races[f]
      BY <1>1, <3>1
    <3>6. h \notin Importing(f)'
      BY <3>2, <3>4
    <3>7. CASE f # file
      BY <1>1, <3>1, <3>3, <3>4, <3>5, <3>6, <3>7
    <3>8. CASE f = file
      BY <1>1, <3>1, <3>3, <3>4, <3>5, <3>6, <3>8
    <3> QED BY <3>7, <3>8
  <2> QED BY <1>5, <2>3, <2>4, <2>5, <2>6 DEF Handle
<1> QED BY <1>2, <1>4, <1>5, ImportMoves DEF ImportMove, ImportInv

(* A resend lands "on the session that already exists": for any number of  *)
(* processes, a capture is filed at most once more for each import of it   *)
(* that began while another was running; a lost answer, a killed process   *)
(* or a restarted gateway by itself never files it twice.                  *)
THEOREM ImportedOnce ==
    ASSUME IsFiniteSet(Handlers)
    PROVE  Spec => []NoCaptureTwice
<1>1. Init => ImportInv /\ OnceInv
  <2> SUFFICES ASSUME Init PROVE OnceInv
    BY ImportInitially
  <2>1. \A f \in Files : Importing(f) = {}
    BY DEF Init, ImportInit, NoRequest, Importing
  <2>2. \A f \in Files : Cardinality(Importing(f)) = 0
    BY <2>1, FS_EmptySet
  <2> QED BY <2>2 DEF OnceInv, Init, ImportInit
<1>2. ImportInv /\ OnceInv /\ [Next]_vars => (ImportInv /\ OnceInv)'
  BY ImportKept, OnceKept
<1>3. ImportInv /\ OnceInv => NoCaptureTwice
  <2> SUFFICES ASSUME ImportInv, OnceInv, NEW f \in Files
               PROVE  sessions[f] <= 1 + races[f]
    BY DEF NoCaptureTwice
  <2>1. Cardinality(Importing(f)) \in Nat
    BY FS_Subset, FS_CardinalityType DEF Importing
  <2> QED BY <2>1 DEF OnceInv, ImportInv, ImportTypeOK
<1> QED BY <1>1, <1>2, <1>3, PTL DEF Spec

(* The uploads by hand that may still be refused for their folder's name.  *)
Naming == {h \in Handlers : /\ request[h].named
                           /\ request[h].pc \in {"arrived", "importing", "stored"}}

Owed == kills + uploads + leaks

(* A copy that belongs to no session, nor to an import about to commit, is *)
(* owed to a kill, an upload that has been refused, or a failed discard.   *)
OwedInv ==
    /\ \A h \in Handlers : request[h].pc = "connecting" => ~request[h].named
    /\ \A f \in Files :
          bytes[f] + Cardinality(Naming)
              <= sessions[f] + Cardinality(Storing(f)) + Owed

LEMMA NamingMoves ==
    ASSUME IsFiniteSet(Handlers), request \in [Handlers -> RequestState],
           NEW h \in Handlers, NEW r \in RequestState,
           request' = [request EXCEPT ![h] = r]
    PROVE  /\ Cardinality(Naming) \in Nat /\ Cardinality(Naming') \in Nat
           /\ h \in Naming' /\ h \notin Naming
                 => Cardinality(Naming') = Cardinality(Naming) + 1
           /\ h \notin Naming' /\ h \in Naming
                 => Cardinality(Naming') = Cardinality(Naming) - 1
           /\ (h \in Naming' <=> h \in Naming)
                 => Cardinality(Naming') = Cardinality(Naming)
           /\ h \in Naming'
                 <=> r.named /\ r.pc \in {"arrived", "importing", "stored"}
<1>1. IsFiniteSet(Naming)
  BY FS_Subset DEF Naming
<1>2. ASSUME NEW g, g # h PROVE g \in Naming' <=> g \in Naming
  BY <1>2 DEF Naming
<1>3. h \in Naming' <=> r.named /\ r.pc \in {"arrived", "importing", "stored"}
  BY DEF Naming
<1> HIDE DEF Naming
<1> QED BY <1>1, <1>2, <1>3, CountMoves

(* A step of one request: what it may take from the copies accounted for,  *)
(* it must add to what is owed.                                            *)
LEMMA OwedMoves ==
    ASSUME ImportInv, OwedInv, IsFiniteSet(Handlers),
           NEW h \in Handlers, NEW r \in RequestState,
           request' = [request EXCEPT ![h] = r],
           r.pc = "connecting" => ~r.named,
           Owed \in Nat, Owed' \in Nat,
           \A f \in Files :
              /\ bytes'[f] \in Nat /\ sessions'[f] \in Nat
              /\ (bytes'[f] - bytes[f]) + (IF h \in Naming' THEN 1 ELSE 0)
                     + (IF h \in Storing(f) THEN 1 ELSE 0)
                 <= (sessions'[f] - sessions[f]) + (IF h \in Naming THEN 1 ELSE 0)
                     + (IF h \in Storing(f)' THEN 1 ELSE 0) + (Owed' - Owed)
    PROVE  OwedInv'
<1>1. /\ request \in [Handlers -> RequestState]
      /\ sessions \in [Files -> Nat] /\ bytes \in [Files -> Nat]
  BY DEF ImportInv, ImportTypeOK
<1>2. \A g \in Handlers : request'[g].pc = "connecting" => ~request'[g].named
  BY <1>1 DEF OwedInv
<1>3. ASSUME NEW f \in Files
      PROVE  bytes'[f] + Cardinality(Naming')
                <= sessions'[f] + Cardinality(Storing(f)') + Owed'
  <2> DEFINE n == Cardinality(Naming)       n1 == Cardinality(Naming')
             s == Cardinality(Storing(f))   s1 == Cardinality(Storing(f)')
             i(b) == IF b THEN 1 ELSE 0
  <2>1. /\ n \in Nat /\ n1 \in Nat
        /\ n1 - n = i(h \in Naming') - i(h \in Naming)
    <3>1. /\ n \in Nat /\ n1 \in Nat
          /\ h \in Naming' /\ h \notin Naming => n1 = n + 1
          /\ h \notin Naming' /\ h \in Naming => n1 = n - 1
          /\ (h \in Naming' <=> h \in Naming) => n1 = n
      BY <1>1, NamingMoves
    <3> HIDE DEF n, n1
    <3> QED BY <3>1
  <2>2. /\ s \in Nat /\ s1 \in Nat
        /\ s1 - s = i(h \in Storing(f)') - i(h \in Storing(f))
    <3>1. /\ s \in Nat /\ s1 \in Nat
          /\ h \in Storing(f)' /\ h \notin Storing(f) => s1 = s + 1
          /\ h \notin Storing(f)' /\ h \in Storing(f) => s1 = s - 1
          /\ (h \in Storing(f)' <=> h \in Storing(f)) => s1 = s
      BY <1>1, StoringMoves
    <3> HIDE DEF s, s1
    <3> QED BY <3>1
  <2>3. bytes[f] + n <= sessions[f] + s + Owed
    BY DEF OwedInv
  <2>4. /\ bytes[f] \in Nat /\ sessions[f] \in Nat
        /\ bytes'[f] \in Nat /\ sessions'[f] \in Nat
        /\ (bytes'[f] - bytes[f]) + i(h \in Naming') + i(h \in Storing(f))
               <= (sessions'[f] - sessions[f]) + i(h \in Naming)
                   + i(h \in Storing(f)') + (Owed' - Owed)
    BY <1>1
  <2> HIDE DEF n, n1, s, s1, Owed
  <2>5. bytes'[f] + n1 <= sessions'[f] + s1 + Owed'
    BY <2>1, <2>2, <2>3, <2>4
  <2> QED BY <2>5 DEF n1, s1
<1> QED BY <1>2, <1>3 DEF OwedInv

(* A request that was not storing, and is not.                             *)
LEMMA OwedQuiet ==
    ASSUME ImportInv, OwedInv, IsFiniteSet(Handlers),
           NEW h \in Handlers, NEW r \in RequestState,
           request' = [request EXCEPT ![h] = r], UNCHANGED <<sessions, bytes>>,
           UNCHANGED <<kills, uploads, leaks>>,
           request[h].pc # "stored", r.pc # "stored",
           r.named => request[h].named /\ request[h].pc \in {"arrived", "importing"},
           r.pc = "connecting" => ~r.named
    PROVE  OwedInv'
<1>1. /\ request \in [Handlers -> RequestState]
      /\ sessions \in [Files -> Nat] /\ bytes \in [Files -> Nat]
      /\ Owed \in Nat /\ Owed' = Owed
  BY DEF ImportInv, ImportTypeOK, Owed
<1>2. h \in Naming' => h \in Naming
  BY <1>1 DEF Naming
<1>3. \A f \in Files : h \notin Storing(f) /\ h \notin Storing(f)'
  BY <1>1 DEF Storing
<1>4. \A f \in Files :
         /\ bytes'[f] \in Nat /\ sessions'[f] \in Nat
         /\ (bytes'[f] - bytes[f]) + (IF h \in Naming' THEN 1 ELSE 0)
                + (IF h \in Storing(f) THEN 1 ELSE 0)
            <= (sessions'[f] - sessions[f]) + (IF h \in Naming THEN 1 ELSE 0)
                + (IF h \in Storing(f)' THEN 1 ELSE 0) + (Owed' - Owed)
  <2> HIDE DEF Naming, Storing, Owed
  <2> QED BY <1>1, <1>2, <1>3
<1> QED BY <1>1, <1>4, OwedMoves

LEMMA OwedKept ==
    ASSUME ImportInv, OwedInv, IsFiniteSet(Handlers), [Next]_vars
    PROVE  OwedInv'
<1>1. /\ request \in [Handlers -> RequestState]
      /\ sessions \in [Files -> Nat] /\ bytes \in [Files -> Nat]
      /\ kills \in Nat /\ uploads \in Nat /\ leaks \in Nat
      /\ \A h \in Handlers : request[h].pc # "idle" => request[h].file \in Files
      /\ \A h \in Handlers : request[h].pc = "connecting" => ~request[h].named
  BY DEF ImportInv, ImportTypeOK, OwedInv
<1>0. ImportInv'
  BY ImportKept
<1>2. CASE UNCHANGED <<sessions, bytes, request, kills, uploads, leaks>>
  BY <1>2 DEF OwedInv, Naming, Storing, Owed
(* The typing of a step that OwedMoves asks for. *)
<1>3. /\ \A f \in Files : bytes'[f] \in Nat /\ sessions'[f] \in Nat
      /\ Owed \in Nat /\ Owed' \in Nat
  BY <1>0, <1>1 DEF ImportInv, ImportTypeOK, Owed
<1>4. ASSUME NEW h \in Handlers, NEW f \in Files, Post(f, h) PROVE OwedInv'
  <2> DEFINE r == [pc |-> "connecting", file |-> f, named |-> FALSE]
  <2>1. r \in RequestState /\ r.pc # "stored" /\ ~r.named
    BY DEF RequestState
  <2>2. /\ request' = [request EXCEPT ![h] = r] /\ request[h].pc # "stored"
        /\ UNCHANGED <<sessions, bytes, kills, uploads, leaks>>
    BY <1>4 DEF Post
  <2> HIDE DEF r
  <2> QED BY <2>1, <2>2, OwedQuiet
<1>5. ASSUME NEW h \in Handlers, Drop(h), request[h].pc # "stored",
             UNCHANGED <<sessions, bytes, kills, uploads, leaks>>
      PROVE  OwedInv'
  <2>1. NoRequest \in RequestState /\ NoRequest.pc # "stored" /\ ~NoRequest.named
    BY DEF NoRequest, RequestState
  <2> QED BY <1>5, <2>1, OwedQuiet DEF Drop
(* One more kill is owed, whatever the process was doing. *)
<1>6. ASSUME NEW h \in Handlers, Killed(h) PROVE OwedInv'
  <2>1. /\ request' = [request EXCEPT ![h] = NoRequest]
        /\ UNCHANGED <<sessions, bytes, uploads, leaks>> /\ kills' = kills + 1
    BY <1>6 DEF Killed, KillHandler, Drop
  <2>2. NoRequest \in RequestState /\ NoRequest.pc = "idle"
    BY DEF NoRequest, RequestState
  <2>3. h \notin Naming' /\ Owed' = Owed + 1
    BY <1>1, <2>1, <2>2 DEF Naming, Owed
  <2>4. \A f \in Files :
           (bytes'[f] - bytes[f]) + (IF h \in Naming' THEN 1 ELSE 0)
                  + (IF h \in Storing(f) THEN 1 ELSE 0)
              <= (sessions'[f] - sessions[f]) + (IF h \in Naming THEN 1 ELSE 0)
                  + (IF h \in Storing(f)' THEN 1 ELSE 0) + (Owed' - Owed)
    <3> HIDE DEF Owed
    <3> QED BY <1>1, <1>3, <2>1, <2>3
  <2> QED BY <1>3, <2>1, <2>2, <2>4, OwedMoves
(* One more upload is owed, whether or not it names its folder. *)
<1>7. ASSUME NEW h \in Handlers, UploadByHand(h) PROVE OwedInv'
  <2>1. PICK f \in Files, named \in BOOLEAN : Upload(h, f, named)
    BY <1>7 DEF UploadByHand
  <2> DEFINE r == [pc |-> "arrived", file |-> f, named |-> named]
  <2>2. r \in RequestState /\ r.pc = "arrived"
    BY DEF RequestState
  <2>3. /\ request' = [request EXCEPT ![h] = r] /\ request[h].pc = "idle"
        /\ UNCHANGED <<sessions, bytes, kills, leaks>> /\ uploads' = uploads + 1
    BY <2>1 DEF Upload
  <2> HIDE DEF r
  <2>4. /\ \A g \in Files : h \notin Storing(g) /\ h \notin Storing(g)'
        /\ h \notin Naming /\ Owed' = Owed + 1
    BY <1>1, <2>2, <2>3 DEF Storing, Naming, Owed
  <2>5. \A g \in Files :
           (bytes'[g] - bytes[g]) + (IF h \in Naming' THEN 1 ELSE 0)
                  + (IF h \in Storing(g) THEN 1 ELSE 0)
              <= (sessions'[g] - sessions[g]) + (IF h \in Naming THEN 1 ELSE 0)
                  + (IF h \in Storing(g)' THEN 1 ELSE 0) + (Owed' - Owed)
    <3> HIDE DEF Owed
    <3> QED BY <1>1, <1>3, <2>3, <2>4
  <2> QED BY <1>3, <2>2, <2>3, <2>5, OwedMoves
<1>8. ASSUME NEW h \in Handlers, Handle(h) PROVE OwedInv'
  <2> DEFINE file == request[h].file
             R(pc) == [request[h] EXCEPT !.pc = pc]
  <2>1. request[h].pc # "idle" /\ file \in Files
    BY <1>1, <1>8 DEF Handle, AnswerHeld, RefuseBytes, Parse, Store, StoreFail,
                      NameTaken, Commit, CommitFail
  <2>2. ASSUME NEW pc \in {"held", "refused", "importing", "stored", "created"},
               Goto(h, pc)
        PROVE  /\ R(pc) \in RequestState /\ R(pc).pc = pc
               /\ R(pc).file = file /\ R(pc).named = request[h].named
               /\ request' = [request EXCEPT ![h] = R(pc)]
    BY <1>1, <2>2 DEF RequestState, Answers, Goto
  <2> HIDE DEF R
  <2>3. CASE AnswerHeld(h) \/ RefuseBytes(h) \/ Parse(h) \/ StoreFail(h)
    <3>1. PICK pc \in {"held", "refused", "importing"} : Goto(h, pc)
      BY <2>3 DEF AnswerHeld, RefuseBytes, Parse, StoreFail
    <3>2. /\ UNCHANGED <<sessions, bytes, kills, uploads, leaks>>
          /\ request[h].pc \in {"arrived", "importing"}
      BY <2>3 DEF AnswerHeld, RefuseBytes, Parse, StoreFail
    <3> DEFINE r == R(pc)
    <3>3. /\ r \in RequestState /\ r.pc = pc /\ r.named = request[h].named
          /\ request' = [request EXCEPT ![h] = r]
      BY <2>2, <3>1
    <3> HIDE DEF r
    <3> QED BY <3>2, <3>3, OwedQuiet
  (* A copy is stored. *)
  <2>4. CASE Store(h)
    <3>1. /\ Goto(h, "stored") /\ request[h].pc = "importing"
          /\ bytes' = [bytes EXCEPT ![file] = @ + 1]
          /\ UNCHANGED <<sessions, leaks, uploads, kills>>
      BY <2>4 DEF Store
    <3> DEFINE r == R("stored")
    <3>2. /\ r \in RequestState /\ r.pc = "stored" /\ r.file = file
          /\ r.named = request[h].named /\ request' = [request EXCEPT ![h] = r]
      BY <2>2, <3>1
    <3> HIDE DEF r
    <3>3. /\ \A f \in Files : h \notin Storing(f)
          /\ \A f \in Files : h \in Storing(f)' <=> f = file
          /\ h \in Naming' <=> h \in Naming
          /\ Owed' = Owed
      BY <1>1, <3>1, <3>2 DEF Storing, Naming, Owed
    <3>4. \A f \in Files :
             (bytes'[f] - bytes[f]) + (IF h \in Naming' THEN 1 ELSE 0)
                    + (IF h \in Storing(f) THEN 1 ELSE 0)
                <= (sessions'[f] - sessions[f]) + (IF h \in Naming THEN 1 ELSE 0)
                    + (IF h \in Storing(f)' THEN 1 ELSE 0) + (Owed' - Owed)
      <4> HIDE DEF Owed
      <4>1. \A f \in Files : bytes'[f] - bytes[f] = IF f = file THEN 1 ELSE 0
        BY <1>1, <2>1, <3>1
      <4> QED BY <1>1, <1>3, <3>1, <3>3, <4>1
    <3> QED BY <1>3, <3>2, <3>4, OwedMoves
  (* It becomes that of a session, or is discarded, or is owed. *)
  <2>5. CASE Commit(h) \/ CommitFail(h) \/ NameTaken(h)
    <3>1. PICK pc \in {"created", "refused"} : Goto(h, pc)
      BY <2>5 DEF Commit, CommitFail, NameTaken
    <3>2. request[h].pc = "stored" /\ UNCHANGED <<uploads, kills>>
      BY <2>5 DEF Commit, CommitFail, NameTaken
    <3> DEFINE r == R(pc)
    <3>3. /\ r \in RequestState /\ r.pc = pc /\ r.file = file
          /\ r.named = request[h].named /\ request' = [request EXCEPT ![h] = r]
      BY <2>2, <3>1
    <3> HIDE DEF r
    <3>4. /\ \A f \in Files : h \in Storing(f) <=> f = file
          /\ \A f \in Files : h \notin Storing(f)'
          /\ h \notin Naming'
          /\ h \in Naming <=> request[h].named
      BY <1>1, <3>2, <3>3 DEF Storing, Naming
    <3>5. Owed' - Owed = leaks' - leaks
      BY <1>0, <1>1, <3>2 DEF Owed, ImportInv, ImportTypeOK
    <3>6. ASSUME NEW f \in Files
          PROVE  (bytes'[f] - bytes[f]) + (IF h \in Naming' THEN 1 ELSE 0)
                    + (IF h \in Storing(f) THEN 1 ELSE 0)
                 <= (sessions'[f] - sessions[f]) + (IF h \in Naming THEN 1 ELSE 0)
                    + (IF h \in Storing(f)' THEN 1 ELSE 0) + (Owed' - Owed)
      <4> HIDE DEF Owed, Naming, Storing
      <4>0. /\ bytes[f] \in Nat /\ sessions[f] \in Nat
            /\ bytes'[f] \in Nat /\ sessions'[f] \in Nat
            /\ h \in Storing(f) <=> f = file
            /\ h \notin Storing(f)' /\ h \notin Naming'
            /\ h \in Naming <=> request[h].named
        BY <1>1, <1>3, <3>4
      <4>1. CASE Commit(h)
        <5>1. /\ bytes' = bytes /\ leaks' = leaks
              /\ sessions' = [sessions EXCEPT ![file] = @ + 1]
          BY <4>1 DEF Commit
        <5>2. sessions'[f] - sessions[f] = IF f = file THEN 1 ELSE 0
          BY <1>1, <2>1, <5>1
        <5> QED BY <1>1, <3>5, <4>0, <5>1, <5>2
      <4>2. CASE CommitFail(h)
        <5>1. /\ sessions' = sessions
              /\ \/ bytes' = [bytes EXCEPT ![file] = @ - 1] /\ leaks' = leaks
                 \/ bytes' = bytes /\ leaks' = leaks + 1
          BY <4>2 DEF CommitFail
        <5>2. CASE bytes' = [bytes EXCEPT ![file] = @ - 1] /\ leaks' = leaks
          <6>1. bytes'[f] - bytes[f] = IF f = file THEN -1 ELSE 0
            BY <1>1, <2>1, <5>2
          <6> QED BY <1>1, <3>5, <4>0, <5>1, <5>2, <6>1
        <5>3. CASE bytes' = bytes /\ leaks' = leaks + 1
          BY <1>1, <3>5, <4>0, <5>1, <5>3
        <5> QED BY <5>1, <5>2, <5>3
      <4>3. CASE NameTaken(h)
        <5>1. UNCHANGED <<sessions, bytes, leaks>> /\ request[h].named
          BY <4>3 DEF NameTaken
        <5> QED BY <1>1, <3>5, <4>0, <5>1
      <4> QED BY <2>5, <4>1, <4>2, <4>3
    <3>7. r.pc # "connecting"
      BY <3>1, <3>3
    <3> QED BY <1>3, <3>3, <3>6, <3>7, OwedMoves
  <2> QED BY <1>8, <2>3, <2>4, <2>5 DEF Handle
<1>9. ASSUME NEW h \in Handlers, Platform(h) PROVE OwedInv'
  <2>1. CASE Authenticate(h)
    <3>1. PICK pc \in {"arrived", "denied"} : Goto(h, pc)
      BY <2>1 DEF Authenticate
    <3>2. /\ request[h].pc = "connecting"
          /\ UNCHANGED <<sessions, bytes, kills, uploads, leaks>>
      BY <2>1 DEF Authenticate
    <3> DEFINE r == [request[h] EXCEPT !.pc = pc]
    <3>3. /\ r \in RequestState /\ r.pc = pc /\ ~r.named
          /\ request' = [request EXCEPT ![h] = r]
      BY <1>1, <3>1, <3>2 DEF Goto, RequestState, Answers
    <3> HIDE DEF r
    <3> QED BY <3>2, <3>3, OwedQuiet
  <2> QED BY <1>8, <1>9, <2>1 DEF Platform
<1>10. ASSUME NEW h \in Handlers, Unheard(h) \/ Receive(h) \/ ReceiveUnsaved(h)
       PROVE  OwedInv'
  <2>1. /\ Drop(h) /\ request[h].pc \in Answers
        /\ UNCHANGED <<sessions, bytes, kills, uploads, leaks>>
    BY <1>10 DEF Unheard, Hangup, Receive, ReceiveUnsaved
  <2>2. request[h].pc # "stored"
    BY <2>1 DEF Answers
  <2> QED BY <1>5, <2>1, <2>2
<1>11. ASSUME NEW h \in Handlers, GiveUp(h) PROVE OwedInv'
  BY <1>2, <1>11 DEF GiveUp, importVars
<1>12. ASSUME NEW f \in Files, Export(f) \/ PostLost(f) PROVE OwedInv'
  BY <1>2, <1>12 DEF Export, PostLost, importVars
<1>13. CASE Tick \/ TickUnsaved \/ Restart
  BY <1>2, <1>13 DEF Tick, TickUnsaved, Restart, importVars
<1>14. CASE UNCHANGED vars \/ (ConfigNext /\ UNCHANGED <<importVars, gatewayVars>>)
  BY <1>2, <1>14 DEF vars, importVars
<1> QED
  BY <1>4, <1>6, <1>7, <1>9, <1>10, <1>11, <1>12, <1>13, <1>14 DEF Next

(* A rejected file leaves nothing behind, for any number of processes and  *)
(* however their imports of one file interleave and fail: storage holds an *)
(* original for each session and each import about to commit, and no more  *)
(* others than there were kills, uploads by hand and failed discards.      *)
THEOREM RejectedLeavesNothing ==
    ASSUME IsFiniteSet(Handlers)
    PROVE  Spec => []NoOrphanBytes
<1>1. Init => ImportInv /\ OwedInv
  <2> SUFFICES ASSUME Init PROVE OwedInv
    BY ImportInitially
  <2>1. \A h \in Handlers : request[h].pc = "idle"
    BY DEF Init, ImportInit, NoRequest
  <2>2. Naming = {} /\ \A f \in Files : Storing(f) = {}
    BY <2>1 DEF Naming, Storing
  <2>3. Cardinality(Naming) = 0 /\ \A f \in Files : Cardinality(Storing(f)) = 0
    BY <2>2, FS_EmptySet
  <2> QED BY <2>1, <2>3 DEF OwedInv, Owed, Init, ImportInit
<1>2. ImportInv /\ OwedInv /\ [Next]_vars => (ImportInv /\ OwedInv)'
  BY ImportKept, OwedKept
<1>3. ImportInv /\ OwedInv => NoOrphanBytes
  <2> SUFFICES ASSUME ImportInv, OwedInv, NEW f \in Files
               PROVE  bytes[f] <= sessions[f] + Cardinality(Storing(f))
                                      + kills + uploads + leaks
    BY DEF NoOrphanBytes
  <2>1. Cardinality(Naming) \in Nat /\ Cardinality(Storing(f)) \in Nat
    BY FS_Subset, FS_CardinalityType DEF Naming, Storing
  <2>2. /\ bytes[f] \in Nat /\ sessions[f] \in Nat
        /\ kills \in Nat /\ uploads \in Nat /\ leaks \in Nat
    BY DEF ImportInv, ImportTypeOK
  <2> QED BY <2>1, <2>2 DEF OwedInv, Owed
<1> QED BY <1>1, <1>2, <1>3, PTL DEF Spec

VerdictInv ==
    /\ \A h \in Handlers : request[h].pc = "refused" =>
          request[h].file \in Unreadable \cup failed \/ request[h].named
    /\ waiting \in Handlers => ~request[waiting].named
    /\ RefusalsAreVerdicts

LEMMA VerdictKept ==
    ASSUME IInv, VerdictInv, [Next]_vars
    PROVE  VerdictInv'
<1>0. "content" \notin Tokens
  BY ReasonsAssumption
<1> USE <1>0, GatewayAssumption
<1> USE DEF VerdictInv, RefusalsAreVerdicts
<1>1. /\ request \in [Handlers -> RequestState]
      /\ refused \in [Files -> Verdicts]
      /\ waiting \in Handlers \cup {NoHandler}
      /\ waiting \in Handlers =>
            /\ request[waiting].pc # "idle" /\ request[waiting].file \in Files
            /\ cred[waiting] \in Tokens
  BY DEF IInv, ImportInv, ImportTypeOK, LedgerInv, GatewayTypeOK, Outstanding
<1>2. CASE UNCHANGED vars
  BY <1>2 DEF vars, importVars, gatewayVars
<1>3. ASSUME NEW f \in Files, Export(f) \/ PostLost(f) PROVE VerdictInv'
  BY <1>3 DEF Export, PostLost, importVars
<1>4. ASSUME NEW f \in Files, NEW h \in Handlers, Post(f, h) PROVE VerdictInv'
  BY <1>1, <1>4 DEF Post
<1>5. CASE Tick
  <2>1. \A f \in Files : refused'[f] = "content" => refused[f] = "content"
    BY <1>1, <1>5 DEF Tick, Reoffered
  <2> QED BY <1>5, <2>1 DEF Tick, importVars
<1>6. CASE TickUnsaved \/ Restart
  BY <1>1, <1>6 DEF TickUnsaved, Restart, importVars
<1>7. ASSUME NEW h \in Handlers, Authenticate(h) PROVE VerdictInv'
  <2>1. PICK pc \in {"arrived", "denied"} : Goto(h, pc)
    BY <1>7 DEF Authenticate
  <2> QED BY <1>1, <1>7, <2>1 DEF Authenticate, Goto, gatewayVars
<1>8. ASSUME NEW h \in Handlers, Handle(h), UNCHANGED gatewayVars
      PROVE  VerdictInv'
  <2>1. CASE RefuseBytes(h) \/ NameTaken(h)
    <3>1. Goto(h, "refused")
      BY <2>1 DEF RefuseBytes, NameTaken
    <3>2. /\ request[h].file \in Unreadable \/ request[h].named
          /\ failed' = failed
      BY <2>1 DEF RefuseBytes, NameTaken
    <3> QED BY <1>1, <1>8, <3>1, <3>2, GotoMoves DEF gatewayVars
  <2>2. CASE AnswerHeld(h) \/ Parse(h) \/ Store(h) \/ Commit(h)
    <3>1. PICK pc \in {"held", "importing", "stored", "created"} : Goto(h, pc)
      BY <2>2 DEF AnswerHeld, Parse, Store, Commit
    <3>2. failed' = failed
      BY <2>2 DEF AnswerHeld, Parse, Store, Commit
    <3> QED BY <1>1, <1>8, <3>1, <3>2 DEF Goto, gatewayVars
  <2>3. CASE StoreFail(h) \/ CommitFail(h)
    <3>1. Goto(h, "refused") /\ failed' = failed \cup {request[h].file}
      BY <2>3 DEF StoreFail, CommitFail, Fails
    <3>2. failed \subseteq failed' /\ request[h].file \in failed'
      BY <3>1
    <3>3. \A f \in Files : refused'[f] = "content" => f \in Unreadable \cup failed'
      BY <1>8, <3>2 DEF gatewayVars
    <3> QED BY <1>1, <1>8, <3>1, <3>2, <3>3, GotoMoves DEF gatewayVars
  <2> QED BY <1>8, <2>1, <2>2, <2>3 DEF Handle
<1>9. ASSUME NEW h \in Handlers, Unheard(h) PROVE VerdictInv'
  BY <1>1, <1>9 DEF Unheard, Hangup, Drop, NoRequest, gatewayVars
<1>10. ASSUME NEW h \in Handlers, Killed(h) PROVE VerdictInv'
  BY <1>1, <1>10 DEF Killed, KillHandler, Drop, NoRequest
<1>11. ASSUME NEW h \in Handlers, Receive(h) PROVE VerdictInv'
  <2>1. /\ waiting = h /\ waiting' = NoHandler /\ request[h].file \in Files
        /\ refused' = [refused EXCEPT ![request[h].file] =
                           CASE request[h].pc = "refused" -> "content"
                             [] request[h].pc = "denied" -> cred[h]
                             [] OTHER -> "no"]
        /\ request' = [request EXCEPT ![h] = NoRequest]
    BY <1>1, <1>11 DEF Receive, Drop
  <2>2. \A f \in Files : refused'[f] = "content" => f \in Unreadable \cup failed
    <3> SUFFICES ASSUME NEW f \in Files, refused'[f] = "content"
                 PROVE  f \in Unreadable \cup failed
      OBVIOUS
    <3>1. CASE f # request[h].file
      BY <1>1, <2>1, <3>1
    <3>2. CASE f = request[h].file
      <4>1. request[h].pc = "refused"
        BY <1>1, <2>1, <3>2
      <4> QED BY <2>1, <3>2, <4>1
    <3> QED BY <3>1, <3>2
  <2>3. failed' = failed
    BY <1>11 DEF Receive
  <2> QED BY <1>1, <2>1, <2>2, <2>3 DEF NoRequest
<1>12. ASSUME NEW h \in Handlers, ReceiveUnsaved(h) PROVE VerdictInv'
  BY <1>1, <1>12 DEF ReceiveUnsaved, Drop, NoRequest
<1>13. ASSUME NEW h \in Handlers, GiveUp(h) PROVE VerdictInv'
  BY <1>13 DEF GiveUp, importVars
<1>14. ASSUME NEW h \in Handlers, UploadByHand(h), UNCHANGED gatewayVars
       PROVE  VerdictInv'
  BY <1>1, <1>14 DEF UploadByHand, Upload, gatewayVars
<1>15. CASE ConfigNext /\ UNCHANGED <<importVars, gatewayVars>>
  BY <1>15 DEF importVars, gatewayVars
<1> QED
  BY <1>2, <1>3, <1>4, <1>5, <1>6, <1>7, <1>8, <1>9, <1>10, <1>11, <1>12,
     <1>13, <1>14, <1>15 DEF Next, Platform

(* "The bytes will not import next time either": every refusal the gateway *)
(* keeps is one the parser gave, or that of an import which the platform's *)
(* own storage or database failed, however many handlers, faults and       *)
(* credentials there are.                                                  *)
THEOREM RefusalsSound ==
    ASSUME IsFiniteSet(Handlers)
    PROVE  Spec => []RefusalsAreVerdicts
<1>1. Init => IInv /\ VerdictInv
  BY Initially, GatewayAssumption
     DEF Init, ImportInit, VerdictInv, RefusalsAreVerdicts, NoRequest
<1>2. IInv /\ VerdictInv /\ [Next]_vars => (IInv /\ VerdictInv)'
  BY Kept, VerdictKept
<1>3. VerdictInv => RefusalsAreVerdicts
  BY DEF VerdictInv
<1> QED BY <1>1, <1>2, <1>3, PTL DEF Spec
=============================================================================
