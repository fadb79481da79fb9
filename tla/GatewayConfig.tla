---------------------------- MODULE GatewayConfig ----------------------------
(***************************************************************************)
(* Turning gateway sync on and off for one instrument                      *)
(* (GatewayConfigService): enabling mints a credential, writes it to the   *)
(* config file that the gateway reads, and then revokes the credentials it *)
(* supersedes; disabling revokes and then removes the file.  Beside that,  *)
(* an officer may issue or revoke a credential by hand, and the admin form *)
(* may put a revoked one back.                                             *)
(***************************************************************************)
EXTENDS Integers, FiniteSets

CONSTANTS
    Tokens,         \* bound: the credentials that may be minted
    NoToken,
    Officers,       \* requests that enable or disable at a time
    MaxDisables,    \* bound: how often the instrument is disabled
    MaxConfigFaults,\* bound: how often the config directory fails
    MaxByHand       \* bound: the credentials handled by hand

ASSUME TokensAssumption == NoToken \notin Tokens
ASSUME ConfigBounds == {MaxDisables, MaxConfigFaults, MaxByHand} \subseteq Nat

VARIABLES
    minted,         \* credentials ever issued
    live,           \* the ones not revoked
    config,         \* the credential in the config file (NoToken: no file)
    outdated,       \* the file names a project the instrument has left
    enabled,        \* gateway_enabled
    leftover,       \* somebody was told to delete a file disable could not
    officer,        \* what each request is doing
    byHand,         \* the credentials ever issued, revoked or edited by hand
    overlapped,     \* history: two officers' requests have overlapped
    disables, configFaults

configVars == <<minted, live, config, outdated, enabled, leftover, officer,
                byHand, overlapped, disables, configFaults>>

(* A request goes by the flag as it was when it fetched the instrument.    *)
NoWork == [pc |-> "idle", token |-> NoToken, old |-> {}, on |-> FALSE]
OfficerState ==
    [pc : {"idle", "minting", "writing", "revoking", "removing"},
     token : Tokens \cup {NoToken}, old : SUBSET Tokens, on : BOOLEAN]

ConfigTypeOK ==
    /\ minted \subseteq Tokens
    /\ live \subseteq minted
    /\ config \in minted \cup {NoToken}
    /\ byHand \subseteq minted
    /\ {outdated, enabled, leftover, overlapped} \subseteq BOOLEAN
    /\ officer \in [Officers -> OfficerState]
    /\ {disables, configFaults} \subseteq Nat

ConfigInit ==
    /\ minted = {} /\ live = {} /\ byHand = {}
    /\ config = NoToken /\ overlapped = FALSE
    /\ outdated = FALSE /\ enabled = FALSE /\ leftover = FALSE
    /\ officer = [o \in Officers |-> NoWork]
    /\ disables = 0 /\ configFaults = 0

Work(o, state) == officer' = [officer EXCEPT ![o] = state]
Finish(o) == Work(o, NoWork)
IsCurrent == config # NoToken /\ ~outdated

(* A credential nobody had before: one is as good as another.              *)
IsNew(t) == t \in Tokens \ minted /\ t = CHOOSE u \in Tokens \ minted : TRUE

(* A request starts: is another one under way?                             *)
Meets(o) ==
    overlapped' = (overlapped \/ \E p \in Officers : officer[p].pc # "idle")

(* Enable and disable revoke what bears the gateway's label; a credential  *)
(* handled by hand may bear another one.                                   *)
Provisioned == {live \ other : other \in SUBSET byHand}

(* The instrument is moved to another project: its file no longer says     *)
(* what enable would write.  (Not while an officer is writing it.)         *)
Reassign ==
    /\ config # NoToken /\ ~outdated
    /\ outdated' = TRUE
    /\ UNCHANGED <<minted, live, config, enabled, leftover, officer, byHand,
                   overlapped, disables, configFaults>>

EnableCurrent(o) ==
    /\ officer[o].pc = "idle"
    /\ IsCurrent
    /\ enabled' = TRUE
    /\ Meets(o)
    /\ UNCHANGED <<minted, live, config, outdated, leftover, officer, byHand,
                   disables, configFaults>>

(* The superseded credentials are read before the new one is minted.       *)
EnableRead(o) ==
    /\ officer[o].pc = "idle"
    /\ ~IsCurrent
    /\ Tokens # minted
    /\ Meets(o)
    /\ \E old \in Provisioned :
          Work(o, [NoWork EXCEPT !.pc = "minting", !.old = old, !.on = enabled])
    /\ UNCHANGED <<minted, live, config, outdated, enabled, leftover, byHand,
                   disables, configFaults>>

EnableMint(o, t) ==
    /\ officer[o].pc = "minting"
    /\ IsNew(t)
    /\ minted' = minted \cup {t}
    /\ live' = live \cup {t}
    /\ Work(o, [officer[o] EXCEPT !.pc = "writing", !.token = t])
    /\ UNCHANGED <<config, outdated, enabled, leftover, byHand, overlapped,
                   disables, configFaults>>

EnableWrite(o) ==
    /\ officer[o].pc = "writing"
    /\ config' = officer[o].token
    /\ outdated' = FALSE /\ leftover' = FALSE
    /\ Work(o, [officer[o] EXCEPT !.pc = "revoking"])
    /\ UNCHANGED <<minted, live, enabled, byHand, overlapped, disables,
                   configFaults>>

(* mutant of EnableWriteFails: the credential nobody holds stays live *)
EnableWriteFailsLoose(o) ==
    /\ officer[o].pc = "writing"
    /\ configFaults < MaxConfigFaults
    /\ configFaults' = configFaults + 1
    /\ Finish(o)
    /\ UNCHANGED <<minted, live, config, outdated, enabled, leftover, byHand,
                   overlapped, disables>>

EnableWriteFails(o) ==
    /\ officer[o].pc = "writing"
    /\ configFaults < MaxConfigFaults
    /\ configFaults' = configFaults + 1
    /\ live' = live \ {officer[o].token}
    /\ Finish(o)
    /\ UNCHANGED <<minted, config, outdated, enabled, leftover, byHand,
                   overlapped, disables>>

EnableRevoke(o) ==
    /\ officer[o].pc = "revoking"
    /\ live' = live \ officer[o].old
    /\ enabled' = (enabled \/ ~officer[o].on)
    /\ Finish(o)
    /\ UNCHANGED <<minted, config, outdated, leftover, byHand, overlapped,
                   disables, configFaults>>

DisableRevoke(o) ==
    /\ officer[o].pc = "idle"
    /\ disables < MaxDisables
    /\ disables' = disables + 1
    /\ Meets(o)
    /\ \E old \in Provisioned : live' = live \ old
    /\ Work(o, [NoWork EXCEPT !.pc = "removing", !.on = enabled])
    /\ UNCHANGED <<minted, config, outdated, enabled, leftover, byHand,
                   configFaults>>

DisableRemove(o) ==
    /\ officer[o].pc = "removing"
    /\ config' = NoToken
    /\ outdated' = FALSE /\ leftover' = FALSE
    /\ enabled' = (enabled /\ ~officer[o].on)
    /\ Finish(o)
    /\ UNCHANGED <<minted, live, byHand, overlapped, disables, configFaults>>

DisableRemoveFails(o) ==
    /\ officer[o].pc = "removing"
    /\ config # NoToken
    /\ configFaults < MaxConfigFaults
    /\ configFaults' = configFaults + 1
    /\ leftover' = TRUE
    /\ Finish(o)
    /\ UNCHANGED <<minted, live, config, outdated, enabled, byHand, overlapped,
                   disables>>

Enable(o) ==
    \/ EnableCurrent(o) \/ EnableRead(o)
    \/ \E t \in Tokens : EnableMint(o, t)
    \/ EnableWrite(o) \/ EnableWriteFails(o) \/ EnableRevoke(o)

Disable(o) == DisableRevoke(o) \/ DisableRemove(o) \/ DisableRemoveFails(o)

(* A credential is issued, revoked, or edited in the admin form.  None of  *)
(* it touches the config file, so a file naming a dead credential stays    *)
(* current.                                                                *)
ByHand(t) ==
    /\ t \in minted \/ IsNew(t)
    /\ t \in byHand \/ Cardinality(byHand) < MaxByHand
    /\ byHand' = byHand \cup {t} /\ minted' = minted \cup {t}
    /\ live' \in {live \cup {t}, live \ {t}}
    /\ UNCHANGED <<config, outdated, enabled, leftover, officer, overlapped,
                   disables, configFaults>>

ConfigNext ==
    \/ Reassign
    \/ \E o \in Officers : Enable(o) \/ Disable(o)
    \/ \E t \in Tokens : ByHand(t)

----------------------------------------------------------------------------
(***************************************************************************)
(* Properties                                                              *)
(***************************************************************************)
NobodyWorks == \A o \in Officers : officer[o].pc = "idle"

(* Once enable has returned, the credential the gateway reads works.  If   *)
(* it does not, enabling again changes nothing: the file is current.  (One *)
(* revoked by hand is such a credential: it stays in the file, and dead.)  *)
ConfigIsLive ==
    NobodyWorks /\ ~overlapped /\ config # NoToken /\ ~leftover
        => config \in live \cup byHand

(* "A failed enable leaves no live secret behind", and a disabled one      *)
(* neither: the only live credential is the one in the file, unless it was *)
(* issued by hand or two requests overlapped.                              *)
NoLooseCredential ==
    NobodyWorks /\ ~overlapped => live \subseteq {config} \cup byHand

(* What the panel says of the instrument is what the gateway will find.    *)
FlagMatchesFile ==
    NobodyWorks /\ ~overlapped => (enabled <=> config # NoToken)
=============================================================================
