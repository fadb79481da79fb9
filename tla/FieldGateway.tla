---------------------------- MODULE FieldGateway ----------------------------
(***************************************************************************)
(* The field gateway (gateway.py) delivering one instrument's exports: a   *)
(* single-threaded process outside the platform re-reads the config file,  *)
(* sweeps the watched folder, posts what its ledger does not know, and     *)
(* records the platform's verdicts.  It composes the platform's side of    *)
(* the import (FileImport) and of the provisioning (GatewayConfig).        *)
(*                                                                         *)
(* Between the two a request or its answer may be lost, the gateway may    *)
(* give up on an answer that is still coming, and either process may be    *)
(* killed.  A file in the folder is one that has settled.                  *)
(***************************************************************************)
EXTENDS FileImport, GatewayConfig

CONSTANTS
    MaxRestarts,    \* bound: how often the gateway is restarted
    MaxTimeouts,    \* bound: how often it gives up on an answer
    NoHandler

ASSUME GatewayAssumption ==
    {MaxRestarts, MaxTimeouts} \subseteq Nat /\ NoHandler \notin Handlers

(* A refusal is kept as a reason or as the credential that was refused.    *)
ASSUME ReasonsAssumption == {"no", "content"} \cap Tokens = {}

VARIABLES
    folder,     \* the settled files in the watched folder
    token,      \* the credential the instrument is served with, or NoToken
    todo,       \* the files this sweep has still to offer
    waiting,    \* the process whose answer the gateway is waiting for
    cred,       \* the credential each request carries
    sent,       \* ledger: files the platform has confirmed
    refused,    \* ledger: "no", "content", or the credential that was refused
    restarts, timeouts

gatewayVars == <<folder, token, todo, waiting, cred, sent, refused, restarts,
                 timeouts>>
vars == <<importVars, configVars, gatewayVars>>

(* Every change of the ledger is saved as it happens, so the file and the  *)
(* copy in memory agree whenever the instrument is served.                 *)
Verdicts == {"no", "content"} \cup Tokens

TypeOK ==
    /\ ImportTypeOK /\ ConfigTypeOK
    /\ folder \subseteq Files /\ todo \subseteq folder /\ sent \subseteq Files
    /\ token \in minted \cup {NoToken}
    /\ waiting \in Handlers \cup {NoHandler}
    /\ cred \in [Handlers -> Tokens \cup {NoToken}]
    /\ refused \in [Files -> Verdicts]
    /\ {restarts, timeouts} \subseteq Nat

Init ==
    /\ ImportInit /\ ConfigInit
    /\ folder = {} /\ todo = {} /\ sent = {}
    /\ token = NoToken
    /\ waiting = NoHandler
    /\ cred = [h \in Handlers |-> NoToken]
    /\ refused = [f \in Files |-> "no"]
    /\ restarts = 0 /\ timeouts = 0

Export(f) ==
    /\ f \notin folder
    /\ folder' = folder \cup {f}
    /\ UNCHANGED <<importVars, configVars, token, todo, waiting, cred, sent,
                   refused, restarts, timeouts>>

----------------------------------------------------------------------------
(***************************************************************************)
(* A tick: reconcile with the config file, then sweep.                     *)
(***************************************************************************)

(* mutant of Reoffered: refusals are never forgotten *)
ReofferNothing == refused

(* A replaced credential makes the refusals of the old one obsolete; an    *)
(* instrument taken up anew keeps what its ledger says.                    *)
Reoffered ==
    IF token # NoToken /\ config # token
    THEN [f \in Files |-> IF refused[f] \in Tokens THEN "no" ELSE refused[f]]
    ELSE refused

Tick ==
    /\ waiting = NoHandler /\ todo = {}
    /\ token' = config
    /\ IF config = NoToken
       THEN UNCHANGED <<refused, todo>>
       ELSE /\ refused' = Reoffered
            /\ todo' = {f \in folder \ sent : refused'[f] = "no"}
    /\ UNCHANGED <<importVars, configVars, folder, waiting, cred, sent,
                   restarts, timeouts>>

(* The cleared refusals cannot be saved: the instrument is withdrawn, and   *)
(* its ledger file keeps them.                                             *)
TickUnsaved ==
    /\ waiting = NoHandler /\ todo = {}
    /\ config # NoToken /\ Reoffered # refused
    /\ FaultHappens
    /\ token' = NoToken
    /\ UNCHANGED <<sessions, bytes, request, failed, races, leaks, uploads,
                   kills, configVars, folder, todo, waiting, cred, sent,
                   refused, restarts, timeouts>>

Post(f, h) ==
    /\ waiting = NoHandler /\ f \in todo
    /\ request[h].pc = "idle"
    /\ request' = [request EXCEPT ![h] =
                      [pc |-> "connecting", file |-> f, named |-> FALSE]]
    /\ cred' = [cred EXCEPT ![h] = token]
    /\ waiting' = h
    /\ todo' = todo \ {f}
    /\ UNCHANGED <<sessions, bytes, failed, races, leaks, uploads, faults,
                   kills, configVars, folder, token, sent, refused, restarts,
                   timeouts>>

(* No process takes the request: a network failure, or the platform is     *)
(* overloaded.  The file stays for the next sweep.                         *)
PostLost(f) ==
    /\ waiting = NoHandler /\ f \in todo
    /\ todo' = todo \ {f}
    /\ UNCHANGED <<importVars, configVars, folder, token, waiting, cred, sent,
                   refused, restarts, timeouts>>

Authenticate(h) ==
    /\ request[h].pc = "connecting"
    /\ Goto(h, IF cred[h] \in live THEN "arrived" ELSE "denied")
    /\ UNCHANGED <<sessions, bytes, failed, races, leaks, uploads, faults,
                   kills, configVars, gatewayVars>>

(* mutant of Receive: an accepted file is recorded as refused *)
ReceiveKeepsRefusal(h) ==
    /\ waiting = h /\ request[h].pc \in Answers
    /\ LET f == request[h].file
           pc == request[h].pc
       IN  /\ sent' = IF pc \in Accepted THEN sent \cup {f} ELSE sent
           /\ refused' = [refused EXCEPT ![f] =
                  IF pc = "held" THEN "no" ELSE "content"]
    /\ waiting' = NoHandler
    /\ Drop(h)
    /\ UNCHANGED <<sessions, bytes, failed, races, leaks, uploads, faults,
                   kills, configVars, folder, token, todo, cred, restarts,
                   timeouts>>

Receive(h) ==
    /\ waiting = h /\ request[h].pc \in Answers
    /\ LET f == request[h].file
           pc == request[h].pc
       IN  /\ sent' = IF pc \in Accepted THEN sent \cup {f} ELSE sent
           /\ refused' = [refused EXCEPT ![f] =
                  CASE pc = "refused" -> "content"
                    [] pc = "denied" -> cred[h]
                    [] OTHER -> "no"]
    /\ waiting' = NoHandler
    /\ Drop(h)
    /\ UNCHANGED <<sessions, bytes, failed, races, leaks, uploads, faults,
                   kills, configVars, folder, token, todo, cred, restarts,
                   timeouts>>

(* The ledger cannot be written: the instrument is withdrawn until the     *)
(* next tick reads the ledger file again.                                  *)
ReceiveUnsaved(h) ==
    /\ waiting = h /\ request[h].pc \in Answers
    /\ FaultHappens
    /\ token' = NoToken /\ todo' = {}
    /\ waiting' = NoHandler
    /\ Drop(h)
    /\ UNCHANGED <<sessions, bytes, failed, races, leaks, uploads, kills,
                   configVars, folder, cred, sent, refused, restarts,
                   timeouts>>

(* The timeout expires, or the connection breaks, whatever the process is  *)
(* doing by then: it carries on.                                           *)
GiveUp(h) ==
    /\ waiting = h
    /\ timeouts < MaxTimeouts
    /\ timeouts' = timeouts + 1
    /\ waiting' = NoHandler
    /\ UNCHANGED <<importVars, configVars, folder, token, todo, cred, sent,
                   refused, restarts>>

Restart ==
    /\ restarts < MaxRestarts
    /\ restarts' = restarts + 1
    /\ token' = NoToken /\ todo' = {} /\ waiting' = NoHandler
    /\ UNCHANGED <<importVars, configVars, folder, cred, sent, refused,
                   timeouts>>

----------------------------------------------------------------------------
Platform(h) ==
    \/ Authenticate(h)
    \/ Handle(h) /\ UNCHANGED <<configVars, gatewayVars>>

(* Nobody is listening any more, or nobody was: an upload by hand.         *)
Unheard(h) ==
    /\ waiting # h
    /\ Hangup(h)
    /\ UNCHANGED <<configVars, gatewayVars>>

Killed(h) ==
    /\ KillHandler(h)
    /\ waiting' = IF waiting = h THEN NoHandler ELSE waiting
    /\ UNCHANGED <<configVars, folder, token, todo, cred, sent, refused,
                   restarts, timeouts>>

Next ==
    \/ \E f \in Files :
          Export(f) \/ PostLost(f) \/ \E h \in Handlers : Post(f, h)
    \/ Tick \/ TickUnsaved \/ Restart
    \/ \E h \in Handlers :
          \/ Platform(h) \/ Unheard(h) \/ Killed(h)
          \/ Receive(h) \/ ReceiveUnsaved(h) \/ GiveUp(h)
          \/ UploadByHand(h) /\ UNCHANGED <<configVars, gatewayVars>>
    \/ ConfigNext /\ UNCHANGED <<importVars, gatewayVars>>

Spec == Init /\ [][Next]_vars

(* The gateway keeps ticking and the platform keeps serving; the network   *)
(* lets some request of each file through; an officer's request ends.      *)
Fairness ==
    /\ WF_vars(Tick)
    /\ \A f \in Files : SF_vars(\E h \in Handlers : Post(f, h))
    /\ \A f \in Files : WF_vars(PostLost(f))
    /\ \A h \in Handlers : /\ WF_vars(Platform(h))
                           /\ WF_vars(Unheard(h))
                           /\ SF_vars(Receive(h))
    /\ \A o \in Officers :
          WF_vars((EnableWrite(o) \/ EnableRevoke(o) \/ DisableRemove(o)
                      \/ \E t \in Tokens : EnableMint(o, t))
                  /\ UNCHANGED <<importVars, gatewayVars>>)

FairSpec == Spec /\ Fairness

----------------------------------------------------------------------------
(***************************************************************************)
(* Properties                                                              *)
(***************************************************************************)

(* "An entry is written only after the platform has confirmed it holds     *)
(* those bytes": what the gateway never offers again is on the platform.   *)
LedgerTellsTruth == \A f \in sent : sessions[f] > 0

(* A file that was accepted is no longer a refusal.                        *)
NeverSentAndRefused == \A f \in sent : refused[f] = "no"

(* "The bytes will not import next time either": a file whose content was  *)
(* refused is one the platform cannot read, or one whose import its own    *)
(* storage or database failed (it answers both alike).                     *)
RefusalsAreVerdicts ==
    \A f \in Files : refused[f] = "content" => f \in Unreadable \cup failed

(* Files refused during an outage of the credential are offered again when *)
(* it is replaced, unless the instrument was taken up anew in between: the *)
(* gateway then does not know that its refusals are of another credential. *)
(* And a credential revoked by hand is not replaced: the config stays      *)
(* current.  A refused content is final, even one a failure refused.       *)
Stranded(f) ==
    \/ restarts + disables + faults > 0 /\ refused[f] \in Tokens \ live
    \/ refused[f] \in byHand
    \/ refused[f] = "content" /\ f \in failed

(* Nobody needs to look after it: a readable export of a provisioned       *)
(* instrument becomes a session.                                           *)
EveryCaptureArrives ==
    \A f \in Files \ Unreadable :
        (f \in folder /\ config # NoToken)
            ~> (sessions[f] > 0 \/ config = NoToken \/ []Stranded(f))
=============================================================================
